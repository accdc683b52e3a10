----------------------------- MODULE LeapSearch -----------------------------
(***************************************************************************)
(* The depth-first LEAP search (leap/controller.py, leap/render.py) over   *)
(* the shared proof graph.                                                 *)
(*                                                                         *)
(* A worker is one invocation of SearchController.prove; it has a fresh    *)
(* lease owner and its frames are the activations of _solve_or.  A step is *)
(* one graph transaction, or what happens between two of them.  The model, *)
(* the reviewer and Lean are nondeterministic, except that Lean refuses a  *)
(* module that declares a name twice.                                      *)
(*                                                                         *)
(* Left out: revisions of one candidate, the duplicate check for direct    *)
(* proofs and sketches, the order among the branches of one goal, the      *)
(* limits of 12 and 20 ancestors (instances are smaller), transactions     *)
(* that fail, the proof_runs row, and the clock: wherever the code asks    *)
(* the budget, the answer may be that it is spent.  What an attempt reads  *)
(* of the graph for its prompt and for its module is read in one step.     *)
(***************************************************************************)
EXTENDS ProofGraph

CONSTANTS
  Root,           \* worker -> the goal it is asked to prove
  Earlier,        \* worker -> the workers that had ended when it starts
  Mortal,         \* workers whose process may die
  Slow,           \* workers that may outlive their leases
  History,        \* decompositions left by earlier searches: decomposition -> status
  Portfolio,      \* how many deterministic tactics there are
  MaxDepth, MaxBlueprints, MaxNodes, MaxChildren,
  NoAnd

ASSUME WorkerAssumption ==
  /\ Root \in [Worker -> Goal] /\ Earlier \in [Worker -> SUBSET Worker]
  /\ Mortal \subseteq Worker /\ Slow \subseteq Worker
  /\ Portfolio \in Nat /\ MaxDepth \in Nat /\ MaxBlueprints \in Nat
  /\ MaxNodes \in Nat /\ MaxChildren \in Nat
  /\ NoAnd \notin Decomposition

\* Earlier searches left no proof, and a graph with the properties of ProofGraph.
ASSUME HistoryAssumption ==
  LET left == {d \in Decomposition : History[d] # "absent"}
  IN /\ History \in [Decomposition -> {"absent", "solving", "paused"}]
     /\ \A d \in left : d.kids # << >> /\ d.cites = {}
     /\ Founded([g \in Goal |-> UNION {Children(d) : d \in {x \in left : x.parent = g}}])

VARIABLES
  stack,     \* worker -> its frames, the outermost first
  phase,     \* worker -> where prove is
  tactic     \* goal -> the verdicts on the first of the tactics (attempts rows)

search == <<stack, phase, tactic>>
vars == <<graph, search>>

Phase == {"idle", "search", "assemble", "proved", "unproved", "crashed"}
Ended == {"proved", "unproved", "crashed"}

Unleased == {"enter", "lease"}
Leased == {"tactics", "closed", "branches", "priority", "child", "judge", "pause", "direct",
           "commit", "blueprints", "count", "expand", "activate", "deferred", "status",
           "succeed", "fail", "raise"}

\* One activation of _solve_or: the branches still to try (todo), those left for
\* the end (later) and those read as proved (settled), the branch being solved
\* with its remaining children and the stage to go back to, the blueprint attempts
\* left and the lemmas a verified proof cites.
FrameType ==
  [goal : Goal, at : Unleased \cup Leased,
   todo : SUBSET Decomposition, later : SUBSET Decomposition, settled : SUBSET Decomposition,
   and : Decomposition \cup {NoAnd}, kids : Seq(Goal),
   back : {"priority", "blueprints", "deferred"}, tries : 0..MaxBlueprints,
   cites : SUBSET Goal]

Call(g) ==
  [goal |-> g, at |-> "enter", todo |-> {}, later |-> {}, settled |-> {}, and |-> NoAnd,
   kids |-> << >>, back |-> "priority", tries |-> MaxBlueprints, cites |-> {}]

Depth(w) == Len(stack[w])
Top(w) == stack[w][Depth(w)]
At(w, stage) == Depth(w) > 0 /\ Top(w).at = stage

\* The top frame goes to a stage, or becomes f.
Become(w, f) == stack' = [stack EXCEPT ![w][Depth(w)] = f] /\ UNCHANGED <<phase, tactic>>
Goto(w, stage) == Become(w, [Top(w) EXCEPT !.at = stage])

\* Mutant: the outermost frame ends and nothing follows.
DropOnly(w, stage) ==
  /\ stack' = [stack EXCEPT ![w] =
       [i \in 1..(Depth(w) - 1) |->
          IF i = Depth(w) - 1 THEN [@[i] EXCEPT !.at = stage] ELSE @[i]]]
  /\ UNCHANGED <<phase, tactic>>

\* The top frame ends; the frame below it goes to a stage, or prove goes on.
Drop(w, stage) ==
  /\ stack' = [stack EXCEPT ![w] =
       [i \in 1..(Depth(w) - 1) |->
          IF i = Depth(w) - 1 THEN [@[i] EXCEPT !.at = stage] ELSE @[i]]]
  /\ phase' = [phase EXCEPT ![w] = IF Depth(w) = 1 THEN "assemble" ELSE @]
  /\ UNCHANGED tactic

\* _solve_or returns to _solve_and.
Answer(w, solved) == Drop(w, IF solved THEN "child" ELSE "pause")

-----------------------------------------------------------------------------
(***************************************************************************)
(* What the controller and Lean look at                                    *)
(***************************************************************************)
Ancestors(g) == {p \in Goal \ {g} : Reachable(Present, p, g)}

\* The declarations a module needs for the lemmas gs, by _topological_order.
Cone(gs) ==
  {h \in Goal : \A S \in SUBSET Goal :
     gs \subseteq S /\ (\A x \in S \cap Proved : Dependencies(x) \subseteq S) => h \in S}

Materializes(gs) == Founded([h \in Cone(gs) |-> Dependencies(h)])

\* Mutant: any proved goal is offered, and Lean accepts a second declaration.
CitableAnything(g, own) == {gs \in SUBSET (Proved \ {g}) : Materializes(gs)}

\* Lemmas that retrieval offers for g and whose declarations render and compile
\* next to declarations of the goals in own.
Citable(g, own) ==
  {gs \in SUBSET (Proved \ ({g} \cup Ancestors(g))) :
     Materializes(gs) /\ Cone(gs) \cap own = {}}

\* _prepare_blueprint and the sketch checks let d pass.
Sketchable(d) ==
  /\ d.kids # << >> /\ Cardinality(Children(d)) <= MaxChildren
  /\ \A i, j \in DOMAIN d.kids : d.kids[i] = d.kids[j] => i = j
  /\ Required(d) \cap d.spare = {}
  /\ Children(d) \cap ({d.parent} \cup Ancestors(d.parent)) = {}
  /\ d.cites \in Citable(d.parent, {d.parent} \cup Children(d))

Registered == {g \in Goal : orStatus[g] # "absent"}
Branches(g) == {d \in Present : d.parent = g}

-----------------------------------------------------------------------------
HistoryGoals ==
  UNION {{d.parent} \cup Children(d) : d \in {e \in Decomposition : History[e] # "absent"}}

LeapInit ==
  /\ orStatus = [g \in Goal |-> IF g \in HistoryGoals THEN "open" ELSE "absent"]
  /\ andStatus = History
  /\ proof = [g \in Goal |-> Unproved]
  /\ deps = [g \in Goal |-> {}]
  /\ lease = [g \in Goal |-> Nobody]
  /\ expired = {}
  /\ stack = [w \in Worker |-> << >>]
  /\ phase = [w \in Worker |-> "idle"]
  /\ tactic = [g \in Goal |-> << >>]

Start(w) ==
  /\ phase[w] = "idle" /\ \A v \in Earlier[w] : phase[v] \in Ended
  /\ IF Root[w] \in Registered THEN UNCHANGED graph ELSE RegisterGoal(Root[w])
  /\ stack' = [stack EXCEPT ![w] = <<Call(Root[w])>>]
  /\ phase' = [phase EXCEPT ![w] = "search"]
  /\ UNCHANGED tactic

\* The goal is the one of an outer frame.
Recurs(w) == \E i \in 1..(Depth(w) - 1) : stack[w][i].goal = Top(w).goal

Enter(w) ==
  /\ At(w, "enter")
  /\ IF Top(w).goal \in Proved
       THEN Answer(w, TRUE)
       ELSE /\ ~Recurs(w)
            /\ \/ Depth(w) - 1 <= MaxDepth /\ Goto(w, "lease")
               \/ Answer(w, FALSE)
  /\ UNCHANGED graph

Lease(w) ==
  /\ At(w, "lease")
  /\ \/ AcquireLease(w, Top(w).goal) /\ Goto(w, "tactics")
     \/ RefuseLease(w, Top(w).goal) /\ Answer(w, FALSE)

\* Mutant: the budget is asked again between the verdict and the commit.
TacticsThenBudget(w) ==
  /\ At(w, "tactics")
  /\ \/ Goto(w, "branches")
     \/ /\ Len(tactic[Top(w).goal]) < Portfolio
        /\ \E verdict \in {"rejected", "verified"}, stage \in {"tactics", "closed", "branches"} :
             /\ stack' = [stack EXCEPT ![w][Depth(w)].at = stage]
             /\ tactic' = [tactic EXCEPT ![Top(w).goal] = Append(@, verdict)]
             /\ IF verdict = "verified" THEN stage # "tactics" ELSE stage = "tactics"
        /\ UNCHANGED phase
  /\ UNCHANGED graph

\* The first tactic without a row is compiled; its row is written before the
\* proof it found enters the graph.  A tactic with a row is skipped whatever its
\* verdict was.  The loop ends with the portfolio, the budget or the compiler.
Tactics(w) ==
  /\ At(w, "tactics")
  /\ \/ Goto(w, "branches")
     \/ /\ Len(tactic[Top(w).goal]) < Portfolio
        /\ \E verdict \in {"rejected", "verified"} :
             /\ stack' = [stack EXCEPT ![w][Depth(w)].at =
                  IF verdict = "verified" THEN "closed" ELSE "tactics"]
             /\ tactic' = [tactic EXCEPT ![Top(w).goal] = Append(@, verdict)]
        /\ UNCHANGED phase
  /\ UNCHANGED graph

Close(w) ==
  /\ At(w, "closed")
  /\ CommitDirect(Top(w).goal, {})
  /\ Goto(w, "succeed")

Partition(w) ==
  /\ At(w, "branches")
  /\ LET all == Branches(Top(w).goal)
         first == {d \in all : andStatus[d] # "paused" \/ Required(d) \cap Proved # {}}
     IN Become(w, [Top(w) EXCEPT !.at = "priority", !.todo = first, !.later = all \ first,
                                 !.settled = {d \in all : andStatus[d] = "proved"}])
  /\ UNCHANGED graph

\* The frame f sets out to solve the branch d, and comes back to a stage.
Solving(f, d, stage) ==
  [f EXCEPT !.at = "child", !.and = d, !.kids = d.kids, !.back = stage]

Priority(w) ==
  /\ At(w, "priority")
  /\ \/ Top(w).todo = {} /\ Goto(w, "direct") /\ UNCHANGED graph
     \/ Top(w).todo \cap Top(w).settled # {} /\ PropagateAll /\ Goto(w, "status")
     \/ \E d \in Top(w).todo \ Top(w).settled :
          /\ ActivateAnd(d)
          /\ Become(w, Solving([Top(w) EXCEPT !.todo = @ \ {d}], d, "priority"))

Child(w) ==
  /\ At(w, "child")
  /\ IF Top(w).kids = << >>
       THEN PropagateAll /\ Goto(w, "judge")
       ELSE /\ stack' = [stack EXCEPT ![w] =
                 Append([@ EXCEPT ![Depth(w)].kids = Tail(Top(w).kids)],
                        Call(Head(Top(w).kids)))]
            /\ UNCHANGED <<graph, phase, tactic>>

Judge(w) ==
  /\ At(w, "judge")
  /\ Goto(w, IF Top(w).goal \in Proved THEN "succeed" ELSE Top(w).back)
  /\ UNCHANGED graph

Pause(w) ==
  /\ At(w, "pause")
  /\ PauseAnd(Top(w).and)
  /\ Become(w, [Top(w) EXCEPT !.at = Top(w).back, !.and = NoAnd, !.kids = << >>])

\* Rendering with the declarations the graph holds now, and Lean's verdict.
Prove(w) ==
  /\ At(w, "direct")
  /\ \/ Goto(w, "blueprints")
     \/ \E gs \in Citable(Top(w).goal, {Top(w).goal}) :
          Become(w, [Top(w) EXCEPT !.at = "commit", !.cites = gs])
  /\ UNCHANGED graph

Commit(w) ==
  /\ At(w, "commit")
  /\ CommitDirect(Top(w).goal, Top(w).cites)
  /\ Become(w, [Top(w) EXCEPT !.at = "succeed", !.cites = {}])

\* Mutant: a blueprint that is sketched is not counted as an attempt.
BlueprintAgain(w) ==
  /\ At(w, "blueprints")
  /\ \/ Goto(w, "deferred")
     \/ /\ Top(w).tries > 0
        /\ \/ Become(w, [Top(w) EXCEPT !.tries = @ - 1])
           \/ \E d \in Decomposition :
                /\ d.parent = Top(w).goal /\ Sketchable(d)
                /\ Become(w, [Top(w) EXCEPT !.at = "count", !.and = d])
  /\ UNCHANGED graph

Blueprint(w) ==
  /\ At(w, "blueprints")
  /\ \/ Goto(w, "deferred")
     \/ /\ Top(w).tries > 0
        /\ \/ Become(w, [Top(w) EXCEPT !.tries = @ - 1])
           \/ \E d \in Decomposition :
                /\ d.parent = Top(w).goal /\ Sketchable(d)
                /\ Become(w, [Top(w) EXCEPT !.at = "count", !.tries = @ - 1, !.and = d])
  /\ UNCHANGED graph

\* Mutant: the new children are not counted.
CountOldNodes(w) ==
  /\ At(w, "count")
  /\ IF Cardinality(Registered) > MaxNodes
       THEN Become(w, [Top(w) EXCEPT !.at = "blueprints", !.and = NoAnd])
       ELSE Goto(w, "expand")
  /\ UNCHANGED graph

\* The node budget is compared in a transaction of its own, before the one that
\* adds the children; no lock is held in between.
CountNodes(w) ==
  /\ At(w, "count")
  /\ IF Cardinality(Registered \cup Children(Top(w).and)) > MaxNodes
       THEN Become(w, [Top(w) EXCEPT !.at = "blueprints", !.and = NoAnd])
       ELSE Goto(w, "expand")
  /\ UNCHANGED graph

Expand(w) ==
  /\ At(w, "expand")
  /\ IF Acceptable(Top(w).and)
       THEN CommitDecomposition(Top(w).and) /\ Goto(w, "activate")
       ELSE /\ Become(w, [Top(w) EXCEPT !.at = "blueprints", !.and = NoAnd])
            /\ UNCHANGED graph

Activate(w) ==
  /\ At(w, "activate")
  /\ ActivateAnd(Top(w).and)
  /\ Become(w, Solving(Top(w), Top(w).and, "blueprints"))

Deferred(w) ==
  /\ At(w, "deferred")
  /\ \/ Top(w).later = {} /\ Goto(w, "status") /\ UNCHANGED graph
     \/ \E d \in Top(w).later :
          /\ ActivateAnd(d)
          /\ Become(w, Solving([Top(w) EXCEPT !.later = @ \ {d}], d, "deferred"))

Status(w) ==
  /\ At(w, "status")
  /\ Goto(w, IF Top(w).goal \in Proved THEN "succeed" ELSE "fail")
  /\ UNCHANGED graph

Leave(w) ==
  /\ At(w, "succeed") \/ At(w, "fail")
  /\ ReleaseLease(w, Top(w).goal)
  /\ Answer(w, At(w, "succeed"))

\* An exception: the model budget, an artifact that cannot be written, supports
\* that do not materialize, or the guard against recursion.
Raise(w) ==
  /\ Depth(w) > 0
  /\ IF At(w, "enter")
       THEN Top(w).goal \notin Proved /\ Recurs(w) /\ Drop(w, "raise")
       ELSE /\ Top(w).at \in {"tactics", "direct", "blueprints"}
            /\ Goto(w, "raise")
  /\ UNCHANGED graph

\* Mutant: an exception passes through a frame without its finally clause.
UnwindOnly(w) ==
  /\ At(w, "raise")
  /\ Drop(w, "raise")
  /\ UNCHANGED graph

Unwind(w) ==
  /\ At(w, "raise")
  /\ ReleaseLease(w, Top(w).goal)
  /\ Drop(w, "raise")

\* The final module needs a proved root and an order of its declarations.
Assemble(w) ==
  /\ phase[w] = "assemble"
  /\ \/ /\ Root[w] \in Proved /\ Materializes({Root[w]})
        /\ phase' = [phase EXCEPT ![w] = "proved"]
     \/ phase' = [phase EXCEPT ![w] = "unproved"]
  /\ UNCHANGED <<graph, stack, tactic>>

Crash(w) ==
  /\ w \in Mortal /\ phase[w] \in {"search", "assemble"}
  /\ phase' = [phase EXCEPT ![w] = "crashed"]
  /\ stack' = [stack EXCEPT ![w] = << >>]
  /\ UNCHANGED <<graph, tactic>>

\* A lease outlasts its worker's budget, so only a dead worker or one that is
\* stuck in a call sees it expire.
LeaseEnds(g) ==
  /\ lease[g] \in Slow \/ (lease[g] # Nobody /\ phase[lease[g]] \in Ended)
  /\ Expire(g)
  /\ UNCHANGED search

Step(w) ==
  \/ Enter(w) \/ Lease(w) \/ Tactics(w) \/ Close(w) \/ Partition(w) \/ Priority(w)
  \/ Child(w) \/ Judge(w) \/ Pause(w) \/ Prove(w) \/ Commit(w) \/ Blueprint(w)
  \/ CountNodes(w) \/ Expand(w) \/ Activate(w) \/ Deferred(w) \/ Status(w) \/ Leave(w)
  \/ Raise(w) \/ Unwind(w) \/ Assemble(w)

LeapNext ==
  \/ \E w \in Worker : Start(w) \/ Step(w) \/ Crash(w)
  \/ \E g \in Goal : LeaseEnds(g)

LeapSpec == LeapInit /\ [][LeapNext]_vars

\* Every model call and every compilation has a timeout, so a worker goes on.
FairLeapSpec == LeapSpec /\ \A w \in Worker : WF_vars(Step(w))

-----------------------------------------------------------------------------
(***************************************************************************)
(* Properties                                                              *)
(***************************************************************************)
LeapTypeOK ==
  /\ stack \in [Worker -> Seq(FrameType)]
  /\ phase \in [Worker -> Phase]
  /\ tactic \in [Goal -> Seq({"rejected", "verified"})]
  /\ \A w \in Worker : phase[w] = "search" <=> stack[w] # << >>

\* The guard against recursion never strikes: no worker comes to a goal it is
\* already solving, even while other workers add decompositions under it.
NoRuntimeRecursion ==
  \A w \in Worker : \A i, j \in DOMAIN stack[w] :
    stack[w][i].goal = stack[w][j].goal => i = j

\* A worker that does not outlive its leases holds the lease of every goal it is
\* in the middle of; so no two such workers are on the same goal.
WorksUnderLease ==
  \A w \in Worker \ Slow : \A i \in DOMAIN stack[w] :
    stack[w][i].at \in Leased => lease[stack[w][i].goal] = w

\* However a search ends, unless its process dies, it gives every lease back.
LeasesReturned ==
  \A g \in Goal : lease[g] # Nobody => phase[lease[g]] \in {"search", "crashed"}

\* What a worker adds to the graph after another's count without a later count of
\* its own: its root, or the children it had counted before.
Unseen == {{}} \cup {{Root[v]} : v \in Worker} \cup {Children(d) : d \in Decomposition}

\* The node budget is compared with a count that may be stale by the time the
\* children enter the graph, so searches side by side can exceed it
\* (controller.py:619); but by no more than one decomposition, or root, for each
\* search but one: whatever is there besides fits into the budget.
WithinNodeBudget ==
  [][Present' # Present =>
       \E w \in Worker : \E more \in [Worker \ {w} -> Unseen] :
         Cardinality(Registered' \ UNION {more[v] : v \in Worker \ {w}}) <= MaxNodes]_vars

\* The candidate digests make a search skip failed tactics only: one that goes on
\* to branches and model calls has not passed over a tactic that closed the goal.
OnlyFailedSkipped ==
  \A w \in Worker : At(w, "branches") =>
    \A i \in DOMAIN tactic[Top(w).goal] : tactic[Top(w).goal][i] = "rejected"

\* Every search comes to an end: the depth-first search cannot go round in
\* circles through paused branches, shared goals or refused leases.
SearchEnds == \A w \in Worker : phase[w] = "search" ~> phase[w] \in Ended
=============================================================================
