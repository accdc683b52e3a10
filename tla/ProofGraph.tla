----------------------------- MODULE ProofGraph -----------------------------
(***************************************************************************)
(* The persistent AND-OR proof graph of LEAP (leap/graph.py).              *)
(*                                                                         *)
(* An OR node is a goal, identified by the fingerprint of its proposition; *)
(* an AND node is a decomposition of a goal into children.  Every mutation *)
(* is one BEGIN IMMEDIATE transaction, hence one action here; a call that  *)
(* raises rolls its transaction back and is no step.  The caller is the    *)
(* most general one: any worker, any call, in any order.                   *)
(*                                                                         *)
(* Left out: the attempts ledger and the proof_runs table (no transaction  *)
(* on nodes reads them), timestamps, artifact paths, and the environment   *)
(* check on children (goals of one environment only).                      *)
(***************************************************************************)
EXTENDS Naturals, Sequences, FiniteSets

CONSTANTS
  Goal,             \* propositions
  Worker,           \* lease owners
  Decomposition,    \* decompositions that may be proposed
  Nobody,           \* no row in node_leases
  Unproved, Direct  \* proof_kind NULL and 'direct'

\* kids are the required children in order, spare the anticipatory ones, and
\* cites the proved goals whose lemmas the parent proof names.
ASSUME DecompositionAssumption ==
  Decomposition \subseteq
    [parent : Goal, kids : Seq(Goal), spare : SUBSET Goal, cites : SUBSET Goal]

ASSUME SentinelAssumption ==
  Nobody \notin Worker /\ Unproved # Direct /\ {Unproved, Direct} \cap Decomposition = {}

VARIABLES
  orStatus,    \* goal -> "absent" or or_nodes.status
  andStatus,   \* decomposition -> "absent" or and_nodes.status
  proof,       \* goal -> the decomposition selected_and_id names, Direct, Unproved
  deps,        \* goal -> its proof_dependencies rows of kind 'or'
  lease,       \* goal -> owner of its node_leases row
  expired      \* goals whose lease is past expires_at

nodes == <<orStatus, andStatus, proof, deps>>
leases == <<lease, expired>>
graph == <<nodes, leases>>

-----------------------------------------------------------------------------
\* Nothing sets the statuses abandoned and rejected.
OrStatus == {"absent", "open", "solving", "proved"}
AndStatus == {"absent", "open", "solving", "paused", "proved"}

Required(d) == {d.kids[i] : i \in DOMAIN d.kids}
Children(d) == Required(d) \cup d.spare

Proved == {g \in Goal : orStatus[g] = "proved"}
Present == {d \in Decomposition : andStatus[d] # "absent"}

\* The goals a proved goal's rendered declaration refers to.
Dependencies(g) ==
  IF proof[g] = Direct THEN deps[g] ELSE proof[g].cites \cup Required(proof[g])

\* Mutant: the cycle search follows required children only.
ClosedRequired(S, D) == \A d \in D : d.parent \in S => Required(d) \subseteq S

\* S contains the children of every decomposition of its members.
ClosedDownward(S, D) == \A d \in D : d.parent \in S => Children(d) \subseteq S

\* The search along the decompositions D from a meets b.
Reachable(D, a, b) ==
  \A S \in SUBSET Goal : a \in S /\ ClosedDownward(S, D) => b \in S

\* In S, every decomposition whose required children are proved has a proved parent.
Settled(S, D) == \A d \in D : Required(d) \subseteq S => d.parent \in S

\* What the rounds of propagation reach: the least settled set above S.
Saturation(S, D) ==
  {g \in Goal : \A T \in SUBSET Goal : S \subseteq T /\ Settled(T, D) => g \in T}

\* Mutant: a paused decomposition is left out of propagation.
PropagateUnpaused(os, as, sel) ==
  LET D == {d \in Decomposition : as[d] \notin {"absent", "paused"}}
      before == {g \in Goal : os[g] = "proved"}
      after == Saturation(before, D)
      complete == {d \in D : Required(d) \subseteq after}
  IN /\ orStatus' = [g \in Goal |-> IF g \in after THEN "proved" ELSE os[g]]
     /\ andStatus' = [d \in Decomposition |-> IF d \in complete THEN "proved" ELSE as[d]]
     /\ \E pick \in [after \ before -> complete] :
          /\ \A g \in after \ before : pick[g].parent = g
          /\ proof' = [g \in Goal |-> IF g \in after \ before THEN pick[g] ELSE sel[g]]

\* The end of a transaction that leaves or_nodes at os, and_nodes at as and the
\* selected proofs at sel: every complete decomposition becomes proved, and a
\* goal it proves selects it (the oldest of several; ages are left out).  The
\* quantifier over one set has TLC compute it once.
Propagate(os, as, sel) ==
  LET D == {d \in Decomposition : as[d] # "absent"}
      before == {g \in Goal : os[g] = "proved"}
  IN \E after \in {Saturation(before, D)} :
       LET complete == {d \in D : Required(d) \subseteq after}
       IN /\ orStatus' = [g \in Goal |-> IF g \in after THEN "proved" ELSE os[g]]
          /\ andStatus' = [d \in Decomposition |-> IF d \in complete THEN "proved" ELSE as[d]]
          /\ \E pick \in [after \ before -> complete] :
               /\ \A g \in after \ before : pick[g].parent = g
               /\ proof' = [g \in Goal |-> IF g \in after \ before THEN pick[g] ELSE sel[g]]

-----------------------------------------------------------------------------
GraphInit ==
  /\ orStatus = [g \in Goal |-> "absent"]
  /\ andStatus = [d \in Decomposition |-> "absent"]
  /\ proof = [g \in Goal |-> Unproved]
  /\ deps = [g \in Goal |-> {}]
  /\ lease = [g \in Goal |-> Nobody]
  /\ expired = {}

RegisterGoal(g) ==
  /\ orStatus[g] = "absent"
  /\ orStatus' = [orStatus EXCEPT ![g] = "open"]
  /\ UNCHANGED <<andStatus, proof, deps, leases>>

\* acquire_lease deletes the expired rows first, whatever it answers.
LiveLease == [g \in Goal |-> IF g \in expired THEN Nobody ELSE lease[g]]

AcquireLease(w, g) ==
  /\ orStatus[g] # "absent"
  /\ LiveLease[g] \in {Nobody, w}
  /\ lease' = [LiveLease EXCEPT ![g] = w]
  /\ expired' = {}
  /\ orStatus' = [orStatus EXCEPT ![g] = IF @ = "open" THEN "solving" ELSE @]
  /\ UNCHANGED <<andStatus, proof, deps>>

RefuseLease(w, g) ==
  /\ LiveLease[g] \notin {Nobody, w}
  /\ lease' = LiveLease
  /\ expired' = {}
  /\ UNCHANGED nodes

\* Mutant: the row is deleted whoever owns it.
ReleaseAny(w, g) ==
  /\ lease' = [lease EXCEPT ![g] = Nobody] /\ expired' = expired \ {g}
  /\ orStatus' = [orStatus EXCEPT ![g] = IF @ = "solving" THEN "open" ELSE @]
  /\ UNCHANGED <<andStatus, proof, deps>>

\* Only w's own row is deleted, but the status is reset whoever holds the lease.
ReleaseLease(w, g) ==
  /\ IF lease[g] = w
       THEN lease' = [lease EXCEPT ![g] = Nobody] /\ expired' = expired \ {g}
       ELSE UNCHANGED leases
  /\ orStatus' = [orStatus EXCEPT ![g] = IF @ = "solving" THEN "open" ELSE @]
  /\ UNCHANGED <<andStatus, proof, deps>>

\* Mutant: expiry is kept by owner instead of by goal.
ExpireOwner(g) ==
  /\ lease[g] # Nobody
  /\ expired' = expired \cup {lease[g]}
  /\ UNCHANGED <<nodes, lease>>

\* Time passes the expires_at of a row.
Expire(g) ==
  /\ lease[g] # Nobody
  /\ expired' = expired \cup {g}
  /\ UNCHANGED <<nodes, lease>>

\* Mutant: the dependencies of a direct proof need only be registered.
CommitDirectUnchecked(g, ds) ==
  /\ orStatus[g] # "absent"
  /\ ds \subseteq {h \in Goal \ {g} : orStatus[h] # "absent"}
  /\ deps' = [deps EXCEPT ![g] = ds]
  /\ Propagate([orStatus EXCEPT ![g] = "proved"], andStatus, [proof EXCEPT ![g] = Direct])
  /\ UNCHANGED leases

\* Mutant: they are checked after the goal has been marked proved.
CommitDirectLateCheck(g, ds) ==
  /\ orStatus[g] # "absent"
  /\ ds \subseteq Proved \cup {g}
  /\ deps' = [deps EXCEPT ![g] = ds]
  /\ Propagate([orStatus EXCEPT ![g] = "proved"], andStatus, [proof EXCEPT ![g] = Direct])
  /\ UNCHANGED leases

\* A verified proof replaces whatever proof the goal had.
CommitDirect(g, ds) ==
  /\ orStatus[g] # "absent"
  /\ ds \subseteq Proved \ {g}
  /\ deps' = [deps EXCEPT ![g] = ds]
  /\ Propagate([orStatus EXCEPT ![g] = "proved"], andStatus, [proof EXCEPT ![g] = Direct])
  /\ UNCHANGED leases

\* commit_decomposition's checks on the children, the parent and the graph.
Acceptable(d) ==
  /\ d.kids # << >>
  /\ \A i, j \in DOMAIN d.kids : d.kids[i] = d.kids[j] => i = j
  /\ Required(d) \cap d.spare = {}
  /\ \A c \in Children(d) : ~Reachable(Present, c, d.parent)
  /\ d.cites \subseteq Proved

CommitDecomposition(d) ==
  /\ orStatus[d.parent] # "absent"
  /\ Acceptable(d)
  /\ LET opened == {c \in Children(d) : orStatus[c] = "absent"}
                     \cup ({d.parent} \ Proved)
     IN Propagate([g \in Goal |-> IF g \in opened THEN "open" ELSE orStatus[g]],
                  [andStatus EXCEPT ![d] = IF @ = "absent" THEN "open" ELSE @],
                  proof)
  /\ UNCHANGED <<deps, leases>>

PauseAnd(d) ==
  /\ d \in Present
  /\ andStatus' = [andStatus EXCEPT ![d] = IF @ = "proved" THEN @ ELSE "paused"]
  /\ UNCHANGED <<orStatus, proof, deps, leases>>

ActivateAnd(d) ==
  /\ d \in Present
  /\ andStatus' = [andStatus EXCEPT ![d] = IF @ \in {"open", "paused"} THEN "solving" ELSE @]
  /\ UNCHANGED <<orStatus, proof, deps, leases>>

PropagateAll ==
  /\ Propagate(orStatus, andStatus, proof)
  /\ UNCHANGED <<deps, leases>>

LeaseStep ==
  \/ \E w \in Worker, g \in Goal :
       AcquireLease(w, g) \/ RefuseLease(w, g) \/ ReleaseLease(w, g)
  \/ \E g \in Goal : Expire(g)

NodeStep ==
  \/ \E g \in Goal : RegisterGoal(g)
  \/ \E g \in Goal, ds \in SUBSET Goal : CommitDirect(g, ds)
  \/ \E d \in Decomposition : CommitDecomposition(d) \/ PauseAnd(d) \/ ActivateAnd(d)
  \/ PropagateAll

GraphNext == LeaseStep \/ NodeStep

GraphSpec == GraphInit /\ [][GraphNext]_graph

-----------------------------------------------------------------------------
(***************************************************************************)
(* Properties                                                              *)
(***************************************************************************)
\* Every variable has its type; an absent goal has no proof, and a selected
\* decomposition is one of the goal's own.
GraphTypeOK ==
  /\ orStatus \in [Goal -> OrStatus]
  /\ andStatus \in [Decomposition -> AndStatus]
  /\ proof \in [Goal -> Decomposition \cup {Unproved, Direct}]
  /\ deps \in [Goal -> SUBSET Goal]
  /\ lease \in [Goal -> Worker \cup {Nobody}]
  /\ expired \subseteq Goal

\* No cycle among goals: every nonempty set of them has a member with no
\* successor in the set.
Founded(next) ==
  \A S \in SUBSET DOMAIN next : S # {} => \E g \in S : next[g] \cap S = {}

\* The decomposition edges, required and anticipatory, whatever the status of
\* the decomposition, have no cycle: the depth-first search along them ends and
\* a goal is never assumed on the way to its own proof.
NoDecompositionCycle ==
  Founded([g \in Goal |-> UNION {Children(d) : d \in {e \in Present : e.parent = g}}])

\* A proved goal has a proof, and every goal its rendered declaration refers to
\* is proved: the materializer never meets an unproved dependency.
ProofsSupported ==
  \A g \in Proved :
    /\ proof[g] = Direct \/ (proof[g] \in Present /\ proof[g].parent = g)
    /\ Dependencies(g) \subseteq Proved

\* Between transactions nothing is left to propagate: a decomposition is marked
\* proved exactly when its required children are, and then its parent is proved
\* too, also when it had been paused.
PropagationComplete ==
  \A d \in Present :
    /\ andStatus[d] = "proved" <=> Required(d) \subseteq Proved
    /\ andStatus[d] = "proved" => d.parent \in Proved

\* The proofs the graph has selected can be put in an order in which each one
\* refers to earlier ones only, as the final module needs.
SelectedFounded == Founded([g \in Proved |-> Dependencies(g)])

\* A goal or a decomposition once proved stays proved, and none is ever deleted,
\* whichever stale worker releases, pauses or commits.
ProvedForever ==
  [][/\ Proved \subseteq Proved'
     /\ Present \subseteq Present'
     /\ \A d \in Present : andStatus[d] = "proved" => andStatus'[d] = "proved"]_graph

\* A lease that is not past its time is never handed to another worker.
NoLeaseStolen ==
  [][\A g \in Goal \ expired :
       lease[g] # Nobody => lease'[g] \in {lease[g], Nobody}]_graph

\* Selected proofs can come to refer to each other in a cycle in one way only: by
\* a direct proof committed over the proof of a goal that was already proved.
\* Propagation and new proofs never close one.
FoundedUnlessReplaced ==
  [][SelectedFounded /\ (\A g \in Proved : proof'[g] = proof[g] /\ deps'[g] = deps[g])
       => SelectedFounded']_graph
=============================================================================
