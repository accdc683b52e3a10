---------------------------- MODULE MCProofGraph ----------------------------
(***************************************************************************)
(* A small proof graph for TLC.                                            *)
(***************************************************************************)
EXTENDS ProofGraph, TLC

CONSTANTS g1, g2, g3

\* No property tells the lease owners apart.
WorkerSymmetry == Permutations(Worker)

Split(p, ks, sp, ct) == [parent |-> p, kids |-> ks, spare |-> sp, cites |-> ct]

\* A goal with two alternatives, one of which cites a proved lemma, a chain of
\* decompositions, and three the graph has to refuse in some states or all: one
\* that closes a cycle, possibly through an anticipatory child, one that repeats
\* a child, one whose child is its parent.
MCDecomposition ==
  {Split(g1, <<g2>>, {g3}, {}), Split(g1, <<g3>>, {}, {g2}), Split(g2, <<g3>>, {}, {}),
   Split(g3, <<g1>>, {}, {}), Split(g2, <<g3, g3>>, {}, {}), Split(g3, <<g3>>, {}, {})}
=============================================================================
