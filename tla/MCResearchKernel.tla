-------------------------- MODULE MCResearchKernel --------------------------
(***************************************************************************)
(* Small instances of ResearchKernel for TLC.                              *)
(***************************************************************************)
EXTENDS ResearchKernelInvariant, TLC

CONSTANTS r1, r2, v1, a1, a2, a3, w1, w2, f1, f2, s1, s2

\* One selection of two subsystems and one of a single subsystem: changing between them
\* between runs exercises the cursor's modulus.
MCTwoLists == {<<s1, s2>>, <<s2>>}
MCOneList == {<<s1, s2>>}

\* Records that build on nothing, so that a batch of two can be admitted, and one that
\* builds on the first record of the ledger, unknown while the ledger is empty.
MCDrafts ==
  {[fp |-> f1, parents |-> {}, valid |-> TRUE],
   [fp |-> f2, parents |-> {}, valid |-> TRUE],
   [fp |-> f2, parents |-> {1}, valid |-> TRUE]}

\* A single subsystem, where every idle step ends the run.
MCSolo == {<<s1>>}

Symmetry == Permutations({r1, r2}) \cup Permutations({a1, a2, a3})
=============================================================================
