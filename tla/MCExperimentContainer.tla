----------------------- MODULE MCExperimentContainer -----------------------
(***************************************************************************)
(* Two processes and one program for TLC, which may answer differently     *)
(* each time.                                                              *)
(***************************************************************************)
EXTENDS ExperimentContainer

CONSTANTS p1, o1, o2

MayWrite == [p \in Program |-> {o1, o2}]
=============================================================================
