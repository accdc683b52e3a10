--------------------------- MODULE MCProofAttempt ---------------------------
(***************************************************************************)
(* One tactic and one body of every kind for TLC.                          *)
(***************************************************************************)
EXTENDS ProofAttempt

CONSTANTS good, wrong, sorry, veiled, plan

OneTactic == <<wrong>>
=============================================================================
