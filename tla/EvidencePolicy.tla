--------------------------- MODULE EvidencePolicy ---------------------------
(***************************************************************************)
(* The deterministic verdict on one evidence receipt (core/policy.py) and  *)
(* the identity under which records count as the same (core/models.py).    *)
(*                                                                         *)
(* A file is named by a path, and its hash is its content: `disk` maps the *)
(* paths that exist to what they hold.  A receipt's references are records *)
(* [path, sha], with the hash the file had when the receipt was made.      *)
(* The flags of a receipt stand for details that must be present.          *)
(***************************************************************************)
EXTENDS FiniteSets, Integers

Refused == "refused"

HashIsCurrent(disk, ref) == ref.path \in DOMAIN disk /\ disk[ref.path] = ref.sha

(***************************************************************************)
(* A quote: the named source must be a current artifact that contains it   *)
(* character by character.  A quote taken as it stands is named by the     *)
(* text it is from; one whose line breaks have been taken out has a name   *)
(* of its own, which no file holds.                                        *)
(***************************************************************************)
QuoteStatus(rcp, disk) ==
  IF /\ rcp.validated
     /\ \E ref \in rcp.refs : ref.sha = rcp.source /\ HashIsCurrent(disk, ref)
                              /\ disk[ref.path] = rcp.quote
  THEN "observed" ELSE Refused

(***************************************************************************)
(* A theorem: every current Lean file the receipt declares is clean.       *)
(***************************************************************************)
LeanStatus(rcp, disk, clean) ==
  LET current == {ref \in rcp.refs : ref.path \in rcp.declared /\ HashIsCurrent(disk, ref)}
  IN IF rcp.accepted /\ rcp.placeholderFree /\ current # {}
        /\ \A ref \in current : disk[ref.path] \in clean
     THEN "verified" ELSE Refused

(***************************************************************************)
(* An execution: a current program and at least two current results, all   *)
(* with the hash the receipt names.                                        *)
(***************************************************************************)
ExecutionStatus(rcp, disk) ==
  LET results == {ref \in rcp.results : HashIsCurrent(disk, ref)}
  IN IF /\ rcp.success /\ rcp.replicated
        /\ \E ref \in rcp.programs : ref.sha = rcp.program /\ HashIsCurrent(disk, ref)
        /\ Cardinality(results) >= 2
        /\ {ref.sha : ref \in results} = {rcp.output}
     THEN "observed" ELSE Refused

(***************************************************************************)
(* External records are the same when their evidence is, whatever their    *)
(* title, summary or parents.                                              *)
(***************************************************************************)
QuoteIdentity(rcp) == <<"quote", rcp.key, rcp.quote, rcp.source>>
LeanIdentity(rcp) == <<"lean", rcp.statement, rcp.environment>>
ExecutionIdentity(rcp) == <<"execution", rcp.program, rcp.output>>
=============================================================================
