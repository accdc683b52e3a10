---------------------- MODULE ResearchKernelInvariant ----------------------
(***************************************************************************)
(* Why the kernel is safe: what the files and the memory of the process    *)
(* that holds the lock say of each other at every program counter.  It is  *)
(* an invariant of Spec, of runs that initialize the workspace under the   *)
(* lock; StatusSpec breaks LockInv.                                        *)
(***************************************************************************)
EXTENDS ResearchKernel

\* Whoever is running holds the lock.
LockInv == \A p \in Proc : pc[p] # "down" => lock = p

Idling == {"ready", "loop", "propose", "proposed", "stepped", "announce", "exit"}
Running == {"executing", "screen", "append", "patched"}

\* Between two actions neither the state file nor the process has an active action;
\* during one both name it; while the handler runs, what is in memory may be ahead of
\* the file, but an action under way is still the one in memory.
Phase(p) ==
  LET s == mem[p]
      i == job[p].id
  IN /\ pc[p] = "create" => stateFile = NoState /\ s.active = NoAction
     /\ pc[p] \in {"revise", "adopt"} => stateFile # NoState /\ stateFile.active = s.active
     /\ pc[p] \in {"first_version", "recover", "interrupt", "clear"} => stateFile = s
     /\ pc[p] = "interrupt" => actions[s.active].status \in {"proposed", "running"}
     /\ pc[p] = "clear" => s.active \in DOMAIN actions /\ actions[s.active].status \in Terminal
     /\ pc[p] \in Idling =>
          stateFile # NoState /\ stateFile.active = NoAction /\ s.active = NoAction
     /\ pc[p] \in {"activated", "duplicate", "committed"} \cup Running =>
          stateFile # NoState /\ stateFile.active = i /\ s.active = i
     /\ pc[p] \in {"proposed", "activated"} => actions[i].status = "proposed"
     /\ pc[p] \in Running => actions[i].status = "running"
     /\ pc[p] \in {"duplicate", "committed"} => actions[i].status \in Terminal
     /\ pc[p] = "handler" =>
          /\ stateFile # NoState
          /\ s.active # NoAction =>
               /\ s.active \in DOMAIN actions
               /\ actions[s.active].status \in {"proposed", "running"}
          /\ \A b \in DOMAIN actions : actions[b].status = "running" => b = s.active
     /\ pc[p] = "handled" =>
          /\ stateFile # NoState
          /\ \A b \in DOMAIN actions : actions[b].status # "running"

RecordsOf(a) == {k \in DOMAIN records : records[k].action = a}

\* The batch under way: what is still to be appended is new, distinct and well founded,
\* and what was appended is what the outcome will name.
Batch(p) ==
  LET todo == job[p].todo IN
  /\ pc[p] \in Running =>
       /\ ~AlreadyExecuted(actions[job[p].id].fp)
       /\ job[p].admitted = RecordsOf(job[p].id)
  /\ pc[p] = "executing" => todo = <<>>
  /\ pc[p] \in {"screen", "append"} =>
       /\ \A m, n \in DOMAIN todo : todo[m].fp = todo[n].fp => m = n
       /\ \A m \in DOMAIN todo :
            todo[m].fp \notin RecordFps /\ todo[m].parents \subseteq DOMAIN records
  /\ pc[p] \in {"proposed", "activated"} => job[p].todo = <<>> /\ job[p].admitted = {}
  /\ pc[p] \in {"propose"} => job[p].todo = <<>> /\ job[p].admitted = {}

\* The active action is in the ledger.
ActiveKnown ==
  stateFile # NoState => stateFile.active \in DOMAIN actions \cup {NoAction}

\* An action without an end has no verdict yet.
OpenUndecided ==
  \A a \in DOMAIN actions :
    actions[a].status \in {"proposed", "running"} => actions[a].summary = "none"

LedgerInv ==
  /\ CommittedOnce /\ RecordsUnique /\ ParentsEarlier /\ RecordsOwned
  /\ OutcomeNamesRecords /\ OpenUndecided

\* The inductive invariant: each process agrees with the files, and the ledgers with each
\* other.
KernelInv ==
  /\ LockInv
  /\ ActiveKnown /\ RunningIsActive
  /\ LedgerInv
  /\ \A p \in Proc : Phase(p) /\ Batch(p)
=============================================================================
