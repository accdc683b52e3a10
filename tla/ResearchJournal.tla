--------------------------- MODULE ResearchJournal ---------------------------
(***************************************************************************)
(* What the kernel promises of a workspace, without processes, locks,      *)
(* program counters or state files: a journal of records that only grows,  *)
(* filled by actions that are declared first, of which one at a time is    *)
(* under way, each of which ends once, and no two of which are committed   *)
(* for the same work.                                                      *)
(***************************************************************************)
EXTENDS Integers, Sequences

CONSTANTS ActionId, ActionFp, RecordFp

VARIABLES
  entries,    \* the records, in the order they were admitted
  work,       \* the work (fingerprint) of every action declared so far
  open,       \* the actions under way
  committed,  \* the actions with an outcome
  dropped     \* the actions that failed, were interrupted or repeat another

jvars == <<entries, work, open, committed, dropped>>

Ended == committed \cup dropped

JInit ==
  /\ entries = <<>>
  /\ work = [a \in {} |-> {}]
  /\ open = {} /\ committed = {} /\ dropped = {}

Declare(a, fp) ==
  /\ a \notin DOMAIN work
  /\ work' = [b \in DOMAIN work \cup {a} |-> IF b = a THEN fp ELSE work[b]]
  /\ UNCHANGED <<entries, open, committed, dropped>>

\* Start a declared action whose work is not committed, while no other is under way.
Start(a) ==
  /\ open = {} /\ a \in DOMAIN work \ Ended
  /\ \A b \in committed : work[b] # work[a]
  /\ open' = {a}
  /\ UNCHANGED <<entries, work, committed, dropped>>

\* Admit a new record that builds on earlier ones.
Admit(a, fp, parents) ==
  /\ a \in open
  /\ \A i \in DOMAIN entries : entries[i].fp # fp
  /\ parents \subseteq DOMAIN entries
  /\ entries' = Append(entries, [fp |-> fp, parents |-> parents, action |-> a])
  /\ UNCHANGED <<work, open, committed, dropped>>

Commit(a) ==
  /\ a \in open
  /\ open' = {}
  /\ committed' = committed \cup {a}
  /\ UNCHANGED <<entries, work, dropped>>

\* An action may be given up under way or before it starts.
Drop(a) ==
  /\ a \in DOMAIN work \ Ended
  /\ open' = open \ {a}
  /\ dropped' = dropped \cup {a}
  /\ UNCHANGED <<entries, work, committed>>

JNext ==
  \E a \in ActionId :
    \/ \E fp \in ActionFp : Declare(a, fp)
    \/ Start(a)
    \/ \E fp \in RecordFp, parents \in SUBSET DOMAIN entries : Admit(a, fp, parents)
    \/ Commit(a)
    \/ Drop(a)

JSpec == JInit /\ [][JNext]_jvars
=============================================================================
