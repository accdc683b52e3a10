--------------------------- MODULE ResearchKernel ---------------------------
(***************************************************************************)
(* The research kernel (core/kernel.py) over the files of one workspace.   *)
(*                                                                         *)
(* Durable state: the task file the user edits, KernelState.json, the      *)
(* TaskVersions, Actions and Records ledgers and the Subsystems/*.json     *)
(* files.  Every write to one of them is an action of its own, so a crash  *)
(* or an exception can fall between any two of them.  Volatile state: for  *)
(* each process its program counter, its in-memory KernelState and the     *)
(* local variables of the step it is in.                                   *)
(*                                                                         *)
(* Runners are processes that execute ResearchKernel.run under the         *)
(* workspace lock.  Spec is what they do.  StatusSpec adds Viewers, which  *)
(* execute ResearchEngine.status: it initializes a fresh workspace without *)
(* taking the lock.                                                        *)
(*                                                                         *)
(* Left out: the cycle counter, Events.jsonl, ModelCalls.jsonl and the     *)
(* reports (no decision reads them), the contents of run directories, and  *)
(* torn writes.  A record is identified by its position in the ledger.     *)
(***************************************************************************)
EXTENDS Integers, Sequences, FiniteSets

CONSTANTS
  Runners,          \* processes that run the kernel under the lock
  Viewers,          \* processes that ask for status, without the lock
  SubsystemLists,   \* the ordered subsystem selections a process may be given
  ActionId,         \* action identifiers (fresh uuids)
  ActionFp,         \* action fingerprints
  RecordFp,         \* record fingerprints
  Drafts,           \* record drafts a subsystem may return
  MaxDrafts,        \* bound: drafts in one outcome
  Digest,           \* contents of the task file
  MaxSteps,         \* bound: max_steps of one run
  MaxEdits,         \* bound: edits of the task file
  MaxCrashes,       \* bound: processes that die
  MaxRemembered,    \* how many of its actions a subsystem's state keeps
  NoProc, NoAction, NoState

Proc == Runners \cup Viewers
Subsystem == UNION {{subs[i] : i \in DOMAIN subs} : subs \in SubsystemLists}

ASSUME ProcAssumption ==
  /\ Runners \cap Viewers = {}
  /\ NoProc \notin Proc
  /\ NoAction \notin ActionId

\* ResearchKernel.__init__ refuses an empty or repeating subsystem list.
ASSUME SubsystemAssumption ==
  /\ SubsystemLists \subseteq Seq(Subsystem)
  /\ \A subs \in SubsystemLists :
       /\ Len(subs) > 0
       /\ \A i, j \in DOMAIN subs : subs[i] = subs[j] => i = j

ASSUME DraftAssumption ==
  Drafts \subseteq [fp : RecordFp, parents : SUBSET Nat, valid : BOOLEAN]

ASSUME BoundAssumption ==
  MaxDrafts \in Nat /\ MaxSteps \in Nat /\ MaxEdits \in Nat /\ MaxCrashes \in Nat

ASSUME MemoryAssumption == MaxRemembered \in Nat \ {0}

VARIABLES
  task,         \* digest of InitialResearchTask.md
  stateFile,    \* KernelState.json, NoState before the first initialization
  versions,     \* TaskVersions.jsonl
  actions,      \* Actions.jsonl as latest_actions() reads it: id -> last row
  records,      \* Records.jsonl
  actorState,   \* Subsystems/<name>.json: the last of its actions, oldest first
  lock,         \* holder of .research.lock
  pc, mem, job, \* per process: program counter, KernelState, local variables
  edits, crashes

durable == <<stateFile, versions, actions, records, actorState>>
volatile == <<lock, pc, mem, job>>
bounds == <<task, edits, crashes>>
vars == <<durable, volatile, bounds>>

-----------------------------------------------------------------------------
(***************************************************************************)
(* Data                                                                    *)
(***************************************************************************)
Terminal == {"succeeded", "failed", "no_progress", "duplicate", "interrupted"}
Status == {"proposed", "running"} \cup Terminal
Committed == {"succeeded", "no_progress"}
Summary == {"none", "duplicate", "outcome", "before_record", "before_outcome"}

KernelState ==
  [sha : Digest, rev : Nat \ {0}, phase : {"running", "idle"}, next : Nat,
   active : ActionId \cup {NoAction}, idle : Nat, enabled : SubsystemLists]

ActionRow ==
  [fp : ActionFp, status : Status, summary : Summary, admitted : SUBSET Nat]

\* NoState stands for a file that does not exist.
ASSUME StateAssumption == NoState \notin KernelState

Record == [fp : RecordFp, parents : SUBSET Nat, action : ActionId]

\* The local variables of initialize, run and _step.
Job ==
  [subs : SubsystemLists, left : Nat, sub : Subsystem, seen : Seq(ActionId),
   id : ActionId \cup {NoAction},
   drafts : Seq(Drafts), todo : Seq(Drafts), admitted : SUBSET Nat,
   patch : BOOLEAN, error : BOOLEAN]

JobFor(subs, left) ==
  [subs |-> subs, left |-> left, sub |-> subs[1], seen |-> <<>>,
   id |-> NoAction, drafts |-> <<>>, todo |-> <<>>,
   admitted |-> {}, patch |-> FALSE, error |-> FALSE]

BootPc == {"load", "create", "first_version", "revise", "adopt", "recover", "interrupt",
           "clear", "ready"}
TryPc == {"propose", "proposed", "activated", "duplicate", "executing", "screen",
          "append", "patched", "committed", "announce"}
LoopPc == {"loop", "handler", "handled", "stepped", "exit"}
Pc == {"down"} \cup BootPc \cup TryPc \cup LoopPc

\* Mutant: revisions count from zero.
FreshStateFromZero(sha, subs) ==
  [sha |-> sha, rev |-> 0, phase |-> "running", next |-> 0,
   active |-> NoAction, idle |-> 0, enabled |-> subs]

FreshState(sha, subs) ==
  [sha |-> sha, rev |-> 1, phase |-> "running", next |-> 0,
   active |-> NoAction, idle |-> 0, enabled |-> subs]

-----------------------------------------------------------------------------
(***************************************************************************)
(* The ledgers and the lock                                                *)
(***************************************************************************)
Goto(p, to) == pc' = [pc EXCEPT ![p] = to]

\* save_kernel_state: replace the file by s, which the process keeps.
SaveState(p, s) == stateFile' = s /\ mem' = [mem EXCEPT ![p] = s]

\* append_action: the row becomes the latest one of its action.
AppendAction(a, row) ==
  actions' = [b \in DOMAIN actions \cup {a} |-> IF b = a THEN row ELSE actions[b]]

\* Mutant: an action that ended without a record may be repeated.
AlreadySucceeded(fp) ==
  \E a \in DOMAIN actions : actions[a].fp = fp /\ actions[a].status = "succeeded"

AlreadyExecuted(fp) ==
  \E a \in DOMAIN actions : actions[a].fp = fp /\ actions[a].status \in Committed

RecordFps == {records[i].fp : i \in DOMAIN records}

\* End of a process, ordered or not: the lock goes with its file handle.
Leave(p) ==
  /\ Goto(p, "down")
  /\ lock' = IF lock = p THEN NoProc ELSE lock
  /\ mem' = [mem EXCEPT ![p] = NoState]
  /\ job' = [job EXCEPT ![p] = NoState]

Init ==
  /\ task \in Digest
  /\ stateFile = NoState
  /\ versions = <<>>
  /\ actions = [a \in {} |-> NoState]
  /\ records = <<>>
  /\ actorState = [s \in Subsystem |-> <<>>]
  /\ lock = NoProc
  /\ pc = [p \in Proc |-> "down"]
  /\ mem = [p \in Proc |-> NoState]
  /\ job = [p \in Proc |-> NoState]
  /\ edits = 0
  /\ crashes = 0

-----------------------------------------------------------------------------
(***************************************************************************)
(* run and status: start, and ResearchKernel.initialize                    *)
(***************************************************************************)
\* Mutant: run does not look at the lock.
StartRunUnlocked(p) ==
  /\ pc[p] = "down"
  /\ lock' = p
  /\ \E subs \in SubsystemLists, steps \in 0..MaxSteps :
       job' = [job EXCEPT ![p] = JobFor(subs, steps)]
  /\ Goto(p, "load")
  /\ UNCHANGED <<durable, mem, bounds>>

\* run takes the lock or raises at once.
StartRun(p) ==
  /\ pc[p] = "down" /\ lock = NoProc
  /\ lock' = p
  /\ \E subs \in SubsystemLists, steps \in 0..MaxSteps :
       job' = [job EXCEPT ![p] = JobFor(subs, steps)]
  /\ Goto(p, "load")
  /\ UNCHANGED <<durable, mem, bounds>>

\* status initializes a workspace that has no state file, without the lock.
StartStatus(v) ==
  /\ pc[v] = "down" /\ stateFile = NoState
  /\ \E subs \in SubsystemLists : job' = [job EXCEPT ![v] = JobFor(subs, 0)]
  /\ Goto(v, "load")
  /\ UNCHANGED <<durable, lock, mem, bounds>>

\* Mutant: the digest in the state file is not compared with the task.
LoadIgnoringEdits(p) ==
  /\ pc[p] = "load"
  /\ mem' = [mem EXCEPT ![p] = IF stateFile = NoState THEN FreshState(task, job[p].subs)
                               ELSE stateFile]
  /\ Goto(p, IF stateFile = NoState THEN "create" ELSE "adopt")
  /\ UNCHANGED <<durable, lock, job, bounds>>

\* Read the task and the state file; the task may have been edited.
Load(p) ==
  /\ pc[p] = "load"
  /\ \/ /\ stateFile = NoState
        /\ mem' = [mem EXCEPT ![p] = FreshState(task, job[p].subs)]
        /\ Goto(p, "create")
     \/ /\ stateFile # NoState /\ stateFile.sha = task
        /\ mem' = [mem EXCEPT ![p] = stateFile]
        /\ Goto(p, "adopt")
     \/ /\ stateFile # NoState /\ stateFile.sha # task
        /\ mem' = [mem EXCEPT ![p] =
                     [stateFile EXCEPT !.rev = @ + 1, !.sha = task,
                                       !.phase = "running", !.idle = 0]]
        /\ Goto(p, "revise")
  /\ UNCHANGED <<durable, lock, job, bounds>>

\* A fresh state is saved before the ledger row of its revision...
Create(p) ==
  /\ pc[p] = "create"
  /\ SaveState(p, mem[p])
  /\ Goto(p, "first_version")
  /\ UNCHANGED <<versions, actions, records, actorState, lock, job, bounds>>

\* ...and the row of a later revision before the state that counts it.
AppendVersion(p) ==
  /\ pc[p] \in {"first_version", "revise"}
  /\ versions' = Append(versions, [rev |-> mem[p].rev, sha |-> mem[p].sha])
  /\ Goto(p, IF pc[p] = "revise" THEN "adopt" ELSE "recover")
  /\ UNCHANGED <<stateFile, actions, records, actorState, lock, mem, job, bounds>>

\* Adopt the selected subsystems; the cursor must stay within them.
AdoptSubsystems(s, subs) ==
  IF s.enabled = subs THEN s
  ELSE [s EXCEPT !.enabled = subs, !.next = @ % Len(subs)]

Adopt(p) ==
  /\ pc[p] = "adopt"
  /\ SaveState(p, AdoptSubsystems(mem[p], job[p].subs))
  /\ Goto(p, "recover")
  /\ UNCHANGED <<versions, actions, records, actorState, lock, job, bounds>>

\* Mutant: only an action that was not started is interrupted.
RecoverProposed(p) ==
  LET a == mem[p].active
      open == a \in DOMAIN actions /\ actions[a].status = "proposed"
  IN /\ pc[p] = "recover"
     /\ Goto(p, IF a = NoAction THEN "ready" ELSE IF open THEN "interrupt" ELSE "clear")
     /\ UNCHANGED <<durable, lock, mem, job, bounds>>

\* _recover_interrupted: look up the active action...
Recover(p) ==
  LET a == mem[p].active
      open == a \in DOMAIN actions /\ actions[a].status \in {"proposed", "running"}
  IN /\ pc[p] = "recover"
     /\ Goto(p, IF a = NoAction THEN "ready" ELSE IF open THEN "interrupt" ELSE "clear")
     /\ UNCHANGED <<durable, lock, mem, job, bounds>>

\* ...if it has no outcome it is interrupted...
Interrupt(p) ==
  LET a == mem[p].active IN
  /\ pc[p] = "interrupt"
  /\ AppendAction(a, [actions[a] EXCEPT !.status = "interrupted",
                                        !.summary = "before_outcome"])
  /\ Goto(p, "clear")
  /\ UNCHANGED <<stateFile, versions, records, actorState, lock, mem, job, bounds>>

\* ...and the state forgets it.
Clear(p) ==
  /\ pc[p] = "clear"
  /\ SaveState(p, [mem[p] EXCEPT !.active = NoAction, !.phase = "running"])
  /\ Goto(p, "ready")
  /\ UNCHANGED <<versions, actions, records, actorState, lock, job, bounds>>

\* run wakes an idle kernel.
Wake(p) ==
  /\ pc[p] = "ready" /\ p \in Runners
  /\ IF mem[p].phase = "idle"
     THEN SaveState(p, [mem[p] EXCEPT !.phase = "running", !.idle = 0])
     ELSE UNCHANGED <<stateFile, mem>>
  /\ Goto(p, "loop")
  /\ UNCHANGED <<versions, actions, records, actorState, lock, job, bounds>>

\* status reports and ends.
Report(v) ==
  /\ pc[v] = "ready" /\ v \in Viewers
  /\ Leave(v)
  /\ UNCHANGED <<durable, bounds>>

-----------------------------------------------------------------------------
(***************************************************************************)
(* ResearchKernel._step                                                    *)
(***************************************************************************)
\* Mutant: the view does not show what the subsystem wrote before.
OfferTurnBlank(p) ==
  LET n == Len(job[p].subs)
      sub == job[p].subs[(mem[p].next % n) + 1]
  IN /\ pc[p] = "loop" /\ job[p].left > 0
     /\ mem' = [mem EXCEPT ![p].next = (@ + 1) % n]
     /\ job' = [job EXCEPT ![p] = [JobFor(job[p].subs, job[p].left - 1) EXCEPT !.sub = sub]]
     /\ Goto(p, "propose")
     /\ UNCHANGED <<durable, lock, bounds>>

\* Advance the cursor in memory and build the view of the next subsystem.
OfferTurn(p) ==
  LET n == Len(job[p].subs)
      sub == job[p].subs[(mem[p].next % n) + 1]
  IN /\ pc[p] = "loop" /\ job[p].left > 0
     /\ mem' = [mem EXCEPT ![p].next = (@ + 1) % n]
     /\ job' = [job EXCEPT ![p] = [JobFor(job[p].subs, job[p].left - 1) EXCEPT
                                     !.sub = sub, !.seen = actorState[sub]]]
     /\ Goto(p, "propose")
     /\ UNCHANGED <<durable, lock, bounds>>

\* Mutant: the cursor is not saved when a subsystem yields.
YieldUnsaved(p) ==
  /\ pc[p] = "propose"
  /\ mem' = [mem EXCEPT ![p].idle = @ + 1]
  /\ Goto(p, "stepped")
  /\ UNCHANGED <<durable, lock, job, bounds>>

\* propose returned None.
Yield(p) ==
  /\ pc[p] = "propose"
  /\ SaveState(p, [mem[p] EXCEPT !.idle = @ + 1])
  /\ Goto(p, "stepped")
  /\ UNCHANGED <<versions, actions, records, actorState, lock, job, bounds>>

\* propose returned an action, which is persisted before anything is done.
Propose(p) ==
  /\ pc[p] = "propose"
  /\ \E a \in ActionId \ DOMAIN actions, fp \in ActionFp :
       /\ AppendAction(a, [fp |-> fp, status |-> "proposed",
                           summary |-> "none", admitted |-> {}])
       /\ job' = [job EXCEPT ![p].id = a]
  /\ Goto(p, "proposed")
  /\ UNCHANGED <<stateFile, versions, records, actorState, lock, mem, bounds>>

Activate(p) ==
  /\ pc[p] = "proposed"
  /\ SaveState(p, [mem[p] EXCEPT !.active = job[p].id])
  /\ Goto(p, "activated")
  /\ UNCHANGED <<versions, actions, records, actorState, lock, job, bounds>>

\* An identical action was already committed: record that, execute nothing.
SkipDuplicate(p) ==
  LET a == job[p].id IN
  /\ pc[p] = "activated"
  /\ AlreadyExecuted(actions[a].fp)
  /\ AppendAction(a, [actions[a] EXCEPT !.status = "duplicate", !.summary = "duplicate"])
  /\ Goto(p, "duplicate")
  /\ UNCHANGED <<stateFile, versions, records, actorState, lock, mem, job, bounds>>

\* The in-memory state after a step that brought the research no further.
Unproductive(s) == [s EXCEPT !.active = NoAction, !.idle = @ + 1]

SaveDuplicate(p) ==
  /\ pc[p] = "duplicate"
  /\ SaveState(p, Unproductive(mem[p]))
  /\ Goto(p, "stepped")
  /\ UNCHANGED <<versions, actions, records, actorState, lock, job, bounds>>

\* Mutant: an action may begin although it was committed before.
BeginAgain(p) ==
  LET a == job[p].id IN
  /\ pc[p] = "activated"
  /\ AppendAction(a, [actions[a] EXCEPT !.status = "running"])
  /\ Goto(p, "executing")
  /\ UNCHANGED <<stateFile, versions, records, actorState, lock, mem, job, bounds>>

Begin(p) ==
  LET a == job[p].id IN
  /\ pc[p] = "activated"
  /\ ~AlreadyExecuted(actions[a].fp)
  /\ AppendAction(a, [actions[a] EXCEPT !.status = "running"])
  /\ Goto(p, "executing")
  /\ UNCHANGED <<stateFile, versions, records, actorState, lock, mem, job, bounds>>

\* execute returned an outcome: drafts, perhaps a state patch, perhaps an error.
Execute(p) ==
  /\ pc[p] = "executing"
  /\ \E n \in 0..MaxDrafts : \E drafts \in [1..n -> Drafts], patch, error \in BOOLEAN :
       job' = [job EXCEPT ![p].drafts = drafts, ![p].patch = patch, ![p].error = error]
  /\ Goto(p, "screen")
  /\ UNCHANGED <<durable, lock, mem, bounds>>

\* Mutants: a batch is compared with the ledger but not with itself; with itself but not
\* with the ledger; parents are not looked up.
AdmissibleInBatch(d, todo) ==
  d.parents \subseteq DOMAIN records /\ d.fp \notin RecordFps /\ d.valid

AdmissibleInLedger(d, todo) ==
  /\ d.parents \subseteq DOMAIN records
  /\ d.fp \notin {todo[i].fp : i \in DOMAIN todo}
  /\ d.valid

AdmissibleOrphan(d, todo) ==
  d.fp \notin RecordFps \cup {todo[i].fp : i \in DOMAIN todo} /\ d.valid

\* EvidencePolicy.admit, one draft: its parents are known, its fingerprint is
\* neither in the ledger nor in the batch, and its receipt has no defect.
Admissible(d, todo) ==
  /\ d.parents \subseteq DOMAIN records
  /\ d.fp \notin RecordFps \cup {todo[i].fp : i \in DOMAIN todo}
  /\ d.valid

Screen(p) ==
  /\ pc[p] = "screen" /\ job[p].drafts # <<>>
  /\ LET d == Head(job[p].drafts) IN
     job' = [job EXCEPT ![p].drafts = Tail(@),
                        ![p].todo = IF Admissible(d, @) THEN Append(@, d) ELSE @]
  /\ UNCHANGED <<durable, lock, pc, mem, bounds>>

EndScreen(p) ==
  /\ pc[p] = "screen" /\ job[p].drafts = <<>>
  /\ Goto(p, "append")
  /\ UNCHANGED <<durable, lock, mem, job, bounds>>

\* Mutant: only the last record of the batch is remembered.
AppendRecordLast(p) ==
  /\ pc[p] = "append" /\ job[p].todo # <<>>
  /\ LET d == Head(job[p].todo) IN
     records' = Append(records, [fp |-> d.fp, parents |-> d.parents, action |-> job[p].id])
  /\ job' = [job EXCEPT ![p].todo = Tail(@), ![p].admitted = {Len(records) + 1}]
  /\ UNCHANGED <<stateFile, versions, actions, actorState, lock, pc, mem, bounds>>

\* append_records writes one record at a time.
AppendRecord(p) ==
  /\ pc[p] = "append" /\ job[p].todo # <<>>
  /\ LET d == Head(job[p].todo) IN
     records' = Append(records, [fp |-> d.fp, parents |-> d.parents, action |-> job[p].id])
  /\ job' = [job EXCEPT ![p].todo = Tail(@), ![p].admitted = @ \cup {Len(records) + 1}]
  /\ UNCHANGED <<stateFile, versions, actions, actorState, lock, pc, mem, bounds>>

\* The end of a list of actions: each subsystem keeps a number of its own.
Recent(list) ==
  SubSeq(list, IF Len(list) > MaxRemembered THEN Len(list) - MaxRemembered + 1 ELSE 1, Len(list))

\* A patch repeats what the view showed of the subsystem's state and adds this action; the
\* list it replaces is the one in the file by now.
SaveActor(p) ==
  LET j == job[p] IN
  /\ pc[p] = "append" /\ j.todo = <<>>
  /\ actorState' = IF j.patch
                   THEN [actorState EXCEPT ![j.sub] = Recent(Append(j.seen, j.id))]
                   ELSE actorState
  /\ Goto(p, "patched")
  /\ UNCHANGED <<stateFile, versions, actions, records, lock, mem, job, bounds>>

OutcomeStatus(j) ==
  IF j.error THEN "failed" ELSE IF j.admitted # {} THEN "succeeded" ELSE "no_progress"

CommitAction(p) ==
  LET j == job[p] IN
  /\ pc[p] = "patched"
  /\ AppendAction(j.id, [actions[j.id] EXCEPT !.status = OutcomeStatus(j),
                           !.summary = "outcome", !.admitted = j.admitted])
  /\ Goto(p, "committed")
  /\ UNCHANGED <<stateFile, versions, records, actorState, lock, mem, job, bounds>>

AfterCommit(s, j) ==
  [s EXCEPT !.active = NoAction, !.idle = IF j.admitted # {} THEN 0 ELSE @ + 1]

SaveCommit(p) ==
  /\ pc[p] = "committed"
  /\ SaveState(p, AfterCommit(mem[p], job[p]))
  /\ Goto(p, "announce")
  /\ UNCHANGED <<versions, actions, records, actorState, lock, job, bounds>>

\* Back in run: stop when as many steps in a row were idle as there are subsystems.
EndStep(p) ==
  /\ pc[p] \in {"stepped", "announce"}
  /\ IF mem[p].idle >= Len(job[p].subs)
     THEN /\ SaveState(p, [mem[p] EXCEPT !.phase = "idle"])
          /\ Goto(p, "exit")
     ELSE /\ Goto(p, "loop")
          /\ UNCHANGED <<stateFile, mem>>
  /\ job' = [job EXCEPT ![p] = JobFor(job[p].subs, job[p].left)]
  /\ UNCHANGED <<versions, actions, records, actorState, lock, bounds>>

EndRun(p) ==
  /\ pc[p] = "exit" \/ (pc[p] = "loop" /\ job[p].left = 0)
  /\ Leave(p)
  /\ UNCHANGED <<durable, bounds>>

-----------------------------------------------------------------------------
(***************************************************************************)
(* Exceptions inside _step, crashes, the user                              *)
(***************************************************************************)
\* What the in-memory state can be when a statement of the try block raises:
\* fields assigned before the raising write keep their new values.
StateWhenRaised(p) ==
  LET s == mem[p] IN
  CASE pc[p] = "propose" -> {s, [s EXCEPT !.idle = @ + 1]}
    [] pc[p] = "proposed" -> {[s EXCEPT !.active = job[p].id]}
    [] pc[p] = "duplicate" -> {Unproductive(s)}
    [] pc[p] = "committed" -> {AfterCommit(s, job[p])}
    [] OTHER -> {s}

Raise(p) ==
  /\ pc[p] \in TryPc
  /\ \E s \in StateWhenRaised(p) : mem' = [mem EXCEPT ![p] = s]
  /\ Goto(p, "handler")
  /\ UNCHANGED <<durable, lock, job, bounds>>

\* The handler fails the active action, if there is one...
FailAction(p) ==
  LET a == mem[p].active IN
  /\ pc[p] = "handler"
  /\ IF a \in DOMAIN actions
     THEN AppendAction(a, [actions[a] EXCEPT !.status = "failed", !.summary = "before_record"])
     ELSE UNCHANGED actions
  /\ Goto(p, "handled")
  /\ UNCHANGED <<stateFile, versions, records, actorState, lock, mem, job, bounds>>

\* Mutant: a failed step is taken again within the same opportunity.
SaveFailureAndRetry(p) ==
  /\ pc[p] = "handled"
  /\ SaveState(p, [mem[p] EXCEPT !.active = NoAction])
  /\ Goto(p, "propose")
  /\ UNCHANGED <<versions, actions, records, actorState, lock, job, bounds>>

\* ...and counts the step as idle.
SaveFailure(p) ==
  /\ pc[p] = "handled"
  /\ SaveState(p, Unproductive(mem[p]))
  /\ Goto(p, "stepped")
  /\ UNCHANGED <<versions, actions, records, actorState, lock, job, bounds>>

\* The process is killed, or an exception leaves run.
Crash(p) ==
  /\ pc[p] # "down" /\ crashes < MaxCrashes
  /\ crashes' = crashes + 1
  /\ Leave(p)
  /\ UNCHANGED <<durable, task, edits>>

EditTask ==
  /\ edits < MaxEdits
  /\ \E text \in Digest \ {task} : task' = text
  /\ edits' = edits + 1
  /\ UNCHANGED <<durable, volatile, crashes>>

Initialize(p) ==
  \/ Load(p) \/ Create(p) \/ AppendVersion(p) \/ Adopt(p) \/ Recover(p) \/ Interrupt(p)
  \/ Clear(p) \/ Wake(p)

Step(p) ==
  \/ OfferTurn(p) \/ Yield(p) \/ Propose(p) \/ Activate(p)
  \/ SkipDuplicate(p) \/ SaveDuplicate(p) \/ Begin(p) \/ Execute(p)
  \/ Screen(p) \/ EndScreen(p) \/ AppendRecord(p) \/ SaveActor(p)
  \/ CommitAction(p) \/ SaveCommit(p) \/ EndStep(p) \/ EndRun(p)

Handle(p) == Raise(p) \/ FailAction(p) \/ SaveFailure(p)

Next ==
  \/ \E p \in Runners : StartRun(p) \/ Initialize(p) \/ Step(p) \/ Handle(p) \/ Crash(p)
  \/ EditTask

Spec == Init /\ [][Next]_vars

\* Runs of the kernel beside status commands.
StatusNext ==
  \/ Next
  \/ \E v \in Viewers : StartStatus(v) \/ Initialize(v) \/ Report(v) \/ Crash(v)

StatusSpec == Init /\ [][StatusNext]_vars

\* A process keeps executing its statements (subsystems and model calls time out), and a
\* user who finds no run active sooner or later starts one.
Fairness ==
  /\ \A p \in Runners : WF_vars(Initialize(p) \/ Step(p) \/ Handle(p))
  /\ \A p \in Runners : WF_vars(StartRun(p))

FairSpec == Spec /\ Fairness

-----------------------------------------------------------------------------
(***************************************************************************)
(* Properties                                                              *)
(***************************************************************************)
TypeOK ==
  /\ task \in Digest
  /\ stateFile \in KernelState \cup {NoState}
  /\ versions \in Seq([rev : Nat, sha : Digest])
  /\ DOMAIN actions \subseteq ActionId
  /\ \A a \in DOMAIN actions : actions[a] \in ActionRow
  /\ records \in Seq(Record)
  /\ actorState \in [Subsystem -> Seq(ActionId)]
  /\ lock \in Runners \cup {NoProc}
  /\ pc \in [Proc -> Pc]
  /\ mem \in [Proc -> KernelState \cup {NoState}]
  /\ job \in [Proc -> Job \cup {NoState}]
  /\ edits \in Nat /\ crashes \in Nat

\* Identical work is committed at most once, whatever crashes, failures and retries lie
\* between two proposals of it ("Identical committed action fingerprints are not
\* re-executed", ARCHITECTURE.md).
CommittedOnce ==
  \A a, b \in DOMAIN actions :
    (actions[a].status \in Committed /\ actions[b].status \in Committed
      /\ actions[a].fp = actions[b].fp) => a = b

\* The memory holds no record twice, even when an interrupted or failed action that had
\* already appended part of its batch is executed again.
RecordsUnique ==
  \A i, j \in DOMAIN records : records[i].fp = records[j].fp => i = j

\* A record builds only on records that were in the ledger before it.
ParentsEarlier ==
  \A i \in DOMAIN records : \A k \in records[i].parents : k \in 1..(i - 1)

\* Every record belongs to an action that was executed: one that is only proposed, that
\* duplicates another or that made no progress has left nothing behind.
RecordsOwned ==
  \A i \in DOMAIN records :
    LET a == records[i].action IN
    /\ a \in DOMAIN actions
    /\ actions[a].status \in {"running", "succeeded", "failed", "interrupted"}

\* The row of an outcome names exactly the records of its action, so the two ledgers agree.
OutcomeNamesRecords ==
  \A a \in DOMAIN actions :
    actions[a].summary = "outcome" =>
      actions[a].admitted = {i \in DOMAIN records : records[i].action = a}

\* An action with side effects is always the one KernelState.json calls active: after a
\* crash at any point, recovery finds it.
RunningIsActive ==
  \A a \in DOMAIN actions :
    actions[a].status = "running" => stateFile # NoState /\ stateFile.active = a

\* Between two steps of a run the state file is the state in memory: a crash there loses
\* neither the scheduling cursor nor the idle count.
CursorDurable ==
  \A p \in Runners : pc[p] = "loop" => stateFile = mem[p]

\* An action that has ended stays as it ended.
TerminalForever ==
  [][\A a \in DOMAIN actions :
       actions[a].status \in Terminal =>
         a \in DOMAIN actions' /\ actions'[a] = actions[a]]_vars

\* An action is called interrupted only when no process is executing it ("If the process
\* dies, the active action is marked `interrupted` on restart", ARCHITECTURE.md).
Executing(a) == \E p \in Proc : pc[p] \in TryPc /\ job[p].id = a
OnlyDeadInterrupted ==
  [][\A a \in DOMAIN actions :
       (actions[a].status # "interrupted" /\ actions'[a].status = "interrupted")
         => ~Executing(a)]_vars

\* No update of a subsystem's own state is lost: what it writes is the end of the list that
\* is in the file by then with one more action, although it was computed from a view read
\* before the action was even proposed (kernel.py:191, core/context.py).
NoLostUpdate ==
  [][\A s \in Subsystem :
       actorState'[s] # actorState[s] =>
         \E a \in ActionId : actorState'[s] = Recent(Append(actorState[s], a))]_vars

\* A run ends: by its steps, by idleness or by a crash.
RunEnds == \A p \in Runners : pc[p] # "down" ~> pc[p] = "down"

\* An action with side effects gets an outcome, if necessary from a later run.
RunningSettles ==
  \A a \in ActionId :
    (a \in DOMAIN actions /\ actions[a].status = "running")
      ~> (a \in DOMAIN actions /\ actions[a].status \in Terminal)

\* An edit of the task is noticed by a later run even if crashes interrupt its revision.
EditNoticed ==
  \A d \in Digest :
    task = d ~> (task # d \/ (stateFile # NoState /\ stateFile.sha = d))

\* The kernel implements the journal.
WithStatus(statuses) == {a \in DOMAIN actions : actions[a].status \in statuses}

Journal == INSTANCE ResearchJournal WITH
  entries <- records,
  work <- [a \in DOMAIN actions |-> actions[a].fp],
  open <- WithStatus({"running"}),
  committed <- WithStatus(Committed),
  dropped <- WithStatus(Terminal \ Committed)

JournalSpec == Journal!JSpec
=============================================================================
