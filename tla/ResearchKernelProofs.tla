------------------------ MODULE ResearchKernelProofs ------------------------
(***************************************************************************)
(* Proofs about ResearchKernel, for every value of its constants.          *)
(***************************************************************************)
EXTENDS ResearchKernelInvariant, TLAPS, SequenceTheorems

USE DEF Proc

-----------------------------------------------------------------------------
(***************************************************************************)
(* Type correctness                                                        *)
(***************************************************************************)
\* What a process holds in memory is well typed and exists where it is used.
ProcOK(p) ==
  /\ pc[p] \in Pc
  /\ mem[p] \in KernelState \cup {NoState}
  /\ job[p] \in Job \cup {NoState}
  /\ pc[p] # "down" => job[p] \in Job
  /\ pc[p] \notin {"down", "load"} => mem[p] \in KernelState
  /\ pc[p] = "interrupt" => mem[p].active \in DOMAIN actions
  /\ pc[p] \in TryPc \ {"propose"} => job[p].id \in DOMAIN actions

ActionsOK == DOMAIN actions \subseteq ActionId /\ \A a \in DOMAIN actions : actions[a] \in ActionRow

FilesOK ==
  /\ task \in Digest
  /\ stateFile \in KernelState \cup {NoState}
  /\ versions \in Seq([rev : Nat, sha : Digest])
  /\ ActionsOK
  /\ records \in Seq(Record)
  /\ actorState \in [Subsystem -> Seq(ActionId)]
  /\ lock \in Runners \cup {NoProc}
  /\ edits \in Nat /\ crashes \in Nat

Locals ==
  /\ pc = [p \in Proc |-> pc[p]]
  /\ mem = [p \in Proc |-> mem[p]]
  /\ job = [p \in Proc |-> job[p]]

TypeInv == FilesOK /\ Locals /\ \A p \in Proc : ProcOK(p)

\* A step of p leaves the other processes' memory alone.
Moves(p) ==
  /\ pc' = [pc EXCEPT ![p] = pc'[p]]
  /\ mem' = [mem EXCEPT ![p] = mem'[p]]
  /\ job' = [job EXCEPT ![p] = job'[p]]

LEMMA TypeInvType == TypeInv => TypeOK
BY DEF TypeInv, TypeOK, FilesOK, ActionsOK, Locals, ProcOK

\* It is enough to look at the files and at the process that moved.
LEMMA Frame ==
  ASSUME TypeInv, NEW p \in Proc, Moves(p), ProcOK(p)', FilesOK',
         DOMAIN actions \subseteq DOMAIN actions'
  PROVE  TypeInv'
<1>1. Locals'
  BY DEF TypeInv, Locals, Moves
<1>2. ASSUME NEW q \in Proc, q # p PROVE ProcOK(q)'
  <2>1. pc'[q] = pc[q] /\ mem'[q] = mem[q] /\ job'[q] = job[q]
    BY <1>2 DEF TypeInv, Locals, Moves
  <2>2. ProcOK(q)
    BY DEF TypeInv
  <2>3. QED
    BY <2>1, <2>2 DEF ProcOK
<1>3. QED
  BY <1>1, <1>2 DEF TypeInv

\* The elements of a selection are subsystems, and the cursor finds one.
LEMMA SelectionElement ==
  ASSUME NEW subs \in SubsystemLists
  PROVE  /\ subs \in Seq(Subsystem)
         /\ Len(subs) \in Nat /\ Len(subs) > 0
         /\ \A i \in 1..Len(subs) : subs[i] \in Subsystem
         /\ \A n \in Nat : n % Len(subs) \in Nat /\ subs[(n % Len(subs)) + 1] \in Subsystem
<1>1. subs \in Seq(Subsystem) /\ Len(subs) > 0
  BY SubsystemAssumption
<1>2. Len(subs) \in Nat /\ \A i \in 1..Len(subs) : subs[i] \in Subsystem
  BY <1>1
<1>3. ASSUME NEW n \in Nat
      PROVE  n % Len(subs) \in Nat /\ (n % Len(subs)) + 1 \in 1..Len(subs)
  BY <1>1, <1>2
<1>4. QED
  BY <1>1, <1>2, <1>3

\* A job starts well typed.
LEMMA JobForType ==
  ASSUME NEW subs \in SubsystemLists, NEW left \in Nat
  PROVE  JobFor(subs, left) \in Job
<1>1. subs[1] \in Subsystem
  BY SelectionElement
<1>2. <<>> \in Seq(Drafts) /\ <<>> \in Seq(ActionId)
  OBVIOUS
<1>3. QED
  BY <1>1, <1>2 DEF JobFor, Job

\* The end of a list is a list of the same elements.
LEMMA RecentType ==
  ASSUME NEW list \in Seq(ActionId)
  PROVE  Recent(list) \in Seq(ActionId)
<1> DEFINE from == IF Len(list) > MaxRemembered THEN Len(list) - MaxRemembered + 1 ELSE 1
<1>1. Len(list) \in Nat /\ MaxRemembered \in Nat /\ MaxRemembered > 0
  BY MemoryAssumption
<1>2. from \in 1..(Len(list) + 1)
  BY <1>1
<1>3. \A i \in from..Len(list) : list[i] \in ActionId
  BY <1>1, <1>2
<1>4. QED
  BY <1>1, <1>2, <1>3 DEF Recent

\* Appending a row keeps the action ledger well typed and loses no action.
LEMMA AppendActionType ==
  ASSUME NEW a \in ActionId, NEW row \in ActionRow, ActionsOK, AppendAction(a, row)
  PROVE  /\ DOMAIN actions' = DOMAIN actions \cup {a}
         /\ ActionsOK'
         /\ actions'[a] = row
         /\ \A b \in DOMAIN actions : b # a => actions'[b] = actions[b]
BY DEF AppendAction, ActionsOK

\* A row keeps its type when its status, its summary or both are replaced.
LEMMA RowUpdate ==
  ASSUME NEW r \in ActionRow, NEW st \in Status, NEW su \in Summary
  PROVE  /\ [r EXCEPT !.status = st] \in ActionRow
         /\ [r EXCEPT !.status = st, !.summary = su] \in ActionRow
BY DEF ActionRow

\* The updates the kernel makes of its state and of its local variables.
LEMMA StateUpdate ==
  ASSUME NEW s \in KernelState
  PROVE  /\ [s EXCEPT !.idle = @ + 1] \in KernelState
         /\ Unproductive(s) \in KernelState
         /\ [s EXCEPT !.phase = "idle"] \in KernelState
         /\ [s EXCEPT !.phase = "running", !.idle = 0] \in KernelState
         /\ [s EXCEPT !.active = NoAction, !.phase = "running"] \in KernelState
         /\ \A n \in Nat : [s EXCEPT !.next = n] \in KernelState
         /\ \A a \in ActionId : [s EXCEPT !.active = a] \in KernelState
         /\ \A j \in Job : AfterCommit(s, j) \in KernelState
         /\ \A d \in Digest : [s EXCEPT !.rev = @ + 1, !.sha = d, !.phase = "running",
                                        !.idle = 0] \in KernelState
         /\ \A subs \in SubsystemLists : AdoptSubsystems(s, subs) \in KernelState
<1>1. s.idle \in Nat /\ s.rev \in Nat /\ s.next \in Nat
  BY DEF KernelState
<1>2. \A n \in Nat, subs \in SubsystemLists : n % Len(subs) \in Nat
  BY SelectionElement
<1>3. \A subs \in SubsystemLists : AdoptSubsystems(s, subs) \in KernelState
  BY <1>1, <1>2 DEF KernelState, AdoptSubsystems
<1>4. \A n \in Nat : /\ [s EXCEPT !.active = NoAction, !.idle = n] \in KernelState
                     /\ [s EXCEPT !.idle = n] \in KernelState
  BY DEF KernelState
<1>5. \A j \in Job : AfterCommit(s, j) \in KernelState
  <2> SUFFICES ASSUME NEW j \in Job PROVE AfterCommit(s, j) \in KernelState
    OBVIOUS
  <2>1. (IF j.admitted # {} THEN 0 ELSE s.idle + 1) \in Nat
    BY <1>1
  <2>2. QED
    BY <2>1, <1>4 DEF AfterCommit
<1>6. Unproductive(s) \in KernelState /\ [s EXCEPT !.idle = @ + 1] \in KernelState
  <2>1. s.idle + 1 \in Nat
    BY <1>1
  <2>2. QED
    BY <2>1, <1>4 DEF Unproductive
<1>7. /\ [s EXCEPT !.phase = "idle"] \in KernelState
      /\ [s EXCEPT !.phase = "running", !.idle = 0] \in KernelState
      /\ [s EXCEPT !.active = NoAction, !.phase = "running"] \in KernelState
      /\ \A n \in Nat : [s EXCEPT !.next = n] \in KernelState
      /\ \A a \in ActionId : [s EXCEPT !.active = a] \in KernelState
  BY DEF KernelState
<1>8. \A d \in Digest : [s EXCEPT !.rev = @ + 1, !.sha = d, !.phase = "running",
                                !.idle = 0] \in KernelState
  <2>1. s.rev + 1 \in Nat \ {0}
    BY DEF KernelState
  <2>2. \A r \in Nat \ {0}, d \in Digest :
          [s EXCEPT !.rev = r, !.sha = d, !.phase = "running", !.idle = 0] \in KernelState
    BY DEF KernelState
  <2>3. QED
    BY <2>1, <2>2
<1>9. QED
  BY <1>3, <1>5, <1>6, <1>7, <1>8

\* No action changes the memory of another process.
LEMMA StepMoves ==
  ASSUME Locals, NEW p \in Proc,
         \/ StartRun(p) \/ StartStatus(p) \/ Report(p) \/ Crash(p)
         \/ Initialize(p) \/ Step(p) \/ Handle(p)
  PROVE  Moves(p)
<1> USE DEF Locals, Moves, Goto, SaveState
<1>1. StartRun(p) \/ StartStatus(p) \/ Report(p) \/ Crash(p) => Moves(p)
  BY DEF StartRun, StartStatus, Report, Crash, Leave
<1>2. Load(p) \/ Create(p) \/ AppendVersion(p) \/ Adopt(p) => Moves(p)
  BY DEF Load, Create, AppendVersion, Adopt
<1>3. Recover(p) \/ Interrupt(p) \/ Clear(p) \/ Wake(p) => Moves(p)
  BY DEF Recover, Interrupt, Clear, Wake
<1>4. OfferTurn(p) \/ Yield(p) \/ Propose(p) \/ Activate(p) => Moves(p)
  BY DEF OfferTurn, Yield, Propose, Activate
<1>5. SkipDuplicate(p) \/ SaveDuplicate(p) \/ Begin(p) \/ Execute(p) => Moves(p)
  BY DEF SkipDuplicate, SaveDuplicate, Begin, Execute
<1>6. Screen(p) \/ EndScreen(p) \/ AppendRecord(p) \/ SaveActor(p) => Moves(p)
  BY DEF Screen, EndScreen, AppendRecord, SaveActor
<1>7. CommitAction(p) \/ SaveCommit(p) \/ EndStep(p) \/ EndRun(p) => Moves(p)
  BY DEF CommitAction, SaveCommit, EndStep, EndRun, Leave
<1>8. Handle(p) => Moves(p)
  BY DEF Handle, Raise, FailAction, SaveFailure
<1>9. QED
  BY <1>1, <1>2, <1>3, <1>4, <1>5, <1>6, <1>7, <1>8 DEF Initialize, Step

\* Every step preserves the types, those of status commands included.
LEMMA TypeInvStatus == TypeInv /\ [StatusNext]_vars => TypeInv'
<1> SUFFICES ASSUME TypeInv, [StatusNext]_vars PROVE TypeInv'
  OBVIOUS
<1> USE DEF TypeInv, FilesOK, Goto, SaveState, durable, bounds
<1>1. ASSUME NEW p \in Runners, StartRun(p) PROVE TypeInv'
  <2>1. job'[p] \in Job
    <3>1. PICK subs \in SubsystemLists, left \in Nat : job' = [job EXCEPT ![p] = JobFor(subs, left)]
      <4>1. 0..MaxSteps \subseteq Nat
        BY BoundAssumption
      <4>2. QED
        BY <1>1, <4>1 DEF StartRun
    <3>2. QED
      BY <3>1, JobForType DEF Locals
  <2>2. Moves(p)
    BY <1>1, StepMoves
  <2>3. pc'[p] = "load" /\ mem'[p] = mem[p] /\ actions' = actions
    BY <1>1 DEF StartRun, Locals
  <2>4. FilesOK'
    BY <1>1 DEF StartRun, ActionsOK
  <2>5. ProcOK(p)'
    BY <2>1, <2>3 DEF ProcOK, Pc, BootPc, TryPc
  <2>6. QED
    BY <2>2, <2>3, <2>4, <2>5, Frame
<1>2. ASSUME NEW p \in Viewers, StartStatus(p) PROVE TypeInv'
  <2>1. job'[p] \in Job
    <3>1. PICK subs \in SubsystemLists, left \in Nat : job' = [job EXCEPT ![p] = JobFor(subs, left)]
      BY <1>2, BoundAssumption DEF StartStatus
    <3>2. QED
      BY <3>1, JobForType DEF Locals
  <2>2. Moves(p)
    BY <1>2, StepMoves
  <2>3. pc'[p] = "load" /\ mem'[p] = mem[p] /\ actions' = actions
    BY <1>2 DEF StartStatus, Locals
  <2>4. FilesOK'
    BY <1>2 DEF StartStatus, ActionsOK
  <2>5. ProcOK(p)'
    BY <2>1, <2>3 DEF ProcOK, Pc, BootPc, TryPc
  <2>6. QED
    BY <2>2, <2>3, <2>4, <2>5, Frame
<1>3. ASSUME NEW p \in Proc, Load(p) PROVE TypeInv'
  <2>1. pc[p] = "load" /\ job[p] \in Job
    BY <1>3 DEF Load, ProcOK
  <2>2. FreshState(task, job[p].subs) \in KernelState
    BY <2>1 DEF FreshState, KernelState, Job
  <2>3. stateFile # NoState =>
          [stateFile EXCEPT !.rev = @ + 1, !.sha = task, !.phase = "running", !.idle = 0]
            \in KernelState
    BY StateUpdate
  <2>4. mem'[p] \in KernelState
    BY <1>3, <2>2, <2>3 DEF Load, Locals
  <2>5. Moves(p)
    BY <1>3, StepMoves DEF Initialize
  <2>6. pc'[p] \in {"create", "adopt", "revise"} /\ job'[p] = job[p]
    BY <1>3 DEF Load, Locals
  <2>7. FilesOK' /\ actions' = actions
    BY <1>3 DEF Load, ActionsOK
  <2>8. ProcOK(p)'
    BY <2>1, <2>4, <2>6 DEF ProcOK, Pc, BootPc, TryPc
  <2>9. QED
    BY <2>5, <2>7, <2>8, Frame
<1>4. ASSUME NEW p \in Proc, Create(p) PROVE TypeInv'
  <2>1. Moves(p)
    BY <1>4, StepMoves DEF Initialize
  <2>2. ProcOK(p)'
    BY <1>4 DEF Create, ProcOK, Locals, Pc, BootPc, TryPc, LoopPc
  <2>3. FilesOK' /\ DOMAIN actions \subseteq DOMAIN actions'
    BY <1>4 DEF Create, ProcOK, Locals, ActionsOK
  <2>4. QED
    BY <2>1, <2>2, <2>3, Frame
<1>5. ASSUME NEW p \in Proc, AppendVersion(p) PROVE TypeInv'
  <2>1. Moves(p)
    BY <1>5, StepMoves DEF Initialize
  <2>2. ProcOK(p)'
    BY <1>5 DEF AppendVersion, ProcOK, Locals, Pc, BootPc, TryPc, LoopPc
  <2>3. [rev |-> mem[p].rev, sha |-> mem[p].sha] \in [rev : Nat, sha : Digest]
    BY <1>5 DEF AppendVersion, ProcOK, KernelState
  <2>4. versions' \in Seq([rev : Nat, sha : Digest])
    BY <1>5, <2>3 DEF AppendVersion
  <2>5. FilesOK' /\ actions' = actions
    BY <1>5, <2>4 DEF AppendVersion, ActionsOK
  <2>6. QED
    BY <2>1, <2>2, <2>5, Frame
<1>6. ASSUME NEW p \in Proc, Adopt(p) PROVE TypeInv'
  <2>1. pc[p] = "adopt" /\ mem[p] \in KernelState /\ job[p] \in Job
    BY <1>6 DEF Adopt, ProcOK
  <2>2. AdoptSubsystems(mem[p], job[p].subs) \in KernelState
    BY <2>1, StateUpdate DEF Job
  <2>3. Moves(p)
    BY <1>6, StepMoves DEF Initialize
  <2>4. pc'[p] = "recover" /\ mem'[p] \in KernelState /\ job'[p] = job[p] /\ actions' = actions
    BY <1>6, <2>2 DEF Adopt, Locals
  <2>5. FilesOK'
    BY <1>6, <2>2 DEF Adopt, ActionsOK
  <2>6. ProcOK(p)'
    BY <2>1, <2>4 DEF ProcOK, Pc, BootPc, TryPc, LoopPc
  <2>7. QED
    BY <2>3, <2>4, <2>5, <2>6, Frame
<1>7. ASSUME NEW p \in Proc, Recover(p) PROVE TypeInv'
  <2>1. Moves(p)
    BY <1>7, StepMoves DEF Initialize
  <2>2. ProcOK(p)'
    BY <1>7 DEF Recover, ProcOK, Locals, Pc, BootPc, TryPc, LoopPc
  <2>3. FilesOK' /\ DOMAIN actions \subseteq DOMAIN actions'
    BY <1>7 DEF Recover, ProcOK, Locals, ActionsOK
  <2>4. QED
    BY <2>1, <2>2, <2>3, Frame
<1>8. ASSUME NEW p \in Proc, Interrupt(p) PROVE TypeInv'
  <2> DEFINE a == mem[p].active
  <2> DEFINE row == [actions[a] EXCEPT !.status = "interrupted", !.summary = "before_outcome"]
  <2>1. pc[p] = "interrupt" /\ mem[p] \in KernelState /\ job[p] \in Job /\ a \in DOMAIN actions
    BY <1>8 DEF Interrupt, ProcOK, TryPc
  <2>2. AppendAction(a, row)
    BY <1>8 DEF Interrupt
  <2>3. a \in ActionId /\ row \in ActionRow
    BY <2>1, RowUpdate DEF ActionsOK, Status, Terminal, Summary
  <2>4. DOMAIN actions' = DOMAIN actions \cup {a} /\ ActionsOK'
    BY <2>2, <2>3, AppendActionType
  <2>5. Moves(p)
    BY <1>8, StepMoves DEF Initialize
  <2>6. pc'[p] = "clear" /\ mem'[p] = mem[p] /\ job'[p] = job[p]
    BY <1>8 DEF Interrupt, Locals
  <2>7. FilesOK'
    BY <1>8, <2>4 DEF Interrupt
  <2>8. ProcOK(p)'
    BY <2>1, <2>4, <2>6 DEF ProcOK, Pc, BootPc, TryPc, LoopPc
  <2>9. QED
    BY <2>4, <2>5, <2>7, <2>8, Frame
<1>9. ASSUME NEW p \in Proc, Clear(p) PROVE TypeInv'
  <2>1. pc[p] = "clear" /\ mem[p] \in KernelState /\ job[p] \in Job
    BY <1>9 DEF Clear, ProcOK
  <2>2. [mem[p] EXCEPT !.active = NoAction, !.phase = "running"] \in KernelState
    BY <2>1, StateUpdate
  <2>3. Moves(p)
    BY <1>9, StepMoves DEF Initialize
  <2>4. pc'[p] = "ready" /\ mem'[p] \in KernelState /\ job'[p] = job[p] /\ actions' = actions
    BY <1>9, <2>2 DEF Clear, Locals
  <2>5. FilesOK'
    BY <1>9, <2>2 DEF Clear, ActionsOK
  <2>6. ProcOK(p)'
    BY <2>1, <2>4 DEF ProcOK, Pc, BootPc, TryPc, LoopPc
  <2>7. QED
    BY <2>3, <2>4, <2>5, <2>6, Frame
<1>10. ASSUME NEW p \in Proc, Wake(p) PROVE TypeInv'
  <2>1. pc[p] = "ready" /\ mem[p] \in KernelState /\ job[p] \in Job
    BY <1>10 DEF Wake, ProcOK
  <2>2. [mem[p] EXCEPT !.phase = "running", !.idle = 0] \in KernelState
    BY <2>1, StateUpdate
  <2>3. Moves(p)
    BY <1>10, StepMoves DEF Initialize
  <2>4. pc'[p] = "loop" /\ mem'[p] \in KernelState /\ job'[p] = job[p] /\ actions' = actions
    BY <1>10, <2>1, <2>2 DEF Wake, Locals
  <2>5. stateFile' \in KernelState \cup {NoState}
    BY <1>10, <2>2 DEF Wake
  <2>6. FilesOK'
    BY <1>10, <2>5 DEF Wake, ActionsOK
  <2>7. ProcOK(p)'
    BY <2>1, <2>4 DEF ProcOK, Pc, BootPc, TryPc, LoopPc
  <2>8. QED
    BY <2>3, <2>4, <2>6, <2>7, Frame
<1>11. ASSUME NEW p \in Proc, Report(p) PROVE TypeInv'
  <2>1. Leave(p) /\ FilesOK'
    BY <1>11 DEF Report, Leave, ActionsOK
  <2>2. Moves(p) /\ pc'[p] = "down" /\ mem'[p] = NoState /\ job'[p] = NoState
    BY <2>1 DEF Leave, Moves, Locals
  <2>3. ProcOK(p)'
    BY <2>2 DEF ProcOK, Pc, TryPc
  <2>4. actions' = actions
    BY <1>11 DEF Report
  <2>5. QED
    BY <2>2, <2>1, <2>3, <2>4, Frame
<1>12. ASSUME NEW p \in Proc, OfferTurn(p) PROVE TypeInv'
  <2> DEFINE n == Len(job[p].subs)
  <2> DEFINE sub == job[p].subs[(mem[p].next % n) + 1]
  <2>1. /\ pc[p] = "loop" /\ mem[p] \in KernelState /\ job[p] \in Job
        /\ job[p].subs \in SubsystemLists /\ mem[p].next \in Nat
        /\ job[p].left \in Nat /\ job[p].left > 0
    BY <1>12 DEF OfferTurn, ProcOK, Job, KernelState
  <2>2. sub \in Subsystem /\ (mem[p].next + 1) % n \in Nat
    <3>1. mem[p].next + 1 \in Nat
      BY <2>1
    <3>2. QED
      BY <2>1, <3>1, SelectionElement
  <2>3. mem'[p] \in KernelState
    <3>1. [mem[p] EXCEPT !.next = (mem[p].next + 1) % n] \in KernelState
      BY <2>1, <2>2, StateUpdate
    <3>2. mem'[p] = [mem[p] EXCEPT !.next = (mem[p].next + 1) % n]
      BY <1>12 DEF OfferTurn, Locals
    <3>3. QED
      BY <3>1, <3>2
  <2>4. job'[p] \in Job
    <3>1. JobFor(job[p].subs, job[p].left - 1) \in Job
      BY <2>1, JobForType
    <3>2. actorState[sub] \in Seq(ActionId)
      BY <2>2
    <3>3. job'[p] = [JobFor(job[p].subs, job[p].left - 1) EXCEPT !.sub = sub,
                                                                !.seen = actorState[sub]]
      BY <1>12 DEF OfferTurn, Locals
    <3>4. QED
      BY <2>2, <3>1, <3>2, <3>3 DEF Job
  <2>5. Moves(p) /\ pc'[p] = "propose"
    BY <1>12, StepMoves DEF OfferTurn, Locals, Step
  <2>6. FilesOK' /\ actions' = actions
    BY <1>12 DEF OfferTurn, ActionsOK
  <2>7. ProcOK(p)'
    BY <2>3, <2>4, <2>5 DEF ProcOK, Pc, BootPc, TryPc, LoopPc
  <2>8. QED
    BY <2>5, <2>6, <2>7, Frame
<1>13. ASSUME NEW p \in Proc, Yield(p) PROVE TypeInv'
  <2>1. pc[p] = "propose" /\ mem[p] \in KernelState /\ job[p] \in Job
    BY <1>13 DEF Yield, ProcOK
  <2>2. [mem[p] EXCEPT !.idle = @ + 1] \in KernelState
    BY <2>1, StateUpdate
  <2>3. Moves(p)
    BY <1>13, StepMoves DEF Step
  <2>4. pc'[p] = "stepped" /\ mem'[p] \in KernelState /\ job'[p] = job[p] /\ actions' = actions
    BY <1>13, <2>2 DEF Yield, Locals
  <2>5. FilesOK'
    BY <1>13, <2>2 DEF Yield, ActionsOK
  <2>6. ProcOK(p)'
    BY <2>1, <2>4 DEF ProcOK, Pc, BootPc, TryPc, LoopPc
  <2>7. QED
    BY <2>3, <2>4, <2>5, <2>6, Frame
<1>14. ASSUME NEW p \in Proc, Propose(p) PROVE TypeInv'
  <2>1. pc[p] = "propose" /\ mem[p] \in KernelState /\ job[p] \in Job
    BY <1>14 DEF Propose, ProcOK
  <2>2. PICK a \in ActionId, fp \in ActionFp :
          /\ AppendAction(a, [fp |-> fp, status |-> "proposed",
                              summary |-> "none", admitted |-> {}])
          /\ job' = [job EXCEPT ![p].id = a]
    BY <1>14 DEF Propose
  <2>3. [fp |-> fp, status |-> "proposed", summary |-> "none", admitted |-> {}] \in ActionRow
    BY DEF ActionRow, Status, Summary
  <2>4. DOMAIN actions' = DOMAIN actions \cup {a} /\ ActionsOK'
    BY <2>2, <2>3, AppendActionType
  <2>5. job'[p] \in Job /\ job'[p].id = a
    BY <2>1, <2>2 DEF Locals, Job
  <2>6. Moves(p) /\ pc'[p] = "proposed" /\ mem'[p] = mem[p]
    BY <1>14, <2>2, StepMoves DEF Propose, Locals, Step
  <2>7. FilesOK'
    BY <1>14, <2>4 DEF Propose
  <2>8. ProcOK(p)'
    BY <2>1, <2>4, <2>5, <2>6 DEF ProcOK, Pc, BootPc, TryPc, LoopPc
  <2>9. QED
    BY <2>4, <2>6, <2>7, <2>8, Frame
<1>15. ASSUME NEW p \in Proc, Activate(p) PROVE TypeInv'
  <2>1. /\ pc[p] = "proposed" /\ mem[p] \in KernelState /\ job[p] \in Job
        /\ job[p].id \in DOMAIN actions
    BY <1>15 DEF Activate, ProcOK, TryPc
  <2>2. [mem[p] EXCEPT !.active = job[p].id] \in KernelState
    BY <2>1, StateUpdate DEF ActionsOK
  <2>3. Moves(p)
    BY <1>15, StepMoves DEF Step
  <2>4. pc'[p] = "activated" /\ mem'[p] \in KernelState /\ job'[p] = job[p] /\ actions' = actions
    BY <1>15, <2>2 DEF Activate, Locals
  <2>5. FilesOK'
    BY <1>15, <2>2 DEF Activate, ActionsOK
  <2>6. ProcOK(p)'
    BY <2>1, <2>4 DEF ProcOK, Pc, BootPc, TryPc, LoopPc
  <2>7. QED
    BY <2>3, <2>4, <2>5, <2>6, Frame
<1>16. ASSUME NEW p \in Proc, SkipDuplicate(p) PROVE TypeInv'
  <2> DEFINE a == job[p].id
  <2> DEFINE row == [actions[a] EXCEPT !.status = "duplicate", !.summary = "duplicate"]
  <2>1. pc[p] = "activated" /\ mem[p] \in KernelState /\ job[p] \in Job /\ a \in DOMAIN actions
    BY <1>16 DEF SkipDuplicate, ProcOK, TryPc
  <2>2. AppendAction(a, row)
    BY <1>16 DEF SkipDuplicate
  <2>3. a \in ActionId /\ row \in ActionRow
    BY <2>1, RowUpdate DEF ActionsOK, Status, Terminal, Summary
  <2>4. DOMAIN actions' = DOMAIN actions \cup {a} /\ ActionsOK'
    BY <2>2, <2>3, AppendActionType
  <2>5. Moves(p)
    BY <1>16, StepMoves DEF Step
  <2>6. pc'[p] = "duplicate" /\ mem'[p] = mem[p] /\ job'[p] = job[p]
    BY <1>16 DEF SkipDuplicate, Locals
  <2>7. FilesOK'
    BY <1>16, <2>4 DEF SkipDuplicate
  <2>8. ProcOK(p)'
    BY <2>1, <2>4, <2>6 DEF ProcOK, Pc, BootPc, TryPc, LoopPc
  <2>9. QED
    BY <2>4, <2>5, <2>7, <2>8, Frame
<1>17. ASSUME NEW p \in Proc, SaveDuplicate(p) PROVE TypeInv'
  <2>1. pc[p] = "duplicate" /\ mem[p] \in KernelState /\ job[p] \in Job
    BY <1>17 DEF SaveDuplicate, ProcOK
  <2>2. Unproductive(mem[p]) \in KernelState
    BY <2>1, StateUpdate
  <2>3. Moves(p)
    BY <1>17, StepMoves DEF Step
  <2>4. pc'[p] = "stepped" /\ mem'[p] \in KernelState /\ job'[p] = job[p] /\ actions' = actions
    BY <1>17, <2>2 DEF SaveDuplicate, Locals
  <2>5. FilesOK'
    BY <1>17, <2>2 DEF SaveDuplicate, ActionsOK
  <2>6. ProcOK(p)'
    BY <2>1, <2>4 DEF ProcOK, Pc, BootPc, TryPc, LoopPc
  <2>7. QED
    BY <2>3, <2>4, <2>5, <2>6, Frame
<1>18. ASSUME NEW p \in Proc, Begin(p) PROVE TypeInv'
  <2> DEFINE a == job[p].id
  <2> DEFINE row == [actions[a] EXCEPT !.status = "running"]
  <2>1. pc[p] = "activated" /\ mem[p] \in KernelState /\ job[p] \in Job /\ a \in DOMAIN actions
    BY <1>18 DEF Begin, ProcOK, TryPc
  <2>2. AppendAction(a, row)
    BY <1>18 DEF Begin
  <2>3. a \in ActionId /\ row \in ActionRow
    BY <2>1, RowUpdate DEF ActionsOK, Status, Terminal, Summary
  <2>4. DOMAIN actions' = DOMAIN actions \cup {a} /\ ActionsOK'
    BY <2>2, <2>3, AppendActionType
  <2>5. Moves(p)
    BY <1>18, StepMoves DEF Step
  <2>6. pc'[p] = "executing" /\ mem'[p] = mem[p] /\ job'[p] = job[p]
    BY <1>18 DEF Begin, Locals
  <2>7. FilesOK'
    BY <1>18, <2>4 DEF Begin
  <2>8. ProcOK(p)'
    BY <2>1, <2>4, <2>6 DEF ProcOK, Pc, BootPc, TryPc, LoopPc
  <2>9. QED
    BY <2>4, <2>5, <2>7, <2>8, Frame
<1>19. ASSUME NEW p \in Proc, Execute(p) PROVE TypeInv'
  <2>1. pc[p] = "executing" /\ mem[p] \in KernelState /\ job[p] \in Job
    BY <1>19 DEF Execute, ProcOK
  <2>2. PICK drafts \in Seq(Drafts), patch \in BOOLEAN, error \in BOOLEAN :
          job' = [job EXCEPT ![p].drafts = drafts, ![p].patch = patch, ![p].error = error]
    <3>1. \A n \in 0..MaxDrafts : [1..n -> Drafts] \subseteq Seq(Drafts)
      BY BoundAssumption
    <3>2. QED
      BY <1>19, <3>1 DEF Execute
  <2>3. job'[p] \in Job /\ job'[p].id = job[p].id
    <3>1. job'[p] = [job[p] EXCEPT !.drafts = drafts, !.patch = patch, !.error = error]
      BY <2>2 DEF Locals
    <3>2. QED
      BY <2>1, <3>1 DEF Job
  <2>4. Moves(p)
    BY <1>19, StepMoves DEF Step
  <2>5. pc'[p] = "screen" /\ mem'[p] = mem[p] /\ actions' = actions
    BY <1>19, <2>1 DEF Execute, Locals
  <2>6. FilesOK'
    BY <1>19, <2>1 DEF Execute, ActionsOK
  <2>7. ProcOK(p)'
    BY <1>19, <2>1, <2>3, <2>5 DEF ProcOK, Pc, BootPc, TryPc, LoopPc
  <2>8. QED
    BY <2>4, <2>5, <2>6, <2>7, Frame
<1>20. ASSUME NEW p \in Proc, Screen(p) PROVE TypeInv'
  <2>1. pc[p] = "screen" /\ mem[p] \in KernelState /\ job[p] \in Job
    BY <1>20 DEF Screen, ProcOK
  <2>2. Head(job[p].drafts) \in Drafts /\ Tail(job[p].drafts) \in Seq(Drafts)
    BY <1>20, <2>1 DEF Screen, Job
  <2>3. job'[p] \in Job /\ job'[p].id = job[p].id
    <3> DEFINE d == Head(job[p].drafts)
    <3> DEFINE todo == IF Admissible(d, job[p].todo) THEN Append(job[p].todo, d)
                       ELSE job[p].todo
    <3>1. todo \in Seq(Drafts)
      BY <2>1, <2>2 DEF Job
    <3>2. job'[p] = [job[p] EXCEPT !.drafts = Tail(job[p].drafts), !.todo = todo]
      BY <1>20 DEF Screen, Locals
    <3> HIDE DEF todo
    <3>3. QED
      BY <2>1, <2>2, <3>1, <3>2 DEF Job
  <2>4. Moves(p)
    BY <1>20, StepMoves DEF Step
  <2>5. pc'[p] = "screen" /\ mem'[p] = mem[p] /\ actions' = actions
    BY <1>20, <2>1 DEF Screen, Locals
  <2>6. FilesOK'
    BY <1>20, <2>1 DEF Screen, ActionsOK
  <2>7. ProcOK(p)'
    BY <2>1, <2>3, <2>5 DEF ProcOK, Pc, BootPc, TryPc, LoopPc
  <2>8. QED
    BY <2>4, <2>5, <2>6, <2>7, Frame
<1>21. ASSUME NEW p \in Proc, EndScreen(p) PROVE TypeInv'
  <2>1. Moves(p)
    BY <1>21, StepMoves DEF Step
  <2>2. ProcOK(p)'
    BY <1>21 DEF EndScreen, ProcOK, Locals, Pc, BootPc, TryPc, LoopPc
  <2>3. FilesOK' /\ DOMAIN actions \subseteq DOMAIN actions'
    BY <1>21 DEF EndScreen, ProcOK, Locals, ActionsOK
  <2>4. QED
    BY <2>1, <2>2, <2>3, Frame
<1>22. ASSUME NEW p \in Proc, AppendRecord(p) PROVE TypeInv'
  <2> DEFINE d == Head(job[p].todo)
  <2>1. /\ pc[p] = "append" /\ mem[p] \in KernelState /\ job[p] \in Job
        /\ job[p].id \in DOMAIN actions
    BY <1>22 DEF AppendRecord, ProcOK, TryPc
  <2>2. d \in Drafts /\ Tail(job[p].todo) \in Seq(Drafts)
    BY <1>22, <2>1 DEF AppendRecord, Job
  <2>3. [fp |-> d.fp, parents |-> d.parents, action |-> job[p].id] \in Record
    BY <2>1, <2>2, DraftAssumption DEF Record, ActionsOK
  <2>4. records' \in Seq(Record) /\ Len(records) + 1 \in Nat
    BY <1>22, <2>3 DEF AppendRecord
  <2>5. job'[p] \in Job /\ job'[p].id = job[p].id
    BY <1>22, <2>1, <2>2, <2>4 DEF AppendRecord, Locals, Job
  <2>6. Moves(p) /\ pc'[p] = "append" /\ mem'[p] = mem[p]
    BY <1>22, StepMoves DEF AppendRecord, Locals, Step
  <2>7. FilesOK' /\ actions' = actions
    BY <1>22, <2>4 DEF AppendRecord, ActionsOK
  <2>8. ProcOK(p)'
    BY <2>1, <2>5, <2>6, <2>7 DEF ProcOK, Pc, BootPc, TryPc, LoopPc
  <2>9. QED
    BY <2>6, <2>7, <2>8, Frame
<1>23. ASSUME NEW p \in Proc, SaveActor(p) PROVE TypeInv'
  <2>1. /\ pc[p] = "append" /\ mem[p] \in KernelState /\ job[p] \in Job
        /\ job[p].id \in DOMAIN actions
    BY <1>23 DEF SaveActor, ProcOK, TryPc
  <2>2. Recent(Append(job[p].seen, job[p].id)) \in Seq(ActionId)
    <3>1. job[p].seen \in Seq(ActionId) /\ job[p].id \in ActionId
      BY <2>1 DEF Job, ActionsOK
    <3>2. Append(job[p].seen, job[p].id) \in Seq(ActionId)
      BY <3>1
    <3>3. QED
      BY <3>2, RecentType
  <2>3. actorState' \in [Subsystem -> Seq(ActionId)]
    BY <1>23, <2>2 DEF SaveActor
  <2>4. Moves(p) /\ pc'[p] = "patched" /\ mem'[p] = mem[p] /\ job'[p] = job[p]
    BY <1>23, StepMoves DEF SaveActor, Locals, Step
  <2>5. FilesOK' /\ actions' = actions
    BY <1>23, <2>3 DEF SaveActor, ActionsOK
  <2>6. ProcOK(p)'
    BY <2>1, <2>4, <2>5 DEF ProcOK, Pc, BootPc, TryPc, LoopPc
  <2>7. QED
    BY <2>4, <2>5, <2>6, Frame
<1>24. ASSUME NEW p \in Proc, CommitAction(p) PROVE TypeInv'
  <2> DEFINE a == job[p].id
  <2> DEFINE row == [actions[a] EXCEPT !.status = OutcomeStatus(job[p]),
                             !.summary = "outcome", !.admitted = job[p].admitted]
  <2>1. pc[p] = "patched" /\ mem[p] \in KernelState /\ job[p] \in Job /\ a \in DOMAIN actions
    BY <1>24 DEF CommitAction, ProcOK, TryPc
  <2>2. AppendAction(a, row)
    BY <1>24 DEF CommitAction
  <2>3. a \in ActionId /\ row \in ActionRow
    <3>1. OutcomeStatus(job[p]) \in Status /\ job[p].admitted \in SUBSET Nat
      BY <2>1 DEF OutcomeStatus, Status, Terminal, Job
    <3>2. QED
      BY <2>1, <3>1 DEF ActionsOK, ActionRow, Summary
  <2>4. DOMAIN actions' = DOMAIN actions \cup {a} /\ ActionsOK'
    BY <2>2, <2>3, AppendActionType
  <2>5. Moves(p)
    BY <1>24, StepMoves DEF Step
  <2>6. pc'[p] = "committed" /\ mem'[p] = mem[p] /\ job'[p] = job[p]
    BY <1>24 DEF CommitAction, Locals
  <2>7. FilesOK'
    BY <1>24, <2>4 DEF CommitAction
  <2>8. ProcOK(p)'
    BY <2>1, <2>4, <2>6 DEF ProcOK, Pc, BootPc, TryPc, LoopPc
  <2>9. QED
    BY <2>4, <2>5, <2>7, <2>8, Frame
<1>25. ASSUME NEW p \in Proc, SaveCommit(p) PROVE TypeInv'
  <2>1. pc[p] = "committed" /\ mem[p] \in KernelState /\ job[p] \in Job
    BY <1>25 DEF SaveCommit, ProcOK
  <2>2. AfterCommit(mem[p], job[p]) \in KernelState
    BY <2>1, StateUpdate
  <2>3. Moves(p)
    BY <1>25, StepMoves DEF Step
  <2>4. pc'[p] = "announce" /\ mem'[p] \in KernelState /\ job'[p] = job[p] /\ actions' = actions
    BY <1>25, <2>2 DEF SaveCommit, Locals
  <2>5. FilesOK'
    BY <1>25, <2>2 DEF SaveCommit, ActionsOK
  <2>6. ProcOK(p)'
    BY <1>25, <2>1, <2>4 DEF ProcOK, Pc, BootPc, TryPc, LoopPc
  <2>7. QED
    BY <2>3, <2>4, <2>5, <2>6, Frame
<1>26. ASSUME NEW p \in Proc, EndStep(p) PROVE TypeInv'
  <2>1. mem[p] \in KernelState /\ job[p] \in Job
    BY <1>26 DEF EndStep, ProcOK
  <2>2. [mem[p] EXCEPT !.phase = "idle"] \in KernelState
    BY <2>1, StateUpdate
  <2>3. Moves(p)
    BY <1>26, StepMoves DEF Step
  <2>4. pc'[p] \in {"exit", "loop"} /\ mem'[p] \in KernelState /\ actions' = actions
    BY <1>26, <2>1, <2>2 DEF EndStep, Locals
  <2>5. job'[p] \in Job
    BY <1>26, <2>1, JobForType DEF EndStep, Locals, Job
  <2>6. stateFile' \in KernelState \cup {NoState}
    BY <1>26, <2>2 DEF EndStep
  <2>7. FilesOK'
    BY <1>26, <2>6 DEF EndStep, ActionsOK
  <2>8. ProcOK(p)'
    BY <2>4, <2>5 DEF ProcOK, Pc, BootPc, TryPc, LoopPc
  <2>9. QED
    BY <2>3, <2>4, <2>7, <2>8, Frame
<1>27. ASSUME NEW p \in Proc, EndRun(p) PROVE TypeInv'
  <2>1. Leave(p) /\ FilesOK'
    BY <1>27 DEF EndRun, Leave, ActionsOK
  <2>2. Moves(p) /\ pc'[p] = "down" /\ mem'[p] = NoState /\ job'[p] = NoState
    BY <2>1 DEF Leave, Moves, Locals
  <2>3. ProcOK(p)'
    BY <2>2 DEF ProcOK, Pc, TryPc
  <2>4. actions' = actions
    BY <1>27 DEF EndRun
  <2>5. QED
    BY <2>2, <2>1, <2>3, <2>4, Frame
<1>28. ASSUME NEW p \in Proc, Raise(p) PROVE TypeInv'
  <2>1. pc[p] \in TryPc /\ mem[p] \in KernelState /\ job[p] \in Job
    BY <1>28 DEF Raise, ProcOK, TryPc
  <2>2. StateWhenRaised(p) \subseteq KernelState
    <3>1. pc[p] = "proposed" => job[p].id \in ActionId
      BY DEF ProcOK, TryPc, ActionsOK
    <3>2. QED
      BY <2>1, <3>1, StateUpdate DEF StateWhenRaised
  <2>3. mem'[p] \in KernelState
    BY <1>28, <2>2 DEF Raise, Locals
  <2>4. Moves(p) /\ pc'[p] = "handler" /\ job'[p] = job[p] /\ actions' = actions
    BY <1>28, StepMoves DEF Raise, Locals, Handle
  <2>5. FilesOK'
    BY <1>28 DEF Raise, ActionsOK
  <2>6. ProcOK(p)'
    BY <2>1, <2>3, <2>4 DEF ProcOK, Pc, BootPc, TryPc, LoopPc
  <2>7. QED
    BY <2>4, <2>5, <2>6, Frame
<1>29. ASSUME NEW p \in Proc, FailAction(p) PROVE TypeInv'
  <2> DEFINE a == mem[p].active
  <2> DEFINE row == [actions[a] EXCEPT !.status = "failed", !.summary = "before_record"]
  <2>1. pc[p] = "handler" /\ mem[p] \in KernelState /\ job[p] \in Job
    BY <1>29 DEF FailAction, ProcOK
  <2>2. DOMAIN actions \subseteq DOMAIN actions' /\ ActionsOK'
    <3>1. CASE a \in DOMAIN actions
      <4>1. a \in ActionId /\ row \in ActionRow
        BY <3>1, RowUpdate DEF ActionsOK, Status, Terminal, Summary
      <4>2. AppendAction(a, row)
        BY <1>29, <3>1 DEF FailAction
      <4>3. QED
        BY <4>1, <4>2, AppendActionType
    <3>2. CASE a \notin DOMAIN actions
      BY <1>29, <3>2 DEF FailAction, ActionsOK
    <3>3. QED
      BY <3>1, <3>2
  <2>3. Moves(p) /\ pc'[p] = "handled" /\ mem'[p] = mem[p] /\ job'[p] = job[p]
    BY <1>29, StepMoves DEF FailAction, Locals, Handle
  <2>4. FilesOK'
    BY <1>29, <2>2 DEF FailAction
  <2>5. ProcOK(p)'
    BY <2>1, <2>3 DEF ProcOK, Pc, BootPc, TryPc, LoopPc
  <2>6. QED
    BY <2>2, <2>3, <2>4, <2>5, Frame
<1>30. ASSUME NEW p \in Proc, SaveFailure(p) PROVE TypeInv'
  <2>1. pc[p] = "handled" /\ mem[p] \in KernelState /\ job[p] \in Job
    BY <1>30 DEF SaveFailure, ProcOK
  <2>2. Unproductive(mem[p]) \in KernelState
    BY <2>1, StateUpdate
  <2>3. Moves(p)
    BY <1>30, StepMoves DEF Handle
  <2>4. pc'[p] = "stepped" /\ mem'[p] \in KernelState /\ job'[p] = job[p] /\ actions' = actions
    BY <1>30, <2>2 DEF SaveFailure, Locals
  <2>5. FilesOK'
    BY <1>30, <2>2 DEF SaveFailure, ActionsOK
  <2>6. ProcOK(p)'
    BY <2>1, <2>4 DEF ProcOK, Pc, BootPc, TryPc, LoopPc
  <2>7. QED
    BY <2>3, <2>4, <2>5, <2>6, Frame
<1>31. ASSUME NEW p \in Proc, Crash(p) PROVE TypeInv'
  <2>1. Leave(p) /\ FilesOK'
    BY <1>31 DEF Crash, Leave, ActionsOK
  <2>2. Moves(p) /\ pc'[p] = "down" /\ mem'[p] = NoState /\ job'[p] = NoState
    BY <2>1 DEF Leave, Moves, Locals
  <2>3. ProcOK(p)'
    BY <2>2 DEF ProcOK, Pc, TryPc
  <2>4. actions' = actions
    BY <1>31 DEF Crash
  <2>5. QED
    BY <2>2, <2>1, <2>3, <2>4, Frame
<1>32. CASE EditTask
  <2>1. FilesOK' /\ UNCHANGED <<pc, mem, job, actions>>
    BY <1>32 DEF EditTask, volatile, ActionsOK
  <2>2. QED
    BY <2>1 DEF Locals, ProcOK
<1>33. CASE UNCHANGED vars
  BY <1>33 DEF vars, volatile, Locals, ProcOK, ActionsOK
<1>34. ASSUME NEW p \in Proc, Initialize(p) PROVE TypeInv'
  BY <1>34, <1>3, <1>4, <1>5, <1>6, <1>7, <1>8, <1>9, <1>10 DEF Initialize
<1>35. ASSUME NEW p \in Proc, Step(p) PROVE TypeInv'
  BY <1>35, <1>12, <1>13, <1>14, <1>15, <1>16, <1>17, <1>18, <1>19, <1>20, <1>21, <1>22,
     <1>23, <1>24, <1>25, <1>26, <1>27 DEF Step
<1>36. ASSUME NEW p \in Proc, Handle(p) PROVE TypeInv'
  BY <1>36, <1>28, <1>29, <1>30 DEF Handle
<1>37. QED
  BY <1>1, <1>2, <1>11, <1>31, <1>32, <1>33, <1>34, <1>35, <1>36 DEF Next, StatusNext

LEMMA TypeInvInductive == TypeInv /\ [Next]_vars => TypeInv'
BY TypeInvStatus DEF StatusNext

LEMMA InitTypeInv == Init => TypeInv
<1> SUFFICES ASSUME Init PROVE TypeInv
  OBVIOUS
<1>1. FilesOK
  BY DEF Init, FilesOK, ActionsOK
<1>2. Locals /\ \A p \in Proc : ProcOK(p)
  BY DEF Init, Locals, ProcOK, Pc, TryPc
<1>3. QED
  BY <1>1, <1>2 DEF TypeInv

\* TypeOK: everything the kernel keeps, on disk and in memory, stays well formed: the
\* cursor, the revision, the ledgers' rows and what a process holds of them.
THEOREM TypeCorrect == Spec => []TypeOK
BY InitTypeInv, TypeInvInductive, TypeInvType, PTL DEF Spec
=============================================================================
