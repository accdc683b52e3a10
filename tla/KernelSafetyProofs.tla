------------------------- MODULE KernelSafetyProofs -------------------------
(***************************************************************************)
(* The safety of the kernel, for every value of the constants: KernelInv   *)
(* is inductive for the runs (Spec), and the safety properties follow from *)
(* it.  The last section is about runs beside status commands, which       *)
(* initialize the workspace outside the lock (StatusSpec).                 *)
(***************************************************************************)
EXTENDS ResearchKernelProofs

-----------------------------------------------------------------------------
(***************************************************************************)
(* Lemmas                                                                  *)
(***************************************************************************)
\* Of all the updates of the state only three change its active action.
LEMMA StateActive ==
  ASSUME NEW s \in KernelState
  PROVE  /\ [s EXCEPT !.idle = @ + 1].active = s.active
         /\ Unproductive(s).active = NoAction
         /\ [s EXCEPT !.phase = "idle"].active = s.active
         /\ [s EXCEPT !.phase = "running", !.idle = 0].active = s.active
         /\ [s EXCEPT !.active = NoAction, !.phase = "running"].active = NoAction
         /\ \A n \in Nat : [s EXCEPT !.next = n].active = s.active
         /\ \A a \in ActionId : [s EXCEPT !.active = a].active = a
         /\ \A j \in Job : AfterCommit(s, j).active = NoAction
         /\ \A d \in Digest : [s EXCEPT !.rev = @ + 1, !.sha = d, !.phase = "running",
                                        !.idle = 0].active = s.active
         /\ \A subs \in SubsystemLists : AdoptSubsystems(s, subs).active = s.active
BY DEF KernelState, Unproductive, AfterCommit, AdoptSubsystems

\* Only the holder of the lock has a process to speak of, so a step has to re-establish
\* what the invariant says of that process and of the files.
LEMMA KernelFrame ==
  ASSUME TypeInv, KernelInv, NEW p \in Proc, pc[p] # "down", Moves(p), lock' = lock,
         Phase(p)', Batch(p)', ActiveKnown', RunningIsActive', LedgerInv'
  PROVE  KernelInv'
<1>1. \A q \in Proc : q # p => pc[q] = "down"
  BY DEF KernelInv, LockInv
<1>2. \A q \in Proc : q # p => pc'[q] = "down"
  BY <1>1 DEF TypeInv, Locals, Moves
<1>3. LockInv'
  BY <1>2 DEF KernelInv, LockInv
<1>4. ASSUME NEW q \in Proc, q # p PROVE Phase(q)' /\ Batch(q)'
  BY <1>2, <1>4 DEF Phase, Batch, Idling, Running
<1>5. QED
  BY <1>3, <1>4 DEF KernelInv

\* The ledgers stay consistent when a new action is declared or when a row takes an open
\* action to a status its records justify.
LEMMA RowChange ==
  ASSUME TypeInv, LedgerInv, NEW a \in ActionId, NEW row \in ActionRow,
         AppendAction(a, row), records' = records,
         a \in DOMAIN actions => actions[a].status \in {"proposed", "running"},
         row.status \in Committed => ~AlreadyExecuted(row.fp),
         RecordsOf(a) # {} => row.status \in {"running", "succeeded", "failed", "interrupted"},
         row.summary = "outcome" => row.admitted = RecordsOf(a),
         row.status \in {"proposed", "running"} => row.summary = "none"
  PROVE  LedgerInv'
<1>1. /\ DOMAIN actions' = DOMAIN actions \cup {a}
      /\ actions'[a] = row
      /\ \A b \in DOMAIN actions : b # a => actions'[b] = actions[b]
  BY AppendActionType DEF TypeInv, FilesOK
<1>2. CommittedOnce'
  <2> SUFFICES ASSUME NEW b \in DOMAIN actions', NEW c \in DOMAIN actions',
                      actions'[b].status \in Committed, actions'[c].status \in Committed,
                      actions'[b].fp = actions'[c].fp
               PROVE  b = c
    BY DEF CommittedOnce
  <2>1. CASE b # a /\ c # a
    BY <1>1, <2>1 DEF LedgerInv, CommittedOnce
  <2>2. CASE b = a \/ c = a
    BY <1>1, <2>2 DEF AlreadyExecuted
  <2>3. QED
    BY <2>1, <2>2
<1>3. RecordsUnique' /\ ParentsEarlier'
  BY DEF LedgerInv, RecordsUnique, ParentsEarlier
<1>4. RecordsOwned'
  BY <1>1 DEF LedgerInv, RecordsOwned, RecordsOf
<1>5. OutcomeNamesRecords'
  BY <1>1 DEF LedgerInv, OutcomeNamesRecords, RecordsOf
<1>6. OpenUndecided'
  BY <1>1 DEF LedgerInv, OpenUndecided
<1>7. QED
  BY <1>2, <1>3, <1>4, <1>5, <1>6 DEF LedgerInv

LEMMA LedgerUnchanged ==
  LedgerInv /\ actions' = actions /\ records' = records => LedgerInv'
BY DEF LedgerInv, CommittedOnce, RecordsUnique, ParentsEarlier, RecordsOwned,
       OutcomeNamesRecords, OpenUndecided

-----------------------------------------------------------------------------
(***************************************************************************)
(* KernelInv is inductive                                                  *)
(***************************************************************************)
LEMMA InitKernelInv == Init => KernelInv
BY DEF Init, KernelInv, LockInv, ActiveKnown, RunningIsActive, LedgerInv, CommittedOnce,
       RecordsUnique, ParentsEarlier, RecordsOwned, OutcomeNamesRecords, OpenUndecided,
       Phase, Batch, Idling, Running

LEMMA KernelInvInductive ==
  ASSUME TypeInv, KernelInv, [Next]_vars
  PROVE  KernelInv'
<1> USE DEF Goto, SaveState, durable, bounds
<1>0. TypeInv'
  BY TypeInvInductive
<1>1. ASSUME NEW p \in Runners, StartRun(p) PROVE KernelInv'
  <2>1. \A q \in Proc : pc[q] = "down"
    BY <1>1, ProcAssumption DEF StartRun, KernelInv, LockInv
  <2>2. pc'[p] = "load" /\ \A q \in Proc : q # p => pc'[q] = "down"
    BY <1>1, <2>1 DEF StartRun, TypeInv, Locals, Proc
  <2>3. LockInv'
    BY <1>1, <2>2 DEF StartRun, LockInv
  <2>4. \A q \in Proc : Phase(q)' /\ Batch(q)'
    BY <2>2 DEF Phase, Batch, Idling, Running
  <2>5. ActiveKnown' /\ RunningIsActive' /\ LedgerInv'
    BY <1>1, LedgerUnchanged DEF StartRun, KernelInv, ActiveKnown, RunningIsActive
  <2>6. QED
    BY <2>3, <2>4, <2>5 DEF KernelInv
<1>2. ASSUME NEW p \in Proc, Load(p) PROVE KernelInv'
  <2>1. pc[p] = "load" /\ job[p] \in Job
    BY <1>2 DEF Load, TypeInv, ProcOK, FilesOK, KernelInv, Phase, Batch, Idling, Running, TryPc
  <2>2. /\ pc'[p] \in {"create", "adopt", "revise"} /\ job'[p] = job[p] /\ stateFile' = stateFile
        /\ pc'[p] = "create" => stateFile = NoState /\ mem'[p].active = NoAction
        /\ pc'[p] # "create" => stateFile # NoState /\ mem'[p].active = stateFile.active
    <3>1. FreshState(task, job[p].subs).active = NoAction
      BY DEF FreshState
    <3>2. stateFile # NoState =>
            [stateFile EXCEPT !.rev = @ + 1, !.sha = task, !.phase = "running",
                              !.idle = 0].active = stateFile.active
      BY StateActive DEF TypeInv, FilesOK
    <3>3. QED
      BY <1>2, <3>1, <3>2 DEF Load, TypeInv, Locals
  <2>3. lock' = lock /\ actions' = actions /\ records' = records /\ Moves(p)
    BY <1>2, StepMoves DEF Load, Initialize, TypeInv
  <2>4. Phase(p)'
    BY <2>1, <2>2, <2>3 DEF Phase, Idling, Running
  <2>5. Batch(p)'
    BY <2>1, <2>2, <2>3 DEF Batch, Running, RecordsOf, AlreadyExecuted, RecordFps
  <2>6. ActiveKnown' /\ RunningIsActive'
    BY <1>2, <2>1, <2>2, <2>3 DEF Load, KernelInv, ActiveKnown, RunningIsActive
  <2>7. QED
    BY <2>1, <2>3, <2>4, <2>5, <2>6, KernelFrame, LedgerUnchanged DEF KernelInv
<1>3. ASSUME NEW p \in Proc, Create(p) PROVE KernelInv'
  <2>1. pc[p] = "create" /\ mem[p] \in KernelState /\ mem[p].active = NoAction /\ stateFile = NoState
    BY <1>3 DEF Create, TypeInv, ProcOK, FilesOK, KernelInv, Phase, Batch, Idling, Running, TryPc
  <2>2. /\ pc'[p] = "first_version" /\ mem'[p] = mem[p] /\ stateFile' = mem[p]
        /\ stateFile' # NoState /\ job'[p] = job[p]
    BY <1>3, <2>1, StateUpdate, StateActive, StateAssumption DEF Create, TypeInv, Locals
  <2>3. lock' = lock /\ actions' = actions /\ records' = records /\ Moves(p)
    BY <1>3, StepMoves DEF Create, Initialize, TypeInv
  <2>4. Phase(p)'
    BY <2>1, <2>2, <2>3 DEF Phase, Idling, Running
  <2>5. Batch(p)'
    BY <2>1, <2>2, <2>3 DEF Batch, Running, RecordsOf, AlreadyExecuted, RecordFps
  <2>6. ActiveKnown' /\ RunningIsActive'
    BY <1>3, <2>1, <2>2, <2>3 DEF Create, KernelInv, ActiveKnown, RunningIsActive
  <2>7. QED
    BY <2>1, <2>3, <2>4, <2>5, <2>6, KernelFrame, LedgerUnchanged DEF KernelInv
<1>4. ASSUME NEW p \in Proc, AppendVersion(p) PROVE KernelInv'
  <2>1. /\ pc[p] \in {"first_version", "revise"}
        /\ pc[p] = "first_version" => stateFile = mem[p]
        /\ pc[p] = "revise" => stateFile # NoState /\ stateFile.active = mem[p].active
    BY <1>4 DEF AppendVersion, TypeInv, ProcOK, FilesOK, KernelInv, Phase, Batch, Idling, Running, TryPc
  <2>2. /\ pc'[p] = IF pc[p] = "revise" THEN "adopt" ELSE "recover"
        /\ mem'[p] = mem[p] /\ stateFile' = stateFile /\ job'[p] = job[p]
    BY <1>4, <2>1, StateUpdate, StateActive, StateAssumption DEF AppendVersion, TypeInv, Locals
  <2>3. lock' = lock /\ actions' = actions /\ records' = records /\ Moves(p)
    BY <1>4, StepMoves DEF AppendVersion, Initialize, TypeInv
  <2>4. Phase(p)'
    BY <2>1, <2>2, <2>3 DEF Phase, Idling, Running
  <2>5. Batch(p)'
    BY <2>1, <2>2, <2>3 DEF Batch, Running, RecordsOf, AlreadyExecuted, RecordFps
  <2>6. ActiveKnown' /\ RunningIsActive'
    BY <1>4, <2>1, <2>2, <2>3 DEF AppendVersion, KernelInv, ActiveKnown, RunningIsActive
  <2>7. QED
    BY <2>1, <2>3, <2>4, <2>5, <2>6, KernelFrame, LedgerUnchanged DEF KernelInv
<1>5. ASSUME NEW p \in Proc, Adopt(p) PROVE KernelInv'
  <2>1. /\ pc[p] = "adopt" /\ mem[p] \in KernelState /\ job[p].subs \in SubsystemLists
        /\ stateFile # NoState /\ stateFile.active = mem[p].active
    BY <1>5 DEF Adopt, TypeInv, ProcOK, FilesOK, KernelInv, Phase, Batch, Idling, Running, TryPc, Job
  <2>2. /\ pc'[p] = "recover" /\ mem'[p] = stateFile' /\ stateFile' # NoState
        /\ stateFile'.active = mem[p].active /\ job'[p] = job[p]
    <3>1. PICK t : t = AdoptSubsystems(mem[p], job[p].subs)
      OBVIOUS
    <3>2. t \in KernelState /\ t.active = mem[p].active
      BY <2>1, <3>1, StateUpdate, StateActive
    <3>3. t # NoState
      BY <3>2, StateAssumption
    <3>4. /\ pc' = [pc EXCEPT ![p] = "recover"] /\ job' = job
          /\ stateFile' = t /\ mem' = [mem EXCEPT ![p] = t]
      BY <1>5, <3>1 DEF Adopt
    <3>5. pc'[p] = "recover" /\ mem'[p] = t
      BY <3>4 DEF TypeInv, Locals
    <3> QED BY <3>2, <3>3, <3>4, <3>5
  <2>3. lock' = lock /\ actions' = actions /\ records' = records /\ Moves(p)
    BY <1>5, StepMoves DEF Adopt, Initialize, TypeInv
  <2>4. Phase(p)'
    BY <2>1, <2>2, <2>3 DEF Phase, Idling, Running
  <2>5. Batch(p)'
    BY <2>1, <2>2, <2>3 DEF Batch, Running, RecordsOf, AlreadyExecuted, RecordFps
  <2>6. ActiveKnown' /\ RunningIsActive'
    BY <1>5, <2>1, <2>2, <2>3 DEF Adopt, KernelInv, ActiveKnown, RunningIsActive
  <2>7. QED
    BY <2>1, <2>3, <2>4, <2>5, <2>6, KernelFrame, LedgerUnchanged DEF KernelInv
<1>6. ASSUME NEW p \in Proc, Recover(p) PROVE KernelInv'
  <2>1. /\ pc[p] = "recover" /\ mem[p] \in KernelState /\ stateFile = mem[p]
        /\ stateFile # NoState /\ mem[p].active \in DOMAIN actions \cup {NoAction}
        /\ \A a \in DOMAIN actions : actions[a].status \in Status
    BY <1>6, StateAssumption DEF Recover, TypeInv, ProcOK, FilesOK, KernelInv, Phase, Batch, Idling, Running, TryPc, ActiveKnown, ActionsOK, ActionRow, Status
  <2>2. /\ mem'[p] = mem[p] /\ stateFile' = stateFile /\ job'[p] = job[p]
        /\ pc'[p] \in {"ready", "interrupt", "clear"}
        /\ pc'[p] = "ready" => mem[p].active = NoAction
        /\ pc'[p] = "interrupt" => actions[mem[p].active].status \in {"proposed", "running"}
        /\ pc'[p] = "clear" => /\ mem[p].active \in DOMAIN actions
                               /\ actions[mem[p].active].status \in Terminal
    BY <1>6, <2>1, StateUpdate, StateActive, StateAssumption DEF Recover, TypeInv, Locals, Terminal, Status
  <2>3. lock' = lock /\ actions' = actions /\ records' = records /\ Moves(p)
    BY <1>6, StepMoves DEF Recover, Initialize, TypeInv
  <2>4. Phase(p)'
    BY <2>1, <2>2, <2>3 DEF Phase, Idling, Running
  <2>5. Batch(p)'
    BY <2>1, <2>2, <2>3 DEF Batch, Running, RecordsOf, AlreadyExecuted, RecordFps
  <2>6. ActiveKnown' /\ RunningIsActive'
    BY <1>6, <2>1, <2>2, <2>3 DEF Recover, KernelInv, ActiveKnown, RunningIsActive
  <2>7. QED
    BY <2>1, <2>3, <2>4, <2>5, <2>6, KernelFrame, LedgerUnchanged DEF KernelInv
<1>7. ASSUME NEW p \in Proc, Clear(p) PROVE KernelInv'
  <2>1. /\ pc[p] = "clear" /\ mem[p] \in KernelState /\ stateFile = mem[p]
        /\ actions[mem[p].active].status \in Terminal
    BY <1>7 DEF Clear, TypeInv, ProcOK, FilesOK, KernelInv, Phase, Batch, Idling, Running, TryPc
  <2>2. /\ pc'[p] = "ready" /\ mem'[p] = stateFile' /\ stateFile' # NoState
        /\ stateFile'.active = NoAction /\ job'[p] = job[p]
    BY <1>7, <2>1, StateUpdate, StateActive, StateAssumption DEF Clear, TypeInv, Locals
  <2>3. lock' = lock /\ actions' = actions /\ records' = records /\ Moves(p)
    BY <1>7, StepMoves DEF Clear, Initialize, TypeInv
  <2>4. Phase(p)'
    BY <2>1, <2>2, <2>3 DEF Phase, Idling, Running
  <2>5. Batch(p)'
    BY <2>1, <2>2, <2>3 DEF Batch, Running, RecordsOf, AlreadyExecuted, RecordFps
  <2>6. ActiveKnown' /\ RunningIsActive'
    BY <1>7, <2>1, <2>2, <2>3 DEF Clear, KernelInv, ActiveKnown, RunningIsActive, Terminal
  <2>7. QED
    BY <2>1, <2>3, <2>4, <2>5, <2>6, KernelFrame, LedgerUnchanged DEF KernelInv
<1>8. ASSUME NEW p \in Proc, Wake(p) PROVE KernelInv'
  <2>1. /\ pc[p] = "ready" /\ mem[p] \in KernelState /\ mem[p].active = NoAction
        /\ stateFile # NoState /\ stateFile.active = NoAction
    BY <1>8 DEF Wake, TypeInv, ProcOK, FilesOK, KernelInv, Phase, Batch, Idling, Running, TryPc
  <2>2. /\ pc'[p] = "loop" /\ mem'[p].active = NoAction /\ stateFile' # NoState
        /\ stateFile'.active = NoAction /\ job'[p] = job[p]
    <3>1. CASE mem[p].phase = "idle"
      <4> DEFINE s == [mem[p] EXCEPT !.phase = "running", !.idle = 0]
      <4>1. s \in KernelState /\ s.active = NoAction
        BY <2>1, StateUpdate, StateActive
      <4>2. stateFile' = s /\ mem'[p] = s
        BY <1>8, <3>1 DEF Wake, TypeInv, Locals
      <4>3. QED
        BY <1>8, <4>1, <4>2, StateAssumption DEF Wake, TypeInv, Locals
    <3>2. CASE mem[p].phase # "idle"
      BY <1>8, <2>1, <3>2 DEF Wake, TypeInv, Locals
    <3>3. QED
      BY <3>1, <3>2
  <2>3. lock' = lock /\ actions' = actions /\ records' = records /\ Moves(p)
    BY <1>8, StepMoves DEF Wake, Initialize, TypeInv
  <2>4. Phase(p)'
    BY <2>1, <2>2, <2>3 DEF Phase, Idling, Running
  <2>5. Batch(p)'
    BY <2>1, <2>2, <2>3 DEF Batch, Running, RecordsOf, AlreadyExecuted, RecordFps
  <2>6. ActiveKnown' /\ RunningIsActive'
    BY <1>8, <2>1, <2>2, <2>3 DEF Wake, KernelInv, ActiveKnown, RunningIsActive
  <2>7. QED
    BY <2>1, <2>3, <2>4, <2>5, <2>6, KernelFrame, LedgerUnchanged DEF KernelInv
<1>9. ASSUME NEW p \in Proc, OfferTurn(p) PROVE KernelInv'
  <2>1. /\ pc[p] = "loop" /\ mem[p] \in KernelState /\ mem[p].active = NoAction
        /\ stateFile # NoState /\ stateFile.active = NoAction
    BY <1>9 DEF OfferTurn, TypeInv, ProcOK, FilesOK, KernelInv, Phase, Batch, Idling, Running, TryPc
  <2>2. /\ pc'[p] = "propose" /\ mem'[p].active = NoAction /\ stateFile' = stateFile
        /\ job'[p].todo = <<>> /\ job'[p].admitted = {}
    <3>1. mem'[p] = [mem[p] EXCEPT !.next = (mem[p].next + 1) % Len(job[p].subs)]
      BY <1>9, <2>1 DEF OfferTurn, TypeInv, Locals
    <3>2. mem'[p].active = NoAction
      BY <2>1, <3>1 DEF KernelState
    <3>3. job'[p].todo = <<>> /\ job'[p].admitted = {}
      BY <1>9, <2>1 DEF OfferTurn, TypeInv, Locals, JobFor
    <3>4. QED
      BY <1>9, <3>2, <3>3 DEF OfferTurn, TypeInv, Locals
  <2>3. lock' = lock /\ actions' = actions /\ records' = records /\ Moves(p)
    BY <1>9, StepMoves DEF OfferTurn, Step, TypeInv
  <2>4. Phase(p)'
    BY <2>1, <2>2, <2>3 DEF Phase, Idling, Running
  <2>5. Batch(p)'
    BY <2>1, <2>2, <2>3 DEF Batch, Running, RecordsOf, AlreadyExecuted, RecordFps
  <2>6. ActiveKnown' /\ RunningIsActive'
    BY <1>9, <2>1, <2>2, <2>3 DEF OfferTurn, KernelInv, ActiveKnown, RunningIsActive
  <2>7. QED
    BY <2>1, <2>3, <2>4, <2>5, <2>6, KernelFrame, LedgerUnchanged DEF KernelInv
<1>10. ASSUME NEW p \in Proc, Yield(p) PROVE KernelInv'
  <2>1. /\ pc[p] = "propose" /\ mem[p] \in KernelState /\ mem[p].active = NoAction
        /\ stateFile # NoState /\ stateFile.active = NoAction
    BY <1>10 DEF Yield, TypeInv, ProcOK, FilesOK, KernelInv, Phase, Batch, Idling, Running, TryPc
  <2>2. /\ pc'[p] = "stepped" /\ mem'[p] = stateFile' /\ stateFile' # NoState
        /\ stateFile'.active = NoAction /\ job'[p] = job[p]
    BY <1>10, <2>1, StateUpdate, StateActive, StateAssumption DEF Yield, TypeInv, Locals
  <2>3. lock' = lock /\ actions' = actions /\ records' = records /\ Moves(p)
    BY <1>10, StepMoves DEF Yield, Step, TypeInv
  <2>4. Phase(p)'
    BY <2>1, <2>2, <2>3 DEF Phase, Idling, Running
  <2>5. Batch(p)'
    BY <2>1, <2>2, <2>3 DEF Batch, Running, RecordsOf, AlreadyExecuted, RecordFps
  <2>6. ActiveKnown' /\ RunningIsActive'
    BY <1>10, <2>1, <2>2, <2>3 DEF Yield, KernelInv, ActiveKnown, RunningIsActive
  <2>7. QED
    BY <2>1, <2>3, <2>4, <2>5, <2>6, KernelFrame, LedgerUnchanged DEF KernelInv
<1>11. ASSUME NEW p \in Proc, Activate(p) PROVE KernelInv'
  <2>1. /\ pc[p] = "proposed" /\ mem[p] \in KernelState /\ job[p].id \in DOMAIN actions /\ job[p].id \in ActionId
        /\ job[p].todo = <<>> /\ job[p].admitted = {} /\ actions[job[p].id].status = "proposed"
        /\ stateFile # NoState /\ stateFile.active = NoAction
    BY <1>11 DEF Activate, TypeInv, ProcOK, FilesOK, KernelInv, Phase, Batch, Idling, Running, TryPc, ActionsOK
  <2>2. /\ pc'[p] = "activated" /\ mem'[p] = stateFile' /\ stateFile' # NoState
        /\ stateFile'.active = job[p].id /\ job'[p] = job[p]
    <3> DEFINE s == [mem[p] EXCEPT !.active = job[p].id]
    <3>1. s \in KernelState /\ s.active = job[p].id
      BY <2>1, StateUpdate, StateActive
    <3>2. stateFile' = s /\ mem'[p] = s
      BY <1>11 DEF Activate, TypeInv, Locals
    <3>3. QED
      BY <1>11, <3>1, <3>2, StateAssumption DEF Activate, TypeInv, Locals
  <2>3. lock' = lock /\ actions' = actions /\ records' = records /\ Moves(p)
    BY <1>11, StepMoves DEF Activate, Step, TypeInv
  <2>4. Phase(p)'
    BY <2>1, <2>2, <2>3 DEF Phase, Idling, Running
  <2>5. Batch(p)'
    BY <2>1, <2>2, <2>3 DEF Batch, Running, RecordsOf, AlreadyExecuted, RecordFps
  <2>6. ActiveKnown' /\ RunningIsActive'
    BY <1>11, <2>1, <2>2, <2>3, ProcAssumption DEF Activate, KernelInv, ActiveKnown, RunningIsActive, ActionsOK, TypeInv, FilesOK
  <2>7. QED
    BY <2>1, <2>3, <2>4, <2>5, <2>6, KernelFrame, LedgerUnchanged DEF KernelInv
<1>12. ASSUME NEW p \in Proc, SaveDuplicate(p) PROVE KernelInv'
  <2>1. /\ pc[p] = "duplicate" /\ mem[p] \in KernelState /\ stateFile # NoState
        /\ stateFile.active = job[p].id /\ actions[job[p].id].status \in Terminal
    BY <1>12 DEF SaveDuplicate, TypeInv, ProcOK, FilesOK, KernelInv, Phase, Batch, Idling, Running, TryPc
  <2>2. /\ pc'[p] = "stepped" /\ mem'[p] = stateFile' /\ stateFile' # NoState
        /\ stateFile'.active = NoAction /\ job'[p] = job[p]
    BY <1>12, <2>1, StateUpdate, StateActive, StateAssumption DEF SaveDuplicate, TypeInv, Locals
  <2>3. lock' = lock /\ actions' = actions /\ records' = records /\ Moves(p)
    BY <1>12, StepMoves DEF SaveDuplicate, Step, TypeInv
  <2>4. Phase(p)'
    BY <2>1, <2>2, <2>3 DEF Phase, Idling, Running
  <2>5. Batch(p)'
    BY <2>1, <2>2, <2>3 DEF Batch, Running, RecordsOf, AlreadyExecuted, RecordFps
  <2>6. ActiveKnown' /\ RunningIsActive'
    BY <1>12, <2>1, <2>2, <2>3 DEF SaveDuplicate, KernelInv, ActiveKnown, RunningIsActive, Terminal
  <2>7. QED
    BY <2>1, <2>3, <2>4, <2>5, <2>6, KernelFrame, LedgerUnchanged DEF KernelInv
<1>13. ASSUME NEW p \in Proc, Execute(p) PROVE KernelInv'
  <2>1. /\ pc[p] = "executing" /\ mem[p] \in KernelState /\ job[p] \in Job
        /\ stateFile # NoState /\ stateFile.active = job[p].id /\ mem[p].active = job[p].id
        /\ actions[job[p].id].status = "running"
        /\ ~AlreadyExecuted(actions[job[p].id].fp)
        /\ job[p].admitted = RecordsOf(job[p].id) /\ job[p].todo = <<>>
    BY <1>13 DEF Execute, TypeInv, ProcOK, FilesOK, KernelInv, Phase, Batch, Idling, Running, TryPc
  <2>2. /\ pc'[p] = "screen" /\ mem'[p] = mem[p] /\ stateFile' = stateFile
        /\ job'[p].id = job[p].id /\ job'[p].todo = <<>> /\ job'[p].admitted = job[p].admitted
    <3>1. PICK n \in 0..MaxDrafts, drafts \in Seq(Drafts), patch \in BOOLEAN, error \in BOOLEAN :
            job' = [job EXCEPT ![p].drafts = drafts, ![p].patch = patch, ![p].error = error]
      <4>1. \A n \in 0..MaxDrafts : [1..n -> Drafts] \subseteq Seq(Drafts)
        BY BoundAssumption
      <4>2. QED
        BY <1>13, <4>1 DEF Execute
    <3>2. job'[p] = [job[p] EXCEPT !.drafts = drafts, !.patch = patch, !.error = error]
      BY <3>1 DEF TypeInv, Locals
    <3>3. /\ job'[p].id = job[p].id /\ job'[p].todo = job[p].todo
          /\ job'[p].admitted = job[p].admitted
      BY <2>1, <3>2 DEF Job
    <3>4. QED
      BY <1>13, <2>1, <3>3 DEF Execute, TypeInv, Locals
  <2>3. lock' = lock /\ actions' = actions /\ records' = records /\ Moves(p)
    BY <1>13, StepMoves DEF Execute, Step, TypeInv
  <2>4. Phase(p)'
    BY <2>1, <2>2, <2>3 DEF Phase, Idling, Running
  <2>5. Batch(p)'
    BY <2>1, <2>2, <2>3 DEF Batch, Running, RecordsOf, AlreadyExecuted, RecordFps
  <2>6. ActiveKnown' /\ RunningIsActive'
    BY <1>13, <2>1, <2>2, <2>3 DEF Execute, KernelInv, ActiveKnown, RunningIsActive
  <2>7. QED
    BY <2>1, <2>3, <2>4, <2>5, <2>6, KernelFrame, LedgerUnchanged DEF KernelInv
<1>14. ASSUME NEW p \in Proc, Screen(p) PROVE KernelInv'
  <2>1. /\ pc[p] = "screen" /\ mem[p] \in KernelState /\ job[p] \in Job
        /\ stateFile # NoState /\ stateFile.active = job[p].id /\ mem[p].active = job[p].id
        /\ actions[job[p].id].status = "running"
        /\ ~AlreadyExecuted(actions[job[p].id].fp)
        /\ job[p].admitted = RecordsOf(job[p].id)
    BY <1>14 DEF Screen, TypeInv, ProcOK, FilesOK, KernelInv, Phase, Batch, Idling, Running, TryPc
  <2>2. /\ pc'[p] = "screen" /\ mem'[p] = mem[p] /\ stateFile' = stateFile
        /\ job'[p].id = job[p].id /\ job'[p].admitted = job[p].admitted
        /\ job'[p].todo = LET d == Head(job[p].drafts)
                              todo == job[p].todo
                          IN IF Admissible(d, todo) THEN Append(todo, d) ELSE todo
    <3> DEFINE d == Head(job[p].drafts)
    <3> DEFINE todo == job[p].todo
    <3>1. job'[p] = [job[p] EXCEPT !.drafts = Tail(job[p].drafts),
                                   !.todo = IF Admissible(d, todo) THEN Append(todo, d) ELSE todo]
      BY <1>14, <2>1 DEF Screen, TypeInv, Locals
    <3>2. /\ job'[p].id = job[p].id /\ job'[p].admitted = job[p].admitted
          /\ job'[p].todo = IF Admissible(d, todo) THEN Append(todo, d) ELSE todo
      BY <2>1, <3>1 DEF Job
    <3>3. QED
      BY <1>14, <2>1, <3>2 DEF Screen, TypeInv, Locals
  <2>3. lock' = lock /\ actions' = actions /\ records' = records /\ Moves(p)
    BY <1>14, StepMoves DEF Screen, Step, TypeInv
  <2>4. Phase(p)'
    BY <2>1, <2>2, <2>3 DEF Phase, Idling, Running
  <2>5. Batch(p)'
    <3> DEFINE d == Head(job[p].drafts)
    <3> DEFINE todo == job[p].todo
    <3>1. todo \in Seq(Drafts) /\ d \in Drafts
      BY <1>14, <2>1 DEF Screen, Job
    <3>2. /\ \A k, l \in DOMAIN todo : todo[k].fp = todo[l].fp => k = l
          /\ \A k \in DOMAIN todo :
               todo[k].fp \notin RecordFps /\ todo[k].parents \subseteq DOMAIN records
      BY <2>1 DEF KernelInv, Batch
    <3>3. CASE Admissible(d, todo)
      <4>1. job'[p].todo = Append(todo, d)
        BY <2>2, <3>3
      <4> DEFINE more == Append(todo, d)
      <4>2. /\ DOMAIN more = DOMAIN todo \cup {Len(todo) + 1}
            /\ more[Len(todo) + 1] = d
            /\ \A k \in DOMAIN todo : more[k] = todo[k]
        BY <3>1
      <4>3. /\ d.parents \subseteq DOMAIN records /\ d.fp \notin RecordFps
            /\ \A k \in DOMAIN todo : todo[k].fp # d.fp
        BY <3>3 DEF Admissible
      <4> HIDE DEF more
      <4>4. /\ \A k, l \in DOMAIN more : more[k].fp = more[l].fp => k = l
            /\ \A k \in DOMAIN more :
                 more[k].fp \notin RecordFps /\ more[k].parents \subseteq DOMAIN records
        BY <3>2, <4>2, <4>3
      <4>5. job'[p].todo = more
        BY <4>1 DEF more
      <4>6. RecordFps' = RecordFps /\ RecordsOf(job[p].id)' = RecordsOf(job[p].id)
        BY <2>2, <2>3 DEF RecordFps, RecordsOf
      <4>7. AlreadyExecuted(actions[job[p].id].fp)' = AlreadyExecuted(actions[job[p].id].fp)
        BY <2>2, <2>3 DEF AlreadyExecuted
      <4>8. QED
        BY <2>1, <2>2, <2>3, <4>4, <4>5, <4>6, <4>7 DEF Batch, Running
    <3>4. CASE ~Admissible(d, todo)
      BY <2>1, <2>2, <2>3, <3>2, <3>4 DEF Batch, Running, RecordsOf, AlreadyExecuted, RecordFps
    <3>5. QED
      BY <3>3, <3>4
  <2>6. ActiveKnown' /\ RunningIsActive'
    BY <1>14, <2>1, <2>2, <2>3 DEF Screen, KernelInv, ActiveKnown, RunningIsActive
  <2>7. QED
    BY <2>1, <2>3, <2>4, <2>5, <2>6, KernelFrame, LedgerUnchanged DEF KernelInv
<1>15. ASSUME NEW p \in Proc, EndScreen(p) PROVE KernelInv'
  <2>1. /\ pc[p] = "screen" /\ mem[p] \in KernelState /\ Batch(p)
        /\ stateFile # NoState /\ stateFile.active = job[p].id /\ mem[p].active = job[p].id
        /\ actions[job[p].id].status = "running"
        /\ ~AlreadyExecuted(actions[job[p].id].fp)
        /\ job[p].admitted = RecordsOf(job[p].id)
    BY <1>15 DEF EndScreen, TypeInv, ProcOK, FilesOK, KernelInv, Phase, Batch, Idling, Running, TryPc
  <2>2. /\ pc'[p] = "append" /\ mem'[p] = mem[p] /\ stateFile' = stateFile
        /\ job'[p] = job[p]
    BY <1>15, <2>1, StateUpdate, StateActive, StateAssumption DEF EndScreen, TypeInv, Locals
  <2>3. lock' = lock /\ actions' = actions /\ records' = records /\ Moves(p)
    BY <1>15, StepMoves DEF EndScreen, Step, TypeInv
  <2>4. Phase(p)'
    BY <2>1, <2>2, <2>3 DEF Phase, Idling, Running
  <2>5. Batch(p)'
    BY <2>1, <2>2, <2>3 DEF Batch, Running, RecordsOf, AlreadyExecuted, RecordFps
  <2>6. ActiveKnown' /\ RunningIsActive'
    BY <1>15, <2>1, <2>2, <2>3 DEF EndScreen, KernelInv, ActiveKnown, RunningIsActive
  <2>7. QED
    BY <2>1, <2>3, <2>4, <2>5, <2>6, KernelFrame, LedgerUnchanged DEF KernelInv
<1>16. ASSUME NEW p \in Proc, SaveActor(p) PROVE KernelInv'
  <2>1. /\ pc[p] = "append" /\ mem[p] \in KernelState /\ Batch(p)
        /\ stateFile # NoState /\ stateFile.active = job[p].id /\ mem[p].active = job[p].id
        /\ actions[job[p].id].status = "running"
        /\ ~AlreadyExecuted(actions[job[p].id].fp)
        /\ job[p].admitted = RecordsOf(job[p].id)
    BY <1>16 DEF SaveActor, TypeInv, ProcOK, FilesOK, KernelInv, Phase, Batch, Idling, Running, TryPc
  <2>2. /\ pc'[p] = "patched" /\ mem'[p] = mem[p] /\ stateFile' = stateFile
        /\ job'[p] = job[p]
    BY <1>16, <2>1, StateUpdate, StateActive, StateAssumption DEF SaveActor, TypeInv, Locals
  <2>3. lock' = lock /\ actions' = actions /\ records' = records /\ Moves(p)
    BY <1>16, StepMoves DEF SaveActor, Step, TypeInv
  <2>4. Phase(p)'
    BY <2>1, <2>2, <2>3 DEF Phase, Idling, Running
  <2>5. Batch(p)'
    BY <2>1, <2>2, <2>3 DEF Batch, Running, RecordsOf, AlreadyExecuted, RecordFps
  <2>6. ActiveKnown' /\ RunningIsActive'
    BY <1>16, <2>1, <2>2, <2>3 DEF SaveActor, KernelInv, ActiveKnown, RunningIsActive
  <2>7. QED
    BY <2>1, <2>3, <2>4, <2>5, <2>6, KernelFrame, LedgerUnchanged DEF KernelInv
<1>17. ASSUME NEW p \in Proc, SaveCommit(p) PROVE KernelInv'
  <2>1. /\ pc[p] = "committed" /\ mem[p] \in KernelState /\ job[p] \in Job
        /\ stateFile # NoState /\ stateFile.active = job[p].id
        /\ actions[job[p].id].status \in Terminal
    BY <1>17 DEF SaveCommit, TypeInv, ProcOK, FilesOK, KernelInv, Phase, Batch, Idling, Running, TryPc
  <2>2. /\ pc'[p] = "announce" /\ mem'[p] = stateFile' /\ stateFile' # NoState
        /\ stateFile'.active = NoAction /\ job'[p] = job[p]
    BY <1>17, <2>1, StateUpdate, StateActive, StateAssumption DEF SaveCommit, TypeInv, Locals
  <2>3. lock' = lock /\ actions' = actions /\ records' = records /\ Moves(p)
    BY <1>17, StepMoves DEF SaveCommit, Step, TypeInv
  <2>4. Phase(p)'
    BY <2>1, <2>2, <2>3 DEF Phase, Idling, Running
  <2>5. Batch(p)'
    BY <2>1, <2>2, <2>3 DEF Batch, Running, RecordsOf, AlreadyExecuted, RecordFps
  <2>6. ActiveKnown' /\ RunningIsActive'
    BY <1>17, <2>1, <2>2, <2>3 DEF SaveCommit, KernelInv, ActiveKnown, RunningIsActive, Terminal
  <2>7. QED
    BY <2>1, <2>3, <2>4, <2>5, <2>6, KernelFrame, LedgerUnchanged DEF KernelInv
<1>18. ASSUME NEW p \in Proc, EndStep(p) PROVE KernelInv'
  <2>1. /\ pc[p] \in {"stepped", "announce"} /\ mem[p] \in KernelState
        /\ mem[p].active = NoAction /\ stateFile # NoState /\ stateFile.active = NoAction
    BY <1>18 DEF EndStep, TypeInv, ProcOK, FilesOK, KernelInv, Phase, Batch, Idling, Running, TryPc
  <2>2. /\ pc'[p] \in {"exit", "loop"} /\ mem'[p].active = NoAction /\ stateFile' # NoState
        /\ stateFile'.active = NoAction
    <3>1. CASE mem[p].idle >= Len(job[p].subs)
      <4> DEFINE s == [mem[p] EXCEPT !.phase = "idle"]
      <4>1. s \in KernelState /\ s.active = NoAction
        BY <2>1, StateUpdate, StateActive
      <4>2. stateFile' = s /\ mem'[p] = s
        BY <1>18, <3>1 DEF EndStep, TypeInv, Locals
      <4>3. QED
        BY <1>18, <3>1, <4>1, <4>2, StateAssumption DEF EndStep, TypeInv, Locals
    <3>2. CASE ~(mem[p].idle >= Len(job[p].subs))
      BY <1>18, <2>1, <3>2 DEF EndStep, TypeInv, Locals
    <3>3. QED
      BY <3>1, <3>2
  <2>3. lock' = lock /\ actions' = actions /\ records' = records /\ Moves(p)
    BY <1>18, StepMoves DEF EndStep, Step, TypeInv
  <2>4. Phase(p)'
    BY <2>1, <2>2, <2>3 DEF Phase, Idling, Running
  <2>5. Batch(p)'
    BY <2>1, <2>2, <2>3 DEF Batch, Running, RecordsOf, AlreadyExecuted, RecordFps
  <2>6. ActiveKnown' /\ RunningIsActive'
    BY <1>18, <2>1, <2>2, <2>3 DEF EndStep, KernelInv, ActiveKnown, RunningIsActive
  <2>7. QED
    BY <2>1, <2>3, <2>4, <2>5, <2>6, KernelFrame, LedgerUnchanged DEF KernelInv
<1>19. ASSUME NEW p \in Proc, SaveFailure(p) PROVE KernelInv'
  <2>1. /\ pc[p] = "handled" /\ mem[p] \in KernelState /\ stateFile # NoState
        /\ \A b \in DOMAIN actions : actions[b].status # "running"
    BY <1>19 DEF SaveFailure, TypeInv, ProcOK, FilesOK, KernelInv, Phase, Batch, Idling, Running, TryPc
  <2>2. /\ pc'[p] = "stepped" /\ mem'[p] = stateFile' /\ stateFile' # NoState
        /\ stateFile'.active = NoAction /\ job'[p] = job[p]
    BY <1>19, <2>1, StateUpdate, StateActive, StateAssumption DEF SaveFailure, TypeInv, Locals
  <2>3. lock' = lock /\ actions' = actions /\ records' = records /\ Moves(p)
    BY <1>19, StepMoves DEF SaveFailure, Handle, TypeInv
  <2>4. Phase(p)'
    BY <2>1, <2>2, <2>3 DEF Phase, Idling, Running
  <2>5. Batch(p)'
    BY <2>1, <2>2, <2>3 DEF Batch, Running, RecordsOf, AlreadyExecuted, RecordFps
  <2>6. ActiveKnown' /\ RunningIsActive'
    BY <1>19, <2>1, <2>2, <2>3 DEF SaveFailure, KernelInv, ActiveKnown, RunningIsActive
  <2>7. QED
    BY <2>1, <2>3, <2>4, <2>5, <2>6, KernelFrame, LedgerUnchanged DEF KernelInv
<1>20. ASSUME NEW p \in Proc, Interrupt(p) PROVE KernelInv'
  <2> DEFINE a == mem[p].active
  <2> DEFINE row == [actions[a] EXCEPT !.status = "interrupted", !.summary = "before_outcome"]
  <2>1. /\ pc[p] = "interrupt" /\ mem[p] \in KernelState /\ job[p] \in Job /\ stateFile # NoState
        /\ a \in DOMAIN actions /\ a \in ActionId /\ actions[a] \in ActionRow
        /\ stateFile = mem[p] /\ actions[a].status \in {"proposed", "running"}
    BY <1>20, StateAssumption
    DEF Interrupt, TypeInv, FilesOK, ActionsOK, ProcOK, TryPc, KernelInv, Phase, Idling, Running
  <2>2. /\ AppendAction(a, row) /\ row \in ActionRow
        /\ row.status = "interrupted" /\ row.summary = "before_outcome"
    BY <1>20, <2>1 DEF Interrupt, ActionRow, Status, Terminal, Summary
  <2> HIDE DEF row
  <2>3. /\ DOMAIN actions' = DOMAIN actions \cup {a}
        /\ actions'[a] = row
        /\ \A b \in DOMAIN actions : b # a => actions'[b] = actions[b]
    BY <2>1, <2>2, AppendActionType DEF TypeInv, FilesOK
  <2>4. /\ pc'[p] = "clear" /\ mem'[p] = mem[p] /\ job'[p] = job[p] /\ stateFile' = stateFile
        /\ lock' = lock /\ records' = records /\ Moves(p)
    BY <1>20, StepMoves DEF Interrupt, Initialize, TypeInv, Locals
  <2>5. LedgerInv'
    BY <2>1, <2>2, <2>4, RowChange DEF KernelInv, Committed
  <2>6. Phase(p)'
    BY <2>1, <2>2, <2>3, <2>4 DEF Phase, Idling, Running, Terminal
  <2>7. Batch(p)'
    BY <2>1, <2>2, <2>3, <2>4 DEF Batch, Running, RecordsOf, KernelInv
  <2>8. ActiveKnown' /\ RunningIsActive'
    BY <2>1, <2>2, <2>3, <2>4, ProcAssumption DEF KernelInv, ActiveKnown, RunningIsActive
  <2>9. QED
    BY <2>1, <2>4, <2>5, <2>6, <2>7, <2>8, KernelFrame
<1>21. ASSUME NEW p \in Proc, SkipDuplicate(p) PROVE KernelInv'
  <2> DEFINE a == job[p].id
  <2> DEFINE row == [actions[a] EXCEPT !.status = "duplicate", !.summary = "duplicate"]
  <2>1. /\ pc[p] = "activated" /\ mem[p] \in KernelState /\ job[p] \in Job /\ stateFile # NoState
        /\ a \in DOMAIN actions /\ a \in ActionId /\ actions[a] \in ActionRow
        /\ stateFile.active = a /\ mem[p].active = a /\ actions[a].status = "proposed"
    BY <1>21, StateAssumption
    DEF SkipDuplicate, TypeInv, FilesOK, ActionsOK, ProcOK, TryPc, KernelInv, Phase, Idling, Running
  <2>2. /\ AppendAction(a, row) /\ row \in ActionRow
        /\ row.status = "duplicate" /\ row.summary = "duplicate"
    BY <1>21, <2>1 DEF SkipDuplicate, ActionRow, Status, Terminal, Summary
  <2> HIDE DEF row
  <2>3. /\ DOMAIN actions' = DOMAIN actions \cup {a}
        /\ actions'[a] = row
        /\ \A b \in DOMAIN actions : b # a => actions'[b] = actions[b]
    BY <2>1, <2>2, AppendActionType DEF TypeInv, FilesOK
  <2>4. /\ pc'[p] = "duplicate" /\ mem'[p] = mem[p] /\ job'[p] = job[p] /\ stateFile' = stateFile
        /\ lock' = lock /\ records' = records /\ Moves(p)
    BY <1>21, StepMoves DEF SkipDuplicate, Step, TypeInv, Locals
  <2>10. RecordsOf(a) = {}
    BY <2>1 DEF KernelInv, LedgerInv, RecordsOwned, RecordsOf
  <2>5. LedgerInv'
    BY <2>1, <2>2, <2>4, <2>10, RowChange DEF KernelInv, Committed
  <2>6. Phase(p)'
    BY <2>1, <2>2, <2>3, <2>4 DEF Phase, Idling, Running, Terminal
  <2>7. Batch(p)'
    BY <2>1, <2>2, <2>3, <2>4 DEF Batch, Running, RecordsOf, KernelInv
  <2>8. ActiveKnown' /\ RunningIsActive'
    BY <2>1, <2>2, <2>3, <2>4, ProcAssumption DEF KernelInv, ActiveKnown, RunningIsActive
  <2>9. QED
    BY <2>1, <2>4, <2>5, <2>6, <2>7, <2>8, KernelFrame
<1>22. ASSUME NEW p \in Proc, Begin(p) PROVE KernelInv'
  <2> DEFINE a == job[p].id
  <2> DEFINE row == [actions[a] EXCEPT !.status = "running"]
  <2>1. /\ pc[p] = "activated" /\ mem[p] \in KernelState /\ job[p] \in Job /\ stateFile # NoState
        /\ a \in DOMAIN actions /\ a \in ActionId /\ actions[a] \in ActionRow
        /\ stateFile.active = a /\ mem[p].active = a /\ actions[a].status = "proposed"
        /\ actions[a].summary = "none" /\ ~AlreadyExecuted(actions[a].fp)
        /\ job[p].todo = <<>> /\ job[p].admitted = {}
    BY <1>22, StateAssumption
    DEF Begin, TypeInv, FilesOK, ActionsOK, ProcOK, TryPc, KernelInv, Phase, Batch, Idling, Running,
        LedgerInv, OpenUndecided
  <2>2. /\ AppendAction(a, row) /\ row \in ActionRow
        /\ row.status = "running" /\ row.summary = "none" /\ row.fp = actions[a].fp
    BY <1>22, <2>1 DEF Begin, ActionRow, Status, Terminal, Summary
  <2> HIDE DEF row
  <2>3. /\ DOMAIN actions' = DOMAIN actions \cup {a}
        /\ actions'[a] = row
        /\ \A b \in DOMAIN actions : b # a => actions'[b] = actions[b]
    BY <2>1, <2>2, AppendActionType DEF TypeInv, FilesOK
  <2>4. /\ pc'[p] = "executing" /\ mem'[p] = mem[p] /\ job'[p] = job[p] /\ stateFile' = stateFile
        /\ lock' = lock /\ records' = records /\ Moves(p)
    BY <1>22, StepMoves DEF Begin, Step, TypeInv, Locals
  <2>10. RecordsOf(a) = {}
    BY <2>1 DEF KernelInv, LedgerInv, RecordsOwned, RecordsOf
  <2>5. LedgerInv'
    BY <2>1, <2>2, <2>4, <2>10, RowChange DEF KernelInv, Committed
  <2>6. Phase(p)'
    BY <2>1, <2>2, <2>3, <2>4 DEF Phase, Idling, Running, Terminal
  <2>7. Batch(p)'
    <3>1. \A b \in DOMAIN actions' :
            ~(actions'[b].fp = actions'[a].fp /\ actions'[b].status \in Committed)
      BY <2>1, <2>2, <2>3 DEF AlreadyExecuted, Committed
    <3>2. ~AlreadyExecuted(actions[job[p].id].fp)'
      BY <2>4, <3>1 DEF AlreadyExecuted
    <3>3. QED
      BY <2>1, <2>4, <2>10, <3>2 DEF Batch, Running, RecordsOf
  <2>8. ActiveKnown' /\ RunningIsActive'
    BY <2>1, <2>2, <2>3, <2>4, ProcAssumption DEF KernelInv, ActiveKnown, RunningIsActive
  <2>9. QED
    BY <2>1, <2>4, <2>5, <2>6, <2>7, <2>8, KernelFrame
<1>23. ASSUME NEW p \in Proc, CommitAction(p) PROVE KernelInv'
  <2> DEFINE a == job[p].id
  <2> DEFINE row == [actions[a] EXCEPT !.status = OutcomeStatus(job[p]),
                           !.summary = "outcome", !.admitted = job[p].admitted]
  <2>1. /\ pc[p] = "patched" /\ mem[p] \in KernelState /\ job[p] \in Job /\ stateFile # NoState
        /\ a \in DOMAIN actions /\ a \in ActionId /\ actions[a] \in ActionRow
        /\ stateFile.active = a /\ mem[p].active = a /\ actions[a].status = "running"
        /\ ~AlreadyExecuted(actions[a].fp) /\ job[p].admitted = RecordsOf(a)
    BY <1>23, StateAssumption
    DEF CommitAction, TypeInv, FilesOK, ActionsOK, ProcOK, TryPc, KernelInv, Phase, Batch, Idling, Running
  <2>2. /\ AppendAction(a, row) /\ row \in ActionRow
        /\ row.status = OutcomeStatus(job[p]) /\ row.summary = "outcome" /\ row.fp = actions[a].fp
        /\ row.admitted = RecordsOf(a) /\ row.status \in {"failed", "succeeded", "no_progress"}
        /\ row.status = "no_progress" => RecordsOf(a) = {}
    <3>1. /\ OutcomeStatus(job[p]) \in {"failed", "succeeded", "no_progress"}
          /\ OutcomeStatus(job[p]) = "no_progress" => job[p].admitted = {}
          /\ job[p].admitted \in SUBSET Nat
      BY <2>1 DEF OutcomeStatus, Job
    <3>2. QED
      BY <1>23, <2>1, <3>1 DEF CommitAction, ActionRow, Status, Terminal, Summary
  <2> HIDE DEF row
  <2>3. /\ DOMAIN actions' = DOMAIN actions \cup {a}
        /\ actions'[a] = row
        /\ \A b \in DOMAIN actions : b # a => actions'[b] = actions[b]
    BY <2>1, <2>2, AppendActionType DEF TypeInv, FilesOK
  <2>4. /\ pc'[p] = "committed" /\ mem'[p] = mem[p] /\ job'[p] = job[p] /\ stateFile' = stateFile
        /\ lock' = lock /\ records' = records /\ Moves(p)
    BY <1>23, StepMoves DEF CommitAction, Step, TypeInv, Locals
  <2>5. LedgerInv'
    BY <2>1, <2>2, <2>4, RowChange DEF KernelInv, Committed
  <2>6. Phase(p)'
    BY <2>1, <2>2, <2>3, <2>4 DEF Phase, Idling, Running, Terminal
  <2>7. Batch(p)'
    BY <2>1, <2>2, <2>3, <2>4 DEF Batch, Running, RecordsOf, KernelInv
  <2>8. ActiveKnown' /\ RunningIsActive'
    BY <2>1, <2>2, <2>3, <2>4, ProcAssumption DEF KernelInv, ActiveKnown, RunningIsActive
  <2>9. QED
    BY <2>1, <2>4, <2>5, <2>6, <2>7, <2>8, KernelFrame
<1>24. ASSUME NEW p \in Proc, Propose(p) PROVE KernelInv'
  <2>1. /\ pc[p] = "propose" /\ mem[p].active = NoAction /\ job[p] \in Job
        /\ stateFile # NoState /\ stateFile.active = NoAction
        /\ job[p].todo = <<>> /\ job[p].admitted = {}
    BY <1>24 DEF Propose, TypeInv, ProcOK, KernelInv, Phase, Batch, Idling
  <2>2. PICK a \in ActionId \ DOMAIN actions, fp \in ActionFp :
          /\ AppendAction(a, [fp |-> fp, status |-> "proposed",
                              summary |-> "none", admitted |-> {}])
          /\ job' = [job EXCEPT ![p].id = a]
    BY <1>24 DEF Propose
  <2> DEFINE row == [fp |-> fp, status |-> "proposed", summary |-> "none", admitted |-> {}]
  <2>3. /\ row \in ActionRow /\ AppendAction(a, row)
        /\ row.status = "proposed" /\ row.summary = "none"
    BY <2>2 DEF ActionRow, Status, Summary
  <2> HIDE DEF row
  <2>4. /\ DOMAIN actions' = DOMAIN actions \cup {a}
        /\ actions'[a] = row
        /\ \A b \in DOMAIN actions : b # a => actions'[b] = actions[b]
    BY <2>3, AppendActionType DEF TypeInv, FilesOK
  <2>5. job'[p].id = a /\ job'[p].todo = <<>> /\ job'[p].admitted = {}
    BY <2>1, <2>2 DEF TypeInv, Locals, Job
  <2>6. /\ pc'[p] = "proposed" /\ mem'[p] = mem[p] /\ stateFile' = stateFile
        /\ lock' = lock /\ records' = records /\ Moves(p)
    BY <1>24, StepMoves DEF Propose, Step, TypeInv, Locals
  <2>7. RecordsOf(a) = {}
    BY <2>2 DEF KernelInv, LedgerInv, RecordsOwned, RecordsOf
  <2>8. LedgerInv'
    BY <2>2, <2>3, <2>6, <2>7, RowChange DEF KernelInv, Committed
  <2>9. Phase(p)'
    BY <2>1, <2>3, <2>4, <2>5, <2>6 DEF Phase, Idling, Running
  <2>10. Batch(p)'
    BY <2>5, <2>6 DEF Batch, Running
  <2>11. ActiveKnown' /\ RunningIsActive'
    BY <2>1, <2>2, <2>3, <2>4, <2>6 DEF KernelInv, ActiveKnown, RunningIsActive
  <2>12. QED
    BY <2>1, <2>6, <2>8, <2>9, <2>10, <2>11, KernelFrame
<1>25. ASSUME NEW p \in Proc, FailAction(p) PROVE KernelInv'
  <2> DEFINE a == mem[p].active
  <2> DEFINE row == [actions[a] EXCEPT !.status = "failed", !.summary = "before_record"]
  <2>1. /\ pc[p] = "handler" /\ mem[p] \in KernelState /\ stateFile # NoState
        /\ a # NoAction => a \in DOMAIN actions /\ actions[a].status \in {"proposed", "running"}
        /\ \A b \in DOMAIN actions : actions[b].status = "running" => b = a
    BY <1>25 DEF FailAction, TypeInv, ProcOK, KernelInv, Phase
  <2>2. /\ pc'[p] = "handled" /\ stateFile' = stateFile
        /\ lock' = lock /\ records' = records /\ Moves(p)
    BY <1>25, StepMoves DEF FailAction, Handle, TypeInv, Locals
  <2>3. Batch(p)'
    BY <2>2 DEF Batch, Running
  <2>4. CASE a \in DOMAIN actions
    <3>1. /\ AppendAction(a, row) /\ row \in ActionRow /\ a \in ActionId
          /\ row.status = "failed" /\ row.summary = "before_record"
      <4>1. actions[a] \in ActionRow /\ a \in ActionId
        BY <2>4 DEF TypeInv, FilesOK, ActionsOK
      <4>2. row \in ActionRow
        BY <4>1, RowUpdate DEF Status, Terminal, Summary
      <4>3. row.status = "failed" /\ row.summary = "before_record"
        BY <4>1 DEF ActionRow
      <4>4. AppendAction(a, row)
        BY <1>25, <2>4 DEF FailAction
      <4>5. QED
        BY <4>1, <4>2, <4>3, <4>4
    <3>2. a # NoAction
      BY <3>1, ProcAssumption
    <3> HIDE DEF row
    <3>3. /\ DOMAIN actions' = DOMAIN actions \cup {a}
          /\ actions'[a] = row
          /\ \A b \in DOMAIN actions : b # a => actions'[b] = actions[b]
      BY <3>1, AppendActionType DEF TypeInv, FilesOK
    <3>4. LedgerInv'
      BY <2>1, <2>2, <3>1, <3>2, RowChange DEF KernelInv, Committed
    <3>5. \A b \in DOMAIN actions' : actions'[b].status # "running"
      BY <2>1, <3>1, <3>3
    <3>6. Phase(p)' /\ ActiveKnown' /\ RunningIsActive'
      BY <2>1, <2>2, <3>3, <3>5 DEF Phase, Idling, Running, ActiveKnown, RunningIsActive, KernelInv
    <3>7. QED
      BY <2>1, <2>2, <2>3, <3>4, <3>6, KernelFrame
  <2>5. CASE a \notin DOMAIN actions
    <3>1. actions' = actions /\ \A b \in DOMAIN actions : actions[b].status # "running"
      BY <1>25, <2>1, <2>5 DEF FailAction
    <3>2. Phase(p)' /\ ActiveKnown' /\ RunningIsActive'
      BY <2>1, <2>2, <3>1 DEF Phase, Idling, Running, ActiveKnown, RunningIsActive, KernelInv
    <3>3. QED
      BY <2>1, <2>2, <2>3, <3>1, <3>2, KernelFrame, LedgerUnchanged DEF KernelInv
  <2>6. QED
    BY <2>4, <2>5
<1>26. ASSUME NEW p \in Proc, AppendRecord(p) PROVE KernelInv'
  <2> DEFINE i == job[p].id
  <2> DEFINE todo == job[p].todo
  <2> DEFINE d == Head(todo)
  <2> DEFINE rec == [fp |-> d.fp, parents |-> d.parents, action |-> i]
  <2>1. /\ pc[p] = "append" /\ job[p] \in Job /\ todo \in Seq(Drafts) /\ todo # <<>>
        /\ i \in DOMAIN actions /\ records \in Seq(Record)
        /\ stateFile # NoState /\ stateFile.active = i /\ mem[p].active = i
        /\ actions[i].status = "running" /\ ~AlreadyExecuted(actions[i].fp)
        /\ job[p].admitted = RecordsOf(i)
        /\ \A m, n \in DOMAIN todo : todo[m].fp = todo[n].fp => m = n
        /\ \A m \in DOMAIN todo :
             todo[m].fp \notin RecordFps /\ todo[m].parents \subseteq DOMAIN records
    BY <1>26 DEF AppendRecord, TypeInv, FilesOK, ProcOK, TryPc, Job, KernelInv, Phase, Batch,
       Running
  <2>2. /\ pc'[p] = "append" /\ mem'[p] = mem[p] /\ stateFile' = stateFile /\ lock' = lock
        /\ actions' = actions /\ Moves(p) /\ records' = Append(records, rec)
    BY <1>26, StepMoves DEF AppendRecord, Step, TypeInv, Locals
  <2>3. job'[p].id = i /\ job'[p].todo = Tail(todo)
        /\ job'[p].admitted = job[p].admitted \cup {Len(records) + 1}
    BY <1>26, <2>1 DEF AppendRecord, TypeInv, Locals, Job
  <2>4. 1 \in DOMAIN todo /\ d = todo[1]
    BY <2>1
  <2>5. d.fp \notin RecordFps /\ d.parents \subseteq DOMAIN records
    BY <2>1, <2>4
  <2>6. /\ rec.fp = d.fp /\ rec.parents = d.parents /\ rec.action = i
    OBVIOUS
  <2> HIDE DEF rec, d
  <2>7. /\ DOMAIN records = 1..Len(records) /\ Len(records) \in Nat
        /\ DOMAIN records' = 1..(Len(records) + 1)
        /\ records'[Len(records) + 1] = rec
        /\ \A k \in DOMAIN records : records'[k] = records[k]
    BY <2>1, <2>2
  <2>8. RecordsUnique'
    BY <2>5, <2>6, <2>7 DEF KernelInv, LedgerInv, RecordsUnique, RecordFps
  <2>9. ParentsEarlier'
    BY <2>5, <2>6, <2>7 DEF KernelInv, LedgerInv, ParentsEarlier
  <2>10. RecordsOwned'
    BY <2>1, <2>2, <2>6, <2>7 DEF KernelInv, LedgerInv, RecordsOwned
  <2>11. OutcomeNamesRecords'
    <3>1. actions[i].summary = "none"
      BY <2>1 DEF KernelInv, LedgerInv, OpenUndecided
    <3>2. \A a \in DOMAIN actions : a # i => RecordsOf(a)' = RecordsOf(a)
      BY <2>6, <2>7 DEF RecordsOf
    <3>3. QED
      BY <2>2, <3>1, <3>2 DEF KernelInv, LedgerInv, OutcomeNamesRecords, RecordsOf
  <2>12. LedgerInv'
    BY <2>2, <2>8, <2>9, <2>10, <2>11 DEF KernelInv, LedgerInv, CommittedOnce, OpenUndecided
  <2>13. Phase(p)' /\ ActiveKnown' /\ RunningIsActive'
    BY <2>1, <2>2, <2>3 DEF Phase, Idling, Running, KernelInv, ActiveKnown, RunningIsActive
  <2>14. Batch(p)'
    <3>1. RecordsOf(job[p].id)' = RecordsOf(i) \cup {Len(records) + 1}
      BY <2>3, <2>6, <2>7 DEF RecordsOf
    <3>2. RecordFps' = RecordFps \cup {d.fp}
      BY <2>6, <2>7 DEF RecordFps
    <3>3. /\ Tail(todo) \in Seq(Drafts)
          /\ \A m \in DOMAIN Tail(todo) : m + 1 \in DOMAIN todo /\ Tail(todo)[m] = todo[m + 1]
      BY <2>1
    <3>4. \A m, n \in DOMAIN Tail(todo) : Tail(todo)[m].fp = Tail(todo)[n].fp => m = n
      <4>1. SUFFICES ASSUME NEW m \in DOMAIN Tail(todo), NEW n \in DOMAIN Tail(todo),
                            Tail(todo)[m].fp = Tail(todo)[n].fp
                     PROVE  m = n
        OBVIOUS
      <4>2. m \in Nat /\ n \in Nat
        BY <3>3
      <4>3. todo[m + 1].fp = todo[n + 1].fp
        BY <3>3, <4>1
      <4>4. m + 1 = n + 1
        BY <2>1, <3>3, <4>3
      <4>5. QED
        BY <4>2, <4>4
    <3>5. \A m \in DOMAIN Tail(todo) :
            /\ Tail(todo)[m].fp \notin RecordFps \cup {d.fp}
            /\ Tail(todo)[m].parents \subseteq DOMAIN records'
      <4>1. \A m \in DOMAIN Tail(todo) : m + 1 # 1
        BY <3>3
      <4>2. QED
        BY <2>1, <2>4, <2>7, <3>3, <4>1
    <3>6. ~AlreadyExecuted(actions[job[p].id].fp)'
      BY <2>1, <2>2, <2>3 DEF AlreadyExecuted
    <3>7. QED
      BY <2>1, <2>2, <2>3, <3>1, <3>2, <3>4, <3>5, <3>6 DEF Batch, Running
  <2>15. QED
    BY <2>1, <2>2, <2>12, <2>13, <2>14, KernelFrame
<1>27. ASSUME NEW p \in Proc, Raise(p) PROVE KernelInv'
  <2>1. /\ pc[p] \in TryPc /\ mem[p] \in KernelState /\ job[p] \in Job /\ stateFile # NoState
        /\ Phase(p)
        /\ pc[p] # "propose" => job[p].id \in DOMAIN actions /\ job[p].id \in ActionId
    BY <1>27 DEF Raise, TypeInv, FilesOK, ActionsOK, ProcOK, KernelInv, Phase, TryPc, Idling,
       Running
  <2>2. /\ pc'[p] = "handler" /\ stateFile' = stateFile /\ lock' = lock
        /\ actions' = actions /\ records' = records /\ Moves(p)
    BY <1>27, StepMoves DEF Raise, Handle, TypeInv, Locals
  <2>3. mem'[p] \in StateWhenRaised(p)
    BY <1>27 DEF Raise, TypeInv, Locals
  <2>4. mem'[p].active = IF pc[p] \in {"propose", "duplicate", "committed", "announce"}
                         THEN NoAction ELSE job[p].id
    <3>0. /\ [mem[p] EXCEPT !.idle = @ + 1].active = mem[p].active
          /\ Unproductive(mem[p]).active = NoAction
          /\ AfterCommit(mem[p], job[p]).active = NoAction
          /\ [mem[p] EXCEPT !.active = job[p].id].active = job[p].id
      BY <2>1 DEF KernelState, Unproductive, AfterCommit
    <3>1. CASE pc[p] \in {"propose", "duplicate", "committed"}
      <4>1. CASE pc[p] = "propose"
        BY <2>1, <2>3, <3>0, <4>1 DEF StateWhenRaised, Phase, Idling
      <4>2. CASE pc[p] = "duplicate"
        BY <2>3, <3>0, <4>2 DEF StateWhenRaised
      <4>3. CASE pc[p] = "committed"
        BY <2>3, <3>0, <4>3 DEF StateWhenRaised
      <4>4. QED
        BY <3>1, <4>1, <4>2, <4>3
    <3>2. CASE pc[p] = "proposed"
      BY <2>3, <3>0, <3>2 DEF StateWhenRaised
    <3>3. CASE pc[p] \in TryPc \ {"propose", "proposed", "duplicate", "committed"}
      <4>1. mem'[p] = mem[p]
        BY <2>3, <3>3 DEF StateWhenRaised
      <4>2. QED
        BY <2>1, <3>3, <4>1 DEF Phase, TryPc, Idling, Running
    <3>4. QED
      BY <2>1, <3>1, <3>2, <3>3 DEF TryPc
  <2>5. \A b \in DOMAIN actions : actions[b].status = "running" => b = mem'[p].active
    <3> SUFFICES ASSUME NEW b \in DOMAIN actions, actions[b].status = "running"
                 PROVE  b = mem'[p].active
      OBVIOUS
    <3>1. stateFile.active = b /\ b # NoAction
      BY ProcAssumption DEF KernelInv, RunningIsActive, TypeInv, FilesOK, ActionsOK
    <3>2. QED
      BY <2>1, <2>4, <3>1 DEF Phase, TryPc, Idling, Running, Terminal
  <2>6. mem'[p].active # NoAction =>
          /\ mem'[p].active \in DOMAIN actions
          /\ actions[mem'[p].active].status \in {"proposed", "running"}
    BY <2>1, <2>4 DEF Phase, TryPc, Idling, Running
  <2>7. Phase(p)' /\ Batch(p)'
    BY <2>1, <2>2, <2>5, <2>6 DEF Phase, Batch, Idling, Running
  <2>8. ActiveKnown' /\ RunningIsActive'
    BY <2>2 DEF KernelInv, ActiveKnown, RunningIsActive
  <2>9. QED
    BY <2>1, <2>2, <2>7, <2>8, KernelFrame, LedgerUnchanged DEF KernelInv, TryPc
<1>28. ASSUME NEW p \in Proc, EndRun(p) \/ Crash(p) PROVE KernelInv'
  <2>1. Leave(p) /\ pc[p] # "down" /\ UNCHANGED <<stateFile, actions, records>>
    BY <1>28 DEF EndRun, Crash
  <2>2. \A q \in Proc : pc'[q] = "down"
    BY <2>1 DEF Leave, TypeInv, Locals, KernelInv, LockInv
  <2>3. LockInv' /\ \A q \in Proc : Phase(q)' /\ Batch(q)'
    BY <2>2 DEF LockInv, Phase, Batch, Idling, Running
  <2>4. QED
    BY <2>1, <2>3, LedgerUnchanged DEF KernelInv, ActiveKnown, RunningIsActive
<1>29. CASE EditTask \/ UNCHANGED vars
  <2>1. UNCHANGED <<stateFile, actions, records, lock, pc, mem, job>>
    BY <1>29 DEF EditTask, vars, volatile
  <2>2. LockInv' /\ \A q \in Proc : Phase(q)' /\ Batch(q)'
    BY <2>1 DEF KernelInv, LockInv, Phase, Batch, RecordsOf, RecordFps, AlreadyExecuted
  <2>3. QED
    BY <2>1, <2>2, LedgerUnchanged DEF KernelInv, ActiveKnown, RunningIsActive
<1>30. ASSUME NEW p \in Proc, Initialize(p) PROVE KernelInv'
  BY <1>30, <1>2, <1>3, <1>4, <1>5, <1>6, <1>7, <1>8, <1>20, <1>28 DEF Initialize
<1>31. ASSUME NEW p \in Proc, Step(p) PROVE KernelInv'
  BY <1>31, <1>9, <1>10, <1>11, <1>12, <1>13, <1>14, <1>15, <1>16, <1>17, <1>18, <1>21, <1>22,
     <1>23, <1>24, <1>26, <1>28 DEF Step
<1>32. ASSUME NEW p \in Proc, Handle(p) PROVE KernelInv'
  BY <1>32, <1>19, <1>25, <1>27 DEF Handle
<1>33. ASSUME NEW p \in Runners, StartRun(p) \/ Initialize(p) \/ Step(p) \/ Handle(p) \/ Crash(p)
       PROVE  KernelInv'
  <2>1. p \in Proc
    BY DEF Proc
  <2>2. QED
    BY <1>1, <1>28, <1>30, <1>31, <1>32, <1>33, <2>1
<1>34. QED
  BY <1>29, <1>33 DEF Next

-----------------------------------------------------------------------------
(***************************************************************************)
(* What follows                                                            *)
(***************************************************************************)
\* The invariant holds in every reachable state when nobody goes round the lock.
THEOREM KernelSafe == Spec => []KernelInv
<1>1. Init => TypeInv /\ KernelInv
  BY InitTypeInv, InitKernelInv
<1>2. TypeInv /\ KernelInv /\ [Next]_vars => TypeInv' /\ KernelInv'
  BY TypeInvInductive, KernelInvInductive
<1>3. QED
  BY <1>1, <1>2, PTL DEF Spec

\* CommittedOnce: no two committed actions have the same fingerprint, whatever was
\* interrupted, failed or repeated in between.
THEOREM CommittedOnceHolds == Spec => []CommittedOnce
<1>1. KernelInv => CommittedOnce
  BY DEF KernelInv, LedgerInv
<1>2. QED
  BY <1>1, KernelSafe, PTL

\* RecordsUnique: the records ledger holds no fingerprint twice, even after a batch that a
\* crash cut short is produced again.
THEOREM RecordsUniqueHolds == Spec => []RecordsUnique
<1>1. KernelInv => RecordsUnique
  BY DEF KernelInv, LedgerInv
<1>2. QED
  BY <1>1, KernelSafe, PTL

\* ParentsEarlier: a record's parents precede it, so the ledger is a well-founded graph.
THEOREM ParentsEarlierHolds == Spec => []ParentsEarlier
<1>1. KernelInv => ParentsEarlier
  BY DEF KernelInv, LedgerInv
<1>2. QED
  BY <1>1, KernelSafe, PTL

\* RecordsOwned and OutcomeNamesRecords: the two ledgers agree on which action admitted
\* which records.
THEOREM LedgersAgree ==
  Spec => [](RecordsOwned /\ OutcomeNamesRecords)
<1>1. KernelInv => RecordsOwned /\ OutcomeNamesRecords
  BY DEF KernelInv, LedgerInv
<1>2. QED
  BY <1>1, KernelSafe, PTL

\* RunningIsActive: whatever instant a crash picks, the action it interrupts is the one the
\* state file names.
THEOREM RunningIsActiveHolds == Spec => []RunningIsActive
<1>1. KernelInv => RunningIsActive
  BY DEF KernelInv
<1>2. QED
  BY <1>1, KernelSafe, PTL

-----------------------------------------------------------------------------
(***************************************************************************)
(* Refinement: the kernel implements ResearchJournal, and never revises an *)
(* outcome.                                                                *)
(***************************************************************************)
\* The row of a, whose status is one of from, gets one of the statuses in to.
Rewrites(a, from, to) ==
  /\ a \in DOMAIN actions /\ actions[a].status \in from
  /\ \E row \in ActionRow :
       AppendAction(a, row) /\ row.fp = actions[a].fp /\ row.status \in to
  /\ records' = records

Declares(a) ==
  /\ a \notin DOMAIN actions
  /\ \E row \in ActionRow : AppendAction(a, row) /\ row.status = "proposed"
  /\ records' = records

Starts(a) ==
  /\ Rewrites(a, {"proposed"}, {"running"})
  /\ \A b \in DOMAIN actions : actions[b].status # "running"
  /\ ~AlreadyExecuted(actions[a].fp)

Admits(a) ==
  /\ a \in DOMAIN actions /\ actions[a].status = "running"
  /\ \E d \in Drafts :
       /\ d.fp \notin RecordFps /\ d.parents \subseteq DOMAIN records
       /\ records' = Append(records, [fp |-> d.fp, parents |-> d.parents, action |-> a])
  /\ actions' = actions

LedgerStep ==
  \/ actions' = actions /\ records' = records
  \/ \E a \in ActionId :
       \/ Declares(a)
       \/ Starts(a)
       \/ Admits(a)
       \/ Rewrites(a, {"running"}, Committed)
       \/ Rewrites(a, {"proposed", "running"}, Terminal \ Committed)

\* What any step of the system does to the two ledgers.
LEMMA LedgerSteps ==
  ASSUME TypeInv, KernelInv, [Next]_vars
  PROVE  LedgerStep
<1> USE DEF durable, bounds, SaveState
<1> DEFINE Quiet == actions' = actions /\ records' = records
<1>1. ASSUME NEW p \in Proc, Interrupt(p) PROVE LedgerStep
  <2> DEFINE a == mem[p].active
  <2> DEFINE row == [actions[a] EXCEPT !.status = "interrupted", !.summary = "before_outcome"]
  <2>1. /\ a \in DOMAIN actions /\ a \in ActionId /\ actions[a] \in ActionRow
        /\ actions[a].status \in {"proposed", "running"}
    BY <1>1 DEF Interrupt, TypeInv, FilesOK, ActionsOK, ProcOK, KernelInv, Phase
  <2>2. /\ AppendAction(a, row) /\ row \in ActionRow /\ row.fp = actions[a].fp
        /\ row.status = "interrupted" /\ records' = records
    BY <1>1, <2>1 DEF Interrupt, ActionRow, Status, Terminal, Summary
  <2> HIDE DEF row
  <2>3. Rewrites(a, {"proposed", "running"}, Terminal \ Committed)
    BY <2>1, <2>2 DEF Rewrites, Terminal, Committed
  <2>4. QED
    BY <2>1, <2>3 DEF LedgerStep
<1>2. ASSUME NEW p \in Proc, SkipDuplicate(p) PROVE LedgerStep
  <2> DEFINE a == job[p].id
  <2> DEFINE row == [actions[a] EXCEPT !.status = "duplicate", !.summary = "duplicate"]
  <2>1. /\ a \in DOMAIN actions /\ a \in ActionId /\ actions[a] \in ActionRow
        /\ actions[a].status = "proposed"
    BY <1>2 DEF SkipDuplicate, TypeInv, FilesOK, ActionsOK, ProcOK, TryPc, KernelInv, Phase
  <2>2. /\ AppendAction(a, row) /\ row \in ActionRow /\ row.fp = actions[a].fp
        /\ row.status = "duplicate" /\ records' = records
    BY <1>2, <2>1 DEF SkipDuplicate, ActionRow, Status, Terminal, Summary
  <2> HIDE DEF row
  <2>3. Rewrites(a, {"proposed", "running"}, Terminal \ Committed)
    BY <2>1, <2>2 DEF Rewrites, Terminal, Committed
  <2>4. QED
    BY <2>1, <2>3 DEF LedgerStep
<1>3. ASSUME NEW p \in Proc, Begin(p) PROVE LedgerStep
  <2> DEFINE a == job[p].id
  <2> DEFINE row == [actions[a] EXCEPT !.status = "running"]
  <2>1. /\ a \in DOMAIN actions /\ a \in ActionId /\ actions[a] \in ActionRow
        /\ actions[a].status = "proposed" /\ stateFile.active = a
    BY <1>3 DEF Begin, TypeInv, FilesOK, ActionsOK, ProcOK, TryPc, KernelInv, Phase
  <2>2. /\ AppendAction(a, row) /\ row \in ActionRow /\ row.fp = actions[a].fp
        /\ row.status = "running" /\ records' = records
    BY <1>3, <2>1 DEF Begin, ActionRow, Status
  <2> HIDE DEF row
  <2>3. Rewrites(a, {"proposed"}, {"running"})
    BY <2>1, <2>2 DEF Rewrites
  <2>4. \A b \in DOMAIN actions : actions[b].status # "running"
    BY <2>1 DEF KernelInv, RunningIsActive
  <2>5. ~AlreadyExecuted(actions[a].fp)
    BY <1>3 DEF Begin
  <2>6. QED
    BY <2>1, <2>3, <2>4, <2>5 DEF LedgerStep, Starts
<1>4. ASSUME NEW p \in Proc, CommitAction(p) PROVE LedgerStep
  <2> DEFINE a == job[p].id
  <2> DEFINE row == [actions[a] EXCEPT !.status = OutcomeStatus(job[p]),
                       !.summary = "outcome", !.admitted = job[p].admitted]
  <2>1. /\ a \in DOMAIN actions /\ a \in ActionId /\ actions[a] \in ActionRow
        /\ actions[a].status = "running" /\ job[p] \in Job
    BY <1>4 DEF CommitAction, TypeInv, FilesOK, ActionsOK, ProcOK, TryPc, KernelInv, Phase,
       Running
  <2>2. OutcomeStatus(job[p]) \in {"failed"} \cup Committed /\ job[p].admitted \in SUBSET Nat
    BY <2>1 DEF OutcomeStatus, Committed, Job
  <2>3. /\ AppendAction(a, row) /\ row \in ActionRow /\ row.fp = actions[a].fp
        /\ row.status = OutcomeStatus(job[p]) /\ records' = records
    BY <1>4, <2>1, <2>2 DEF CommitAction, ActionRow, Status, Terminal, Summary, Committed
  <2> HIDE DEF row
  <2>4. \/ Rewrites(a, {"running"}, Committed)
        \/ Rewrites(a, {"proposed", "running"}, Terminal \ Committed)
    BY <2>1, <2>2, <2>3 DEF Rewrites, Terminal, Committed
  <2>5. QED
    BY <2>1, <2>4 DEF LedgerStep
<1>5. ASSUME NEW p \in Proc, Propose(p) PROVE LedgerStep
  <2>1. PICK a \in ActionId \ DOMAIN actions, fp \in ActionFp :
          AppendAction(a, [fp |-> fp, status |-> "proposed",
                           summary |-> "none", admitted |-> {}])
    BY <1>5 DEF Propose
  <2> DEFINE row == [fp |-> fp, status |-> "proposed", summary |-> "none", admitted |-> {}]
  <2>2. row \in ActionRow /\ AppendAction(a, row) /\ row.status = "proposed"
    BY <2>1 DEF ActionRow, Status, Summary
  <2> HIDE DEF row
  <2>3. records' = records
    BY <1>5 DEF Propose
  <2>4. QED
    BY <2>2, <2>3 DEF LedgerStep, Declares
<1>6. ASSUME NEW p \in Proc, AppendRecord(p) PROVE LedgerStep
  <2> DEFINE a == job[p].id
  <2> DEFINE d == Head(job[p].todo)
  <2>1. /\ a \in DOMAIN actions /\ a \in ActionId /\ actions[a].status = "running"
        /\ job[p].todo \in Seq(Drafts) /\ job[p].todo # <<>>
        /\ \A m \in DOMAIN job[p].todo :
             /\ job[p].todo[m].fp \notin RecordFps
             /\ job[p].todo[m].parents \subseteq DOMAIN records
    BY <1>6 DEF AppendRecord, TypeInv, FilesOK, ActionsOK, ProcOK, TryPc, Job, KernelInv, Phase,
       Batch, Running
  <2>2. d \in Drafts /\ d.fp \notin RecordFps /\ d.parents \subseteq DOMAIN records
    BY <2>1
  <2>3. /\ records' = Append(records, [fp |-> d.fp, parents |-> d.parents, action |-> a])
        /\ actions' = actions
    BY <1>6 DEF AppendRecord
  <2>4. QED
    BY <2>1, <2>2, <2>3 DEF LedgerStep, Admits
<1>7. ASSUME NEW p \in Proc, FailAction(p) PROVE LedgerStep
  <2> DEFINE a == mem[p].active
  <2> DEFINE row == [actions[a] EXCEPT !.status = "failed", !.summary = "before_record"]
  <2>1. CASE a \in DOMAIN actions
    <3>1. a \in ActionId /\ actions[a] \in ActionRow /\ a # NoAction
      BY <2>1, ProcAssumption DEF TypeInv, FilesOK, ActionsOK
    <3>2. actions[a].status \in {"proposed", "running"}
      BY <1>7, <3>1 DEF FailAction, KernelInv, Phase
    <3>3. /\ AppendAction(a, row) /\ row \in ActionRow /\ row.fp = actions[a].fp
          /\ row.status = "failed" /\ records' = records
      BY <1>7, <2>1, <3>1 DEF FailAction, ActionRow, Status, Terminal, Summary
    <3> HIDE DEF row
    <3>4. Rewrites(a, {"proposed", "running"}, Terminal \ Committed)
      BY <2>1, <3>2, <3>3 DEF Rewrites, Terminal, Committed
    <3>5. QED
      BY <3>1, <3>4 DEF LedgerStep
  <2>2. CASE a \notin DOMAIN actions
    BY <1>7, <2>2 DEF FailAction, LedgerStep
  <2>3. QED
    BY <2>1, <2>2
<1>8. ASSUME NEW p \in Proc, Initialize(p) PROVE LedgerStep
  <2>1. Interrupt(p) \/ Quiet
    BY <1>8 DEF Initialize, Load, Create, AppendVersion, Adopt, Recover, Clear, Wake, Report
  <2>2. QED
    BY <1>1, <2>1 DEF LedgerStep
<1>9. ASSUME NEW p \in Proc, Step(p) PROVE LedgerStep
  <2>1. \/ SkipDuplicate(p) \/ Begin(p) \/ CommitAction(p) \/ Propose(p) \/ AppendRecord(p)
        \/ Quiet
    BY <1>9 DEF Step, OfferTurn, Yield, Activate, SaveDuplicate, Execute, Screen, EndScreen,
       SaveActor, SaveCommit, EndStep, EndRun
  <2>2. QED
    BY <1>2, <1>3, <1>4, <1>5, <1>6, <2>1 DEF LedgerStep
<1>10. ASSUME NEW p \in Proc, Handle(p) PROVE LedgerStep
  <2>1. FailAction(p) \/ Quiet
    BY <1>10 DEF Handle, Raise, SaveFailure
  <2>2. QED
    BY <1>7, <2>1 DEF LedgerStep
<1>11. ASSUME NEW p \in Proc, StartRun(p) \/ StartStatus(p) \/ Crash(p) PROVE LedgerStep
  BY <1>11 DEF StartRun, StartStatus, Crash, LedgerStep
<1>12. CASE EditTask \/ UNCHANGED vars
  BY <1>12 DEF EditTask, vars, LedgerStep
<1>13. QED
  BY <1>8, <1>9, <1>10, <1>11, <1>12 DEF Next, Proc

-----------------------------------------------------------------------------
\* TerminalForever: a row whose status is terminal is the last one of its action.
THEOREM TerminalForeverHolds == Spec => TerminalForever
<1> DEFINE Kept == \A a \in DOMAIN actions :
                     actions[a].status \in Terminal =>
                       a \in DOMAIN actions' /\ actions'[a] = actions[a]
<1>1. TypeInv /\ KernelInv /\ [Next]_vars => [Kept]_vars
  <2> SUFFICES ASSUME TypeInv, KernelInv, [Next]_vars,
                      NEW a \in DOMAIN actions, actions[a].status \in Terminal
               PROVE  a \in DOMAIN actions' /\ actions'[a] = actions[a]
    OBVIOUS
  <2>1. ASSUME NEW b \in ActionId, NEW row, AppendAction(b, row), b # a
        PROVE  a \in DOMAIN actions' /\ actions'[a] = actions[a]
    BY <2>1 DEF AppendAction
  <2>2. LedgerStep
    BY LedgerSteps
  <2>3. QED
    BY <2>1, <2>2 DEF LedgerStep, Declares, Starts, Admits, Rewrites, Terminal
<1>2. QED
  BY <1>1, InitTypeInv, InitKernelInv, TypeInvInductive, KernelInvInductive, PTL
  DEF Spec, TerminalForever

-----------------------------------------------------------------------------
\* JournalSpec: each step of the kernel is a step of the journal or leaves it alone.
THEOREM KernelImplementsJournal == Spec => JournalSpec
<1>1. Init => Journal!JInit
  BY DEF Init, Journal!JInit, WithStatus
<1>2. TypeInv /\ KernelInv /\ [Next]_vars => [Journal!JNext]_(Journal!jvars)
  <2> SUFFICES ASSUME TypeInv, KernelInv, [Next]_vars
               PROVE  [Journal!JNext]_(Journal!jvars)
    OBVIOUS
  <2> USE DEF WithStatus
  <2>1. LedgerStep
    BY LedgerSteps
  <2>2. CASE actions' = actions /\ records' = records
    BY <2>2 DEF Journal!jvars
  <2>3. ASSUME NEW a \in ActionId, Declares(a) PROVE Journal!JNext
    <3>1. PICK row \in ActionRow : AppendAction(a, row) /\ row.status = "proposed"
      BY <2>3 DEF Declares
    <3>2. /\ DOMAIN actions' = DOMAIN actions \cup {a} /\ actions'[a] = row
          /\ \A b \in DOMAIN actions : actions'[b] = actions[b] /\ b # a
          /\ records' = records
      BY <2>3, <3>1 DEF Declares, AppendAction
    <3>3. Journal!Declare(a, row.fp)
      BY <2>3, <3>1, <3>2 DEF Declares, Journal!Declare, Terminal, Committed
    <3>4. row.fp \in ActionFp
      BY DEF ActionRow
    <3>5. QED
      BY <3>3, <3>4 DEF Journal!JNext
  <2>4. ASSUME NEW a \in ActionId, NEW from, NEW to, Rewrites(a, from, to)
        PROVE  /\ DOMAIN actions' = DOMAIN actions /\ records' = records /\ a \in DOMAIN actions
               /\ actions[a].status \in from /\ actions'[a].status \in to
               /\ \A b \in DOMAIN actions : b # a => actions'[b] = actions[b]
               /\ \A b \in DOMAIN actions : actions'[b].fp = actions[b].fp
    BY <2>4 DEF Rewrites, AppendAction
  <2>5. ASSUME NEW a \in ActionId, Starts(a) PROVE Journal!JNext
    <3>1. Journal!Start(a)
      BY <2>4, <2>5 DEF Starts, Journal!Start, Journal!Ended, Terminal, Committed, AlreadyExecuted
    <3>2. QED
      BY <3>1 DEF Journal!JNext
  <2>6. ASSUME NEW a \in ActionId, Rewrites(a, {"running"}, Committed) PROVE Journal!JNext
    <3>1. WithStatus({"running"}) = {a}
      BY <2>4, <2>6 DEF KernelInv, RunningIsActive
    <3>2. Journal!Commit(a)
      BY <2>4, <2>6, <3>1 DEF Journal!Commit, Terminal, Committed
    <3>3. QED
      BY <3>2 DEF Journal!JNext
  <2>7. ASSUME NEW a \in ActionId, Rewrites(a, {"proposed", "running"}, Terminal \ Committed)
        PROVE  Journal!JNext
    <3>1. Journal!Drop(a)
      BY <2>4, <2>7 DEF Journal!Drop, Journal!Ended, Terminal, Committed
    <3>2. QED
      BY <3>1 DEF Journal!JNext
  <2>8. ASSUME NEW a \in ActionId, Admits(a) PROVE Journal!JNext
    <3>1. PICK d \in Drafts :
            /\ d.fp \notin RecordFps /\ d.parents \subseteq DOMAIN records
            /\ records' = Append(records, [fp |-> d.fp, parents |-> d.parents, action |-> a])
      BY <2>8 DEF Admits
    <3>2. d.fp \in RecordFp
      BY DraftAssumption
    <3>3. Journal!Admit(a, d.fp, d.parents)
      BY <2>8, <3>1 DEF Admits, Journal!Admit, RecordFps
    <3>4. QED
      BY <3>1, <3>2, <3>3 DEF Journal!JNext
  <2>9. QED
    BY <2>1, <2>2, <2>3, <2>5, <2>6, <2>7, <2>8 DEF LedgerStep
<1>3. QED
  BY <1>1, <1>2, InitTypeInv, InitKernelInv, TypeInvInductive, KernelInvInductive, PTL
  DEF Spec, JournalSpec, Journal!JSpec

-----------------------------------------------------------------------------
(***************************************************************************)
(* The state file, the recovery and the subsystems' own state              *)
(***************************************************************************)
\* Where what the process holds is what it last read from or wrote to the state file.
Synced == {"first_version", "recover", "interrupt", "clear", "ready", "loop", "stepped",
           "announce", "exit"}
SyncInv == \A p \in Proc : pc[p] \in Synced => stateFile = mem[p]

\* A step saves what the process holds, leaves both alone, or leads where they may differ.
LEMMA SyncStep ==
  ASSUME TypeInv, NEW p \in Proc, Initialize(p) \/ Step(p) \/ Handle(p)
  PROVE  \/ stateFile' = mem'[p]
         \/ pc[p] \in Synced /\ stateFile' = stateFile /\ mem'[p] = mem[p]
         \/ pc'[p] \notin Synced
<1> USE DEF Goto, SaveState, durable, bounds
<1>1. pc \in [Proc -> Pc] /\ DOMAIN mem = Proc
  BY DEF TypeInv, Locals, ProcOK
<1>2. Create(p) \/ Adopt(p) \/ Clear(p) => stateFile' = mem'[p]
  BY <1>1 DEF Create, Adopt, Clear
<1>3. Yield(p) \/ Activate(p) \/ SaveDuplicate(p) \/ SaveCommit(p) \/ SaveFailure(p)
        => stateFile' = mem'[p]
  BY <1>1 DEF Yield, Activate, SaveDuplicate, SaveCommit, SaveFailure
<1>4. Load(p) \/ Report(p) \/ EndRun(p) => pc'[p] \notin Synced
  BY <1>1 DEF Load, Report, EndRun, Leave, Synced
<1>5. OfferTurn(p) \/ Propose(p) \/ SkipDuplicate(p) \/ Begin(p) => pc'[p] \notin Synced
  BY <1>1 DEF OfferTurn, Propose, SkipDuplicate, Begin, Synced
<1>6. Execute(p) \/ Screen(p) \/ EndScreen(p) \/ AppendRecord(p) => pc'[p] \notin Synced
  BY <1>1 DEF Execute, Screen, EndScreen, AppendRecord, Synced
<1>7. SaveActor(p) \/ CommitAction(p) \/ Raise(p) \/ FailAction(p) => pc'[p] \notin Synced
  BY <1>1 DEF SaveActor, CommitAction, Raise, FailAction, Synced
<1>8. ASSUME AppendVersion(p) \/ Recover(p) \/ Interrupt(p)
      PROVE  \/ pc[p] \in Synced /\ stateFile' = stateFile /\ mem'[p] = mem[p]
             \/ pc'[p] \notin Synced
  BY <1>1, <1>8 DEF AppendVersion, Recover, Interrupt, Synced
<1>9. ASSUME Wake(p) \/ EndStep(p)
      PROVE  \/ stateFile' = mem'[p]
             \/ pc[p] \in Synced /\ stateFile' = stateFile /\ mem'[p] = mem[p]
  BY <1>1, <1>9 DEF Wake, EndStep, Synced
<1>10. QED
  BY <1>2, <1>3, <1>4, <1>5, <1>6, <1>7, <1>8, <1>9 DEF Initialize, Step, Handle

LEMMA SyncInvInductive ==
  ASSUME TypeInv, KernelInv, SyncInv, [Next]_vars
  PROVE  SyncInv'
<1>1. ASSUME NEW p \in Proc, Initialize(p) \/ Step(p) \/ Handle(p) PROVE SyncInv'
  <2>1. pc[p] # "down"
    BY <1>1 DEF Initialize, Step, Handle, Load, Create, AppendVersion, Adopt, Recover, Interrupt,
       Clear, Wake, Report, OfferTurn, Yield, Propose, Activate, SkipDuplicate, SaveDuplicate,
       Begin, Execute, Screen, EndScreen, AppendRecord, SaveActor, CommitAction, SaveCommit,
       EndStep, EndRun, Raise, FailAction, SaveFailure, TryPc
  <2>2. \A q \in Proc : q # p => pc[q] = "down"
    BY <2>1 DEF KernelInv, LockInv
  <2>3. \A q \in Proc : q # p => pc'[q] = "down"
    BY <1>1, <2>2, StepMoves DEF TypeInv, Locals, Moves
  <2>4. pc'[p] \in Synced => stateFile' = mem'[p]
    BY <1>1, SyncStep DEF SyncInv
  <2>5. QED
    BY <2>3, <2>4 DEF SyncInv, Synced
<1>2. ASSUME NEW p \in Runners, StartRun(p) PROVE SyncInv'
  <2>1. \A q \in Proc : pc[q] = "down"
    BY <1>2, ProcAssumption DEF StartRun, KernelInv, LockInv
  <2>2. \A q \in Proc : pc'[q] \in {"load", "down"}
    BY <1>2, <2>1 DEF StartRun, Goto, TypeInv, Locals
  <2>3. QED
    BY <2>2 DEF SyncInv, Synced
<1>3. ASSUME NEW p \in Proc, Crash(p) PROVE SyncInv'
  <2>1. \A q \in Proc : pc'[q] = "down"
    BY <1>3 DEF Crash, Leave, Goto, TypeInv, Locals, KernelInv, LockInv
  <2>2. QED
    BY <2>1 DEF SyncInv, Synced
<1>4. CASE EditTask \/ UNCHANGED vars
  <2>1. UNCHANGED <<stateFile, pc, mem>>
    BY <1>4 DEF EditTask, vars, durable, volatile
  <2>2. QED
    BY <2>1 DEF SyncInv
<1>5. ASSUME NEW p \in Runners, Initialize(p) \/ Step(p) \/ Handle(p) \/ Crash(p) PROVE SyncInv'
  <2>1. p \in Proc
    BY DEF Proc
  <2>2. QED
    BY <1>1, <1>3, <1>5, <2>1
<1>6. QED
  BY <1>2, <1>4, <1>5 DEF Next

\* CursorDurable: when a run is between two steps the file holds what the process holds,
\* its cursor and its idle count included.
THEOREM CursorDurableHolds == Spec => []CursorDurable
<1>1. Init => TypeInv /\ KernelInv /\ SyncInv
  BY InitTypeInv, InitKernelInv DEF Init, SyncInv, Synced
<1>2. TypeInv /\ KernelInv /\ SyncInv /\ [Next]_vars => TypeInv' /\ KernelInv' /\ SyncInv'
  BY TypeInvInductive, KernelInvInductive, SyncInvInductive
<1>3. SyncInv => CursorDurable
  BY DEF SyncInv, Synced, CursorDurable, Proc
<1>4. QED
  BY <1>1, <1>2, <1>3, PTL DEF Spec

-----------------------------------------------------------------------------
(***************************************************************************)
(* Runs beside status commands                                             *)
(***************************************************************************)
\* Only the recovery calls an action interrupted.
LEMMA OnlyRecoveryInterrupts ==
  ASSUME TypeInv, [StatusNext]_vars, NEW a \in DOMAIN actions,
         actions[a].status # "interrupted", actions'[a].status = "interrupted"
  PROVE  \E p \in Proc : Interrupt(p)
<1> USE DEF durable, bounds, SaveState
<1>1. a \in ActionId /\ actions[a] \in ActionRow
  BY DEF TypeInv, FilesOK, ActionsOK
<1>2. ASSUME NEW b, NEW row, AppendAction(b, row)
      PROVE  b = a /\ row.status = "interrupted"
  <2>1. actions'[a] = IF a = b THEN row ELSE actions[a]
    BY <1>2 DEF AppendAction
  <2>2. CASE a = b
    BY <2>1, <2>2
  <2>3. CASE a # b
    BY <2>1, <2>3
  <2>4. QED
    BY <2>2, <2>3
<1>3. ASSUME NEW p \in Proc, Step(p) PROVE FALSE
  <2> DEFINE i == job[p].id
  <2>1. ASSUME Begin(p) PROVE FALSE
    <3>1. AppendAction(i, [actions[i] EXCEPT !.status = "running"])
      BY <2>1 DEF Begin
    <3>2. PICK row : row = [actions[i] EXCEPT !.status = "running"]
      OBVIOUS
    <3>3. i = a /\ row.status = "interrupted"
      BY <1>2, <3>1, <3>2
    <3>4. QED
      BY <1>1, <3>2, <3>3 DEF ActionRow
  <2>2. ASSUME SkipDuplicate(p) PROVE FALSE
    <3>1. AppendAction(i, [actions[i] EXCEPT !.status = "duplicate", !.summary = "duplicate"])
      BY <2>2 DEF SkipDuplicate
    <3>2. PICK row : row = [actions[i] EXCEPT !.status = "duplicate", !.summary = "duplicate"]
      OBVIOUS
    <3>3. i = a /\ row.status = "interrupted"
      BY <1>2, <3>1, <3>2
    <3>4. QED
      BY <1>1, <3>2, <3>3 DEF ActionRow
  <2>3. ASSUME CommitAction(p) PROVE FALSE
    <3>1. AppendAction(i, [actions[i] EXCEPT !.status = OutcomeStatus(job[p]),
                             !.summary = "outcome", !.admitted = job[p].admitted])
      BY <2>3 DEF CommitAction
    <3>2. OutcomeStatus(job[p]) = "interrupted"
      <4>1. PICK row : row = [actions[i] EXCEPT !.status = OutcomeStatus(job[p]),
                                !.summary = "outcome", !.admitted = job[p].admitted]
        OBVIOUS
      <4>2. i = a /\ row.status = "interrupted"
        BY <1>2, <3>1, <4>1
      <4>3. QED
        BY <1>1, <4>1, <4>2 DEF ActionRow
    <3>3. QED
      BY <3>2 DEF OutcomeStatus
  <2>4. ASSUME Propose(p) PROVE FALSE
    <3>1. PICK b \in ActionId \ DOMAIN actions, fp \in ActionFp :
            AppendAction(b, [fp |-> fp, status |-> "proposed",
                             summary |-> "none", admitted |-> {}])
      BY <2>4 DEF Propose
    <3>2. PICK row : row = [fp |-> fp, status |-> "proposed", summary |-> "none", admitted |-> {}]
      OBVIOUS
    <3>3. b = a
      BY <1>2, <3>1, <3>2
    <3>4. QED
      BY <3>3
  <2>5. \/ SkipDuplicate(p) \/ Begin(p) \/ CommitAction(p) \/ Propose(p)
        \/ actions' = actions
    BY <1>3 DEF Step, OfferTurn, Yield, Activate, SaveDuplicate, Execute, Screen, EndScreen,
       AppendRecord, SaveActor, SaveCommit, EndStep, EndRun
  <2>6. QED
    BY <1>1, <2>1, <2>2, <2>3, <2>4, <2>5
<1>4. ASSUME NEW p \in Proc, Handle(p) PROVE FALSE
  <2>1. \/ AppendAction(mem[p].active, [actions[mem[p].active] EXCEPT
                                          !.status = "failed", !.summary = "before_record"])
        \/ actions' = actions
    BY <1>4 DEF Handle, Raise, FailAction, SaveFailure
  <2>2. PICK b, row : /\ b = mem[p].active
                      /\ row = [actions[b] EXCEPT !.status = "failed", !.summary = "before_record"]
    OBVIOUS
  <2>3. AppendAction(b, row)
    BY <1>1, <2>1, <2>2
  <2>4. b = a /\ row.status = "interrupted"
    BY <1>2, <2>3
  <2>5. QED
    BY <1>1, <2>2, <2>4 DEF ActionRow
<1>5. ASSUME NEW p \in Proc, Initialize(p) PROVE Interrupt(p)
  BY <1>5 DEF Initialize, Load, Create, AppendVersion, Adopt, Recover, Clear, Wake
<1>6. ASSUME \/ EditTask \/ UNCHANGED vars
             \/ \E p \in Proc : StartRun(p) \/ StartStatus(p) \/ Report(p) \/ Crash(p)
      PROVE  FALSE
  BY <1>6 DEF EditTask, vars, StartRun, StartStatus, Report, Crash
<1>7. QED
  BY <1>3, <1>4, <1>5, <1>6 DEF StatusNext, Next, Proc

\* OnlyDeadInterrupted holds among runs alone: the one that recovers holds the lock, so all
\* others are down.  Beside status commands it does not (the run kernel_status).
THEOREM OnlyDeadInterruptedByRuns == Spec => OnlyDeadInterrupted
<1> DEFINE Dead == \A a \in DOMAIN actions :
                     (actions[a].status # "interrupted" /\ actions'[a].status = "interrupted")
                       => ~Executing(a)
<1>1. TypeInv /\ KernelInv /\ [Next]_vars => [Dead]_vars
  <2> SUFFICES ASSUME TypeInv, KernelInv, [Next]_vars, NEW a \in DOMAIN actions,
                      actions[a].status # "interrupted", actions'[a].status = "interrupted"
               PROVE  ~Executing(a)
    OBVIOUS
  <2>1. PICK p \in Proc : Interrupt(p)
    BY OnlyRecoveryInterrupts DEF StatusNext
  <2>2. pc[p] = "interrupt" /\ \A q \in Proc : q # p => pc[q] = "down"
    BY <2>1 DEF Interrupt, KernelInv, LockInv
  <2>3. \A q \in Proc : pc[q] \notin TryPc
    BY <2>2 DEF TryPc
  <2>4. QED
    BY <2>3 DEF Executing
<1>2. QED
  BY <1>1, InitTypeInv, InitKernelInv, TypeInvInductive, KernelInvInductive, PTL
  DEF Spec, OnlyDeadInterrupted

-----------------------------------------------------------------------------
\* Whoever executes actions holds the lock; whoever asks for status only initializes.
Serial ==
  /\ \A p \in Runners : pc[p] # "down" => lock = p
  /\ \A v \in Viewers : pc[v] \in {"down"} \cup BootPc

\* While a subsystem works on its view, its own state is what the view showed.
Viewing == {"propose", "proposed", "activated", "executing", "screen", "append"}
ViewInv == \A p \in Proc : pc[p] \in Viewing => job[p].seen = actorState[job[p].sub]

\* Only Wake, which is for runs, leads out of the initialization.
LEMMA BootStep ==
  ASSUME TypeInv, NEW p \in Proc, Initialize(p)
  PROVE  /\ pc'[p] \in BootPc \cup {"loop"}
         /\ pc'[p] = "loop" => p \in Runners
<1> USE DEF Goto, BootPc
<1>1. pc \in [Proc -> Pc]
  BY DEF TypeInv, Locals, ProcOK
<1>2. Load(p) \/ Create(p) \/ AppendVersion(p) \/ Adopt(p) => pc'[p] \in BootPc
  BY <1>1 DEF Load, Create, AppendVersion, Adopt
<1>3. Recover(p) \/ Interrupt(p) \/ Clear(p) => pc'[p] \in BootPc
  BY <1>1 DEF Recover, Interrupt, Clear
<1>4. Wake(p) => pc'[p] = "loop" /\ p \in Runners
  BY <1>1 DEF Wake
<1>5. QED
  BY <1>2, <1>3, <1>4 DEF Initialize

\* A step of the loop is not taken during the initialization.
LEMMA LoopStep ==
  ASSUME NEW p \in Proc, Step(p) \/ Handle(p)
  PROVE  pc[p] \notin {"down"} \cup BootPc
BY DEF Step, Handle, OfferTurn, Yield, Propose, Activate, SkipDuplicate, SaveDuplicate,
   Begin, Execute, Screen, EndScreen, AppendRecord, SaveActor, CommitAction, SaveCommit,
   EndStep, EndRun, Raise, FailAction, SaveFailure, TryPc, BootPc

\* The lock moves when a run starts or ends.
LEMMA LockStep ==
  ASSUME NEW p \in Proc, Initialize(p) \/ Step(p) \/ Handle(p)
  PROVE  lock' = lock \/ Leave(p)
BY DEF Initialize, Step, Handle, Load, Create, AppendVersion, Adopt, Recover, Interrupt, Clear,
   Wake, OfferTurn, Yield, Propose, Activate, SkipDuplicate, SaveDuplicate,
   Begin, Execute, Screen, EndScreen, AppendRecord, SaveActor, CommitAction, SaveCommit,
   EndStep, EndRun, Raise, FailAction, SaveFailure

LEMMA SerialInductive ==
  ASSUME TypeInv, Serial, [StatusNext]_vars
  PROVE  Serial'
<1> USE DEF Goto, Proc
<1>1. ASSUME NEW p \in Proc, Leave(p) PROVE Serial'
  <2>1. pc'[p] = "down" /\ \A q \in Proc : q # p => pc'[q] = pc[q]
    BY <1>1 DEF Leave, TypeInv, Locals
  <2>2. \A q \in Runners : q # p /\ lock = q => lock' = q
    BY <1>1 DEF Leave
  <2>3. QED
    BY <2>1, <2>2 DEF Serial
<1>2. ASSUME NEW p \in Proc, Initialize(p) \/ Step(p) \/ Handle(p), lock' = lock PROVE Serial'
  <2>1. \A q \in Proc : q # p => pc'[q] = pc[q]
    <3>1. pc = [q \in Proc |-> pc[q]] /\ Locals
      BY DEF TypeInv, Locals
    <3>2. pc' = [pc EXCEPT ![p] = pc'[p]]
      BY <1>2, <3>1, StepMoves DEF Moves
    <3> QED BY <3>1, <3>2
  <2>2. pc[p] # "down"
    BY <1>2, LoopStep DEF Initialize, Load, Create, AppendVersion, Adopt, Recover, Interrupt,
       Clear, Wake
  <2>3. CASE p \in Runners
    BY <1>2, <2>1, <2>2, <2>3, ProcAssumption DEF Serial
  <2>4. CASE p \in Viewers
    <3>1. Initialize(p)
      BY <1>2, <2>4, LoopStep DEF Serial
    <3>2. pc'[p] \in {"down"} \cup BootPc
      BY <2>4, <3>1, BootStep, ProcAssumption
    <3>3. QED
      BY <1>2, <2>1, <2>4, <3>2, ProcAssumption DEF Serial
  <2>5. QED
    BY <2>3, <2>4
<1>3. ASSUME NEW p \in Runners, StartRun(p) PROVE Serial'
  <2>1. \A q \in Runners : pc[q] = "down"
    BY <1>3, ProcAssumption DEF StartRun, Serial
  <2>2. lock' = p /\ \A q \in Proc : q # p => pc'[q] = pc[q]
    BY <1>3 DEF StartRun, TypeInv, Locals
  <2>3. QED
    BY <2>1, <2>2, ProcAssumption DEF Serial
<1>4. ASSUME NEW v \in Viewers, StartStatus(v) PROVE Serial'
  <2>1. lock' = lock /\ pc'[v] = "load" /\ \A q \in Proc : q # v => pc'[q] = pc[q]
    BY <1>4 DEF StartStatus, TypeInv, Locals
  <2>2. QED
    BY <2>1, ProcAssumption DEF Serial, BootPc
<1>5. CASE EditTask \/ UNCHANGED vars
  BY <1>5 DEF EditTask, vars, volatile, Serial
<1>6. QED
  BY <1>1, <1>2, <1>3, <1>4, <1>5, LockStep DEF StatusNext, Next, Report, Crash

\* What a step of the loop does to the job of a process that goes on working on its view.
LEMMA ViewStep ==
  ASSUME TypeInv, NEW p \in Proc, Initialize(p) \/ Step(p) \/ Handle(p), pc'[p] \in Viewing
  PROVE  \/ job'[p].seen = actorState[job'[p].sub]
         \/ pc[p] \in Viewing /\ job'[p].seen = job[p].seen /\ job'[p].sub = job[p].sub
<1> USE DEF Goto, Viewing
<1>1. pc \in [Proc -> Pc] /\ DOMAIN job = Proc
  BY DEF TypeInv, Locals, ProcOK
<1>2. ~Initialize(p)
  BY <1>1, BootStep DEF BootPc
<1>3. pc[p] # "down" /\ job[p] \in Job
  BY <1>2, LoopStep DEF TypeInv, ProcOK
<1>4. ASSUME OfferTurn(p) PROVE job'[p].seen = actorState[job'[p].sub]
  <2>1. PICK sub, j : /\ sub = job[p].subs[(mem[p].next % Len(job[p].subs)) + 1]
                      /\ j = JobFor(job[p].subs, job[p].left - 1)
    OBVIOUS
  <2>2. job'[p] = [j EXCEPT !.sub = sub, !.seen = actorState[sub]]
    BY <1>1, <1>4, <2>1 DEF OfferTurn
  <2>3. job'[p].sub = sub /\ job'[p].seen = actorState[sub]
    BY <2>1, <2>2 DEF JobFor
  <2>4. QED
    BY <2>3
<1>5. ASSUME Propose(p)
      PROVE  pc[p] \in Viewing /\ job'[p].seen = job[p].seen /\ job'[p].sub = job[p].sub
  <2>1. PICK a : job' = [job EXCEPT ![p].id = a]
    BY <1>5 DEF Propose
  <2>2. QED
    BY <1>1, <1>3, <1>5, <2>1 DEF Propose, Job
<1>6. ASSUME Activate(p) \/ Begin(p) \/ EndScreen(p)
      PROVE  pc[p] \in Viewing /\ job'[p] = job[p]
  BY <1>6 DEF Activate, Begin, EndScreen
<1>7. ASSUME Execute(p)
      PROVE  pc[p] \in Viewing /\ job'[p].seen = job[p].seen /\ job'[p].sub = job[p].sub
  <2>1. PICK n \in 0..MaxDrafts : \E d \in [1..n -> Drafts], b, e \in BOOLEAN :
          job' = [job EXCEPT ![p].drafts = d, ![p].patch = b, ![p].error = e]
    BY <1>7 DEF Execute
  <2>2. PICK d \in [1..n -> Drafts], b \in BOOLEAN, e \in BOOLEAN :
          job' = [job EXCEPT ![p].drafts = d, ![p].patch = b, ![p].error = e]
    BY <2>1
  <2>3. QED
    BY <1>1, <1>3, <1>7, <2>2 DEF Execute, Job
<1>8. ASSUME Screen(p)
      PROVE  pc[p] \in Viewing /\ job'[p].seen = job[p].seen /\ job'[p].sub = job[p].sub
  BY <1>1, <1>3, <1>8 DEF Screen, Job
<1>9. ASSUME AppendRecord(p)
      PROVE  pc[p] \in Viewing /\ job'[p].seen = job[p].seen /\ job'[p].sub = job[p].sub
  BY <1>1, <1>3, <1>9 DEF AppendRecord, Job
<1>10. ~Yield(p) /\ ~SkipDuplicate(p) /\ ~SaveDuplicate(p) /\ ~SaveActor(p)
  BY <1>1 DEF Yield, SkipDuplicate, SaveDuplicate, SaveActor
<1>11. ~CommitAction(p) /\ ~SaveCommit(p) /\ ~EndStep(p) /\ ~EndRun(p)
  BY <1>1 DEF CommitAction, SaveCommit, EndStep, EndRun, Leave
<1>12. ~Raise(p) /\ ~FailAction(p) /\ ~SaveFailure(p)
  BY <1>1 DEF Raise, FailAction, SaveFailure
<1>13. QED
  BY <1>2, <1>4, <1>5, <1>6, <1>7, <1>8, <1>9, <1>10, <1>11, <1>12 DEF Step, Handle

\* Only the end of a batch writes a subsystem's own state.
LEMMA ActorStep ==
  ASSUME [StatusNext]_vars
  PROVE  actorState' = actorState \/ \E p \in Proc : SaveActor(p)
<1> USE DEF durable, SaveState
<1>1. ASSUME NEW p \in Proc, Initialize(p) PROVE actorState' = actorState
  BY <1>1 DEF Initialize, Load, Create, AppendVersion, Adopt, Recover, Interrupt, Clear, Wake
<1>2. ASSUME NEW p \in Proc, Step(p) PROVE actorState' = actorState \/ SaveActor(p)
  BY <1>2 DEF Step, OfferTurn, Yield, Propose, Activate, SkipDuplicate, SaveDuplicate, Begin,
     Execute, Screen, EndScreen, AppendRecord, CommitAction, SaveCommit, EndStep, EndRun
<1>3. ASSUME NEW p \in Proc, Handle(p) \/ Crash(p) \/ Report(p) \/ StartRun(p) \/ StartStatus(p)
      PROVE  actorState' = actorState
  BY <1>3 DEF Handle, Raise, FailAction, SaveFailure, Crash, Report, StartRun,
     StartStatus
<1>4. CASE EditTask \/ UNCHANGED vars
  BY <1>4 DEF EditTask, vars
<1>5. QED
  BY <1>1, <1>2, <1>3, <1>4 DEF StatusNext, Next, Proc

LEMMA ViewInvInductive ==
  ASSUME TypeInv, Serial, ViewInv, [StatusNext]_vars
  PROVE  ViewInv'
<1>1. ASSUME NEW p \in Proc, Initialize(p) \/ Step(p) \/ Handle(p) PROVE ViewInv'
  <2>1. \A q \in Proc : q # p => pc'[q] = pc[q] /\ job'[q] = job[q]
    BY <1>1, StepMoves DEF TypeInv, Locals, Moves
  <2>2. CASE actorState' = actorState
    <3>1. pc'[p] \in Viewing => job'[p].seen = actorState[job'[p].sub]
      BY <1>1, ViewStep DEF ViewInv
    <3>2. QED
      BY <2>1, <2>2, <3>1 DEF ViewInv
  <2>3. CASE SaveActor(p)
    <3>1. pc[p] = "append" /\ pc'[p] = "patched"
      BY <2>3 DEF SaveActor, Goto, TypeInv, Locals
    <3>2. p \in Runners /\ lock = p
      BY <3>1 DEF Serial, BootPc, Proc
    <3>3. ASSUME NEW q \in Proc, q # p PROVE pc[q] \notin Viewing
      <4>1. pc[q] \in {"down"} \cup BootPc
        BY <3>2, <3>3 DEF Serial, Proc
      <4>2. QED
        BY <4>1 DEF BootPc, Viewing
    <3>4. QED
      BY <2>1, <3>1, <3>3 DEF ViewInv, Viewing
  <2>4. CASE \E q \in Proc : q # p /\ SaveActor(q)
    <3>1. PICK q \in Proc : q # p /\ SaveActor(q)
      BY <2>4
    <3>2. pc[q] = "append" /\ pc'[q] = "patched"
      BY <3>1 DEF SaveActor, Goto, TypeInv, Locals
    <3>3. QED
      BY <2>1, <3>1, <3>2
  <2>5. QED
    BY <2>2, <2>3, <2>4, ActorStep
<1>2. ASSUME NEW p \in Proc, StartRun(p) \/ StartStatus(p) \/ Report(p) \/ Crash(p)
      PROVE  ViewInv'
  <2>1. \A q \in Proc : q # p => pc'[q] = pc[q] /\ job'[q] = job[q]
    BY <1>2, StepMoves DEF TypeInv, Locals, Moves
  <2>2. actorState' = actorState /\ pc'[p] \notin Viewing
    BY <1>2 DEF StartRun, StartStatus, Report, Crash, Leave, Goto, TypeInv, Locals, Viewing, durable
  <2>3. QED
    BY <2>1, <2>2 DEF ViewInv
<1>3. CASE EditTask \/ UNCHANGED vars
  BY <1>3 DEF EditTask, vars, durable, volatile, ViewInv
<1>4. QED
  BY <1>1, <1>2, <1>3 DEF StatusNext, Next, Proc

\* Among runs and status commands, it is never a run that interrupts an action some process
\* is executing: a run recovers under the lock, so only a status command can.
THEOREM OnlyStatusInterruptsTheLiving ==
  StatusSpec =>
    [][\A a \in DOMAIN actions :
         (actions[a].status # "interrupted" /\ actions'[a].status = "interrupted" /\ Executing(a))
           => \E v \in Viewers : Interrupt(v)]_vars
<1> DEFINE Spared ==
      \A a \in DOMAIN actions :
        (actions[a].status # "interrupted" /\ actions'[a].status = "interrupted" /\ Executing(a))
          => \E v \in Viewers : Interrupt(v)
<1>1. Init => TypeInv /\ Serial
  BY InitTypeInv DEF Init, Serial, Proc
<1>2. TypeInv /\ Serial /\ [StatusNext]_vars => TypeInv' /\ Serial'
  BY TypeInvStatus, SerialInductive
<1>3. TypeInv /\ Serial /\ [StatusNext]_vars => Spared
  <2> SUFFICES ASSUME TypeInv, Serial, [StatusNext]_vars, NEW a \in DOMAIN actions,
                      actions[a].status # "interrupted", actions'[a].status = "interrupted",
                      Executing(a), NEW p \in Runners, Interrupt(p)
               PROVE  FALSE
    BY OnlyRecoveryInterrupts DEF Proc
  <2>1. lock = p /\ pc[p] = "interrupt"
    BY DEF Interrupt, Serial
  <2>2. PICK q \in Proc : pc[q] \in TryPc
    BY DEF Executing
  <2>3. q \in Runners /\ q # p
    BY <2>1, <2>2 DEF Serial, Proc, TryPc, BootPc
  <2>4. lock = q
    BY <2>2, <2>3 DEF Serial, TryPc
  <2>5. QED
    BY <2>1, <2>3, <2>4
<1>4. QED
  BY <1>1, <1>2, <1>3, PTL DEF StatusSpec

\* NoLostUpdate: a patch computed from a view read before the action was proposed replaces
\* the very list that view showed, so it drops nothing but what its subsystem no longer
\* keeps, whoever asks for status meanwhile.
THEOREM NoLostUpdateHolds == StatusSpec => NoLostUpdate
<1> DEFINE Extends ==
      \A s \in Subsystem :
        actorState'[s] # actorState[s] =>
          \E a \in ActionId : actorState'[s] = Recent(Append(actorState[s], a))
<1>1. Init => TypeInv /\ Serial /\ ViewInv
  BY InitTypeInv DEF Init, Serial, ViewInv, Viewing, Proc
<1>2. TypeInv /\ Serial /\ ViewInv /\ [StatusNext]_vars => TypeInv' /\ Serial' /\ ViewInv'
  BY TypeInvStatus, SerialInductive, ViewInvInductive
<1>3. TypeInv /\ ViewInv /\ [StatusNext]_vars => Extends
  <2> SUFFICES ASSUME TypeInv, ViewInv, [StatusNext]_vars, NEW s \in Subsystem,
                      actorState'[s] # actorState[s]
               PROVE  \E a \in ActionId : actorState'[s] = Recent(Append(actorState[s], a))
    OBVIOUS
  <2>1. PICK p \in Proc : SaveActor(p)
    BY ActorStep
  <2>2. /\ job[p].seen = actorState[job[p].sub]
        /\ \/ actorState' = actorState
           \/ actorState' = [actorState EXCEPT ![job[p].sub] =
                               Recent(Append(job[p].seen, job[p].id))]
    BY <2>1 DEF SaveActor, ViewInv, Viewing
  <2>3. actorState \in [Subsystem -> Seq(ActionId)]
    BY DEF TypeInv, FilesOK
  <2>4. s = job[p].sub /\ actorState'[s] = Recent(Append(actorState[s], job[p].id))
    BY <2>2, <2>3
  <2>5. job[p].id \in ActionId
    BY <2>1 DEF SaveActor, TypeInv, FilesOK, ActionsOK, ProcOK, TryPc
  <2>6. QED
    BY <2>4, <2>5
<1>4. QED
  BY <1>1, <1>2, <1>3, PTL DEF StatusSpec, NoLostUpdate

\* Hence among runs alone.
COROLLARY NoLostUpdateByRuns == Spec => NoLostUpdate
<1>1. [Next]_vars => [StatusNext]_vars
  BY DEF StatusNext
<1>2. QED
  BY <1>1, NoLostUpdateHolds, PTL DEF Spec, StatusSpec
=============================================================================
