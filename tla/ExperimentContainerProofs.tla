---------------------- MODULE ExperimentContainerProofs ----------------------
(***************************************************************************)
(* Proofs about ExperimentContainer, for every value of its constants.     *)
(***************************************************************************)
EXTENDS ExperimentContainer, TLAPS, SequenceTheorems

-----------------------------------------------------------------------------
(***************************************************************************)
(* Types, and what a process holds where                                   *)
(***************************************************************************)
Value == UNION {Outputs[q] : q \in Program}
Boxes == [on : Nat, up : BOOLEAN]
State == {"absent", "running", "exited"}
Next3 == {"returned", "prepare", "exec"}

Run == [at : Nat, program : Program, out : Value \cup {None}, wrote : BOOLEAN,
        kept : Value \cup {None}]

Job ==
  [op : {"idle", "start", "run", "study", "stop", "remove", "reset"},
   next : Next3 \cup {"idle"}, inode : Nat, file : Nat,
   state : State, seen : Int, fresh : BOOLEAN, torn : BOOLEAN,
   program : Program \cup {None}, mine : Seq(Nat), ok : BOOLEAN, killed : BOOLEAN,
   touched : BOOLEAN, faulted : BOOLEAN]

HostOK ==
  /\ dir \in Nat /\ token \in Seq(Int) /\ dir \in {0, Len(token)}
  /\ \A d \in 1..Len(token) : token[d] \in {Empty} \cup 0..d

BoxOK == box = None \/ (box \in Boxes /\ box.on \in 1..Len(token))

RunsOK == runs \in Seq(Run) /\ \A r \in 1..Len(runs) : runs[r].at <= Len(token)

CountsOK ==
  /\ commands \in 0..MaxCommands /\ faults \in 0..MaxFaults /\ moves \in 0..MaxMoves
  /\ asked \in BOOLEAN /\ misread \in BOOLEAN

\* Where a command at l stands, or where it goes on when the container is ready.
Goal(l, j) == IF l \in Ensuring THEN j.next ELSE l

Working == {"exec", "running", "collect"}

\* The directory that was looked up was there no later than the one whose sentinel is open.
Marking(l, j) ==
  /\ l \in {"stamp", "write"} => j.inode \in 1..Len(token)
  /\ l = "write" => j.file \in 1..Len(token) /\ j.inode <= j.file

\* What a process at l holds in j.
Fits(l, j) ==
  /\ l \in Stage /\ j \in Job
  /\ l \in Ensuring => j.next \in Next3
  /\ Goal(l, j) \in Working \cup {"prepare", "judge"} => j.program \in Program
  /\ Goal(l, j) \in Working => Len(j.mine) > 0
  /\ Goal(l, j) = "judge" => Len(j.mine) > 1
  /\ l \in Stopping => asked
  /\ l = "implement" => Len(j.mine) = 0
  /\ \A i \in 1..Len(j.mine) : j.mine[i] \in 1..Len(runs)
  /\ Marking(l, j)

Locals == pc = [q \in Proc |-> pc[q]] /\ job = [q \in Proc |-> job[q]]

TypeInv ==
  /\ HostOK /\ BoxOK /\ RunsOK /\ CountsOK /\ Locals
  /\ \A p \in Proc : Fits(pc[p], job[p])

-----------------------------------------------------------------------------
(***************************************************************************)
(* Steps                                                                   *)
(***************************************************************************)
\* The updates of a job.
LEMMA JobUpdates ==
  ASSUME NEW j \in Job, NEW b \in BOOLEAN, NEW c \in BOOLEAN
  PROVE  /\ [j EXCEPT !.faulted = b] \in Job
         /\ [j EXCEPT !.ok = b] \in Job
         /\ [j EXCEPT !.ok = b, !.killed = c] \in Job
         /\ [j EXCEPT !.touched = b, !.killed = c] \in Job
         /\ \A n \in Next3 :
              [j EXCEPT !.next = n, !.touched = b, !.faulted = c, !.torn = FALSE] \in Job
         /\ \A n \in Nat : [j EXCEPT !.inode = n] \in Job /\ [j EXCEPT !.file = n] \in Job
         /\ [j EXCEPT !.inode = 0, !.file = 0] \in Job
         /\ [j EXCEPT !.ok = b, !.killed = c, !.touched = FALSE, !.faulted = FALSE,
                      !.torn = FALSE] \in Job
         /\ \A s \in State : [j EXCEPT !.state = s, !.faulted = b] \in Job
         /\ \A n \in Int : [j EXCEPT !.seen = n, !.fresh = b, !.faulted = c] \in Job
         /\ [j EXCEPT !.seen = 0, !.state = "absent", !.fresh = FALSE, !.torn = b] \in Job
         /\ \A m \in Seq(Nat) : [j EXCEPT !.mine = m] \in Job
         /\ \A g \in Program : [j EXCEPT !.program = g] \in Job
<1>1. [j EXCEPT !.faulted = b] \in Job /\ [j EXCEPT !.ok = b] \in Job
  BY DEF Job
<1>2. [j EXCEPT !.ok = b, !.killed = c] \in Job /\ [j EXCEPT !.touched = b, !.killed = c] \in Job
  BY DEF Job
<1>3. \A n \in Next3 :
        [j EXCEPT !.next = n, !.touched = b, !.faulted = c, !.torn = FALSE] \in Job
  BY DEF Job
<1>9. /\ \A n \in Nat : [j EXCEPT !.inode = n] \in Job /\ [j EXCEPT !.file = n] \in Job
      /\ [j EXCEPT !.inode = 0, !.file = 0] \in Job
  BY DEF Job
<1>10. [j EXCEPT !.ok = b, !.killed = c, !.touched = FALSE, !.faulted = FALSE,
                 !.torn = FALSE] \in Job
  BY DEF Job
<1>4. \A s \in State : [j EXCEPT !.state = s, !.faulted = b] \in Job
  BY DEF Job
<1>5. \A n \in Int : [j EXCEPT !.seen = n, !.fresh = b, !.faulted = c] \in Job
  BY DEF Job
<1>6. [j EXCEPT !.seen = 0, !.state = "absent", !.fresh = FALSE, !.torn = b] \in Job
  <2>1. \A n \in Int, s \in State, c1 \in BOOLEAN :
          [j EXCEPT !.seen = n, !.state = s, !.fresh = c1, !.torn = b] \in Job
    BY DEF Job
  <2>2. 0 \in Int /\ "absent" \in State /\ FALSE \in BOOLEAN
    BY DEF State
  <2>3. QED
    BY <2>1, <2>2
<1>7. /\ \A m \in Seq(Nat) : [j EXCEPT !.mine = m] \in Job
      /\ \A g \in Program : [j EXCEPT !.program = g] \in Job
  BY DEF Job
<1>8. QED
  BY <1>1, <1>2, <1>3, <1>4, <1>5, <1>6, <1>7, <1>9, <1>10

LEMMA BlankType == Blank \in Job
<1>1. << >> \in Seq(Nat)
  OBVIOUS
<1>2. QED
  BY <1>1 DEF Job, State, Blank

LEMMA BlankJob ==
  ASSUME NEW o \in {"start", "run", "study", "stop", "remove", "reset"}
  PROVE  /\ [Blank EXCEPT !.op = o] \in Job
         /\ \A g \in Program : [Blank EXCEPT !.op = o, !.program = g] \in Job
<1>3. \A j \in Job : /\ [j EXCEPT !.op = o] \in Job
                      /\ \A g \in Program : [j EXCEPT !.op = o, !.program = g] \in Job
  BY DEF Job
<1>4. QED
  BY <1>3, BlankType

\* What the step of another process does to the job of q.
Noticed(q, changed, kills) ==
  /\ job'[q] \in Job
  /\ \/ pc[q] = "idle" /\ job'[q] = Blank
     \/ /\ job'[q].op = job[q].op /\ job'[q].next = job[q].next
        /\ job'[q].inode = job[q].inode /\ job'[q].file = job[q].file
        /\ job'[q].torn = job[q].torn
        /\ job'[q].state = job[q].state /\ job'[q].seen = job[q].seen
        /\ job'[q].fresh = job[q].fresh /\ job'[q].program = job[q].program
        /\ job'[q].mine = job[q].mine /\ job'[q].ok = job[q].ok
        /\ job'[q].faulted = job[q].faulted
        /\ job'[q].touched = (job[q].touched \/ (changed /\ pc[q] \notin Outside))
        /\ job'[q].killed = (job[q].killed \/ (kills /\ pc[q] = "running"))

\* p goes to l with j.
Moves(p, l, j, changed, kills) ==
  /\ p \in Proc /\ l \in Stage /\ j \in Job /\ changed \in BOOLEAN /\ kills \in BOOLEAN
  /\ pc' = [q \in Proc |-> IF q = p THEN l ELSE pc[q]]
  /\ job' = [q \in Proc |-> job'[q]]
  /\ job'[p] = j
  /\ \A q \in Proc \ {p} : Noticed(q, changed, kills)

LEMMA NoticedTurn ==
  ASSUME NEW q \in Proc, job[q] \in Job, NEW changed \in BOOLEAN, NEW kills \in BOOLEAN,
         job'[q] = IF pc[q] = "idle" THEN Blank
                   ELSE [job[q] EXCEPT !.touched = @ \/ (changed /\ pc[q] \notin Outside),
                                       !.killed = @ \/ (kills /\ pc[q] = "running")]
  PROVE  Noticed(q, changed, kills)
<1>1. CASE pc[q] = "idle"
  BY <1>1, BlankType DEF Noticed
<1>2. CASE pc[q] # "idle"
  <2> DEFINE t == job[q].touched \/ (changed /\ pc[q] \notin Outside)
             k == job[q].killed \/ (kills /\ pc[q] = "running")
  <2>1. t \in BOOLEAN /\ k \in BOOLEAN
    BY DEF Job
  <2>2. job'[q] = [job[q] EXCEPT !.touched = t, !.killed = k]
    BY <1>2
  <2> HIDE DEF t, k
  <2>3. job'[q] \in Job
    <3>1. [job[q] EXCEPT !.touched = t, !.killed = k] \in Job
      BY <2>1, JobUpdates
    <3>2. QED
      BY <2>2, <3>1
  <2>4. /\ job'[q].op = job[q].op /\ job'[q].next = job[q].next
        /\ job'[q].inode = job[q].inode /\ job'[q].file = job[q].file
        /\ job'[q].torn = job[q].torn
        /\ job'[q].state = job[q].state /\ job'[q].seen = job[q].seen
        /\ job'[q].fresh = job[q].fresh /\ job'[q].program = job[q].program
        /\ job'[q].mine = job[q].mine /\ job'[q].ok = job[q].ok
        /\ job'[q].faulted = job[q].faulted
        /\ job'[q].touched = t /\ job'[q].killed = k
    BY <2>1, <2>2 DEF Job
  <2>5. QED
    BY <2>3, <2>4 DEF Noticed, t, k
<1>3. QED
  BY <1>1, <1>2

LEMMA TurnMoves ==
  ASSUME TypeInv, NEW p \in Proc, NEW l \in Stage, NEW j \in Job,
         NEW changed \in BOOLEAN, NEW kills \in BOOLEAN,
         Goto(p, l), Turn(p, j, changed, kills)
  PROVE  Moves(p, l, j, changed, kills)
<1>1. pc' = [q \in Proc |-> IF q = p THEN l ELSE pc[q]]
  BY DEF TypeInv, Locals, Goto
<1>2. job' = [q \in Proc |-> job'[q]] /\ job'[p] = j
  BY DEF Turn
<1>3. ASSUME NEW q \in Proc \ {p} PROVE Noticed(q, changed, kills)
  <2>1. job[q] \in Job
    BY DEF TypeInv, Fits
  <2>2. job'[q] = IF pc[q] = "idle" THEN Blank
                  ELSE [job[q] EXCEPT !.touched = @ \/ (changed /\ pc[q] \notin Outside),
                                      !.killed = @ \/ (kills /\ pc[q] = "running")]
    BY <1>3 DEF Turn
  <2>3. QED
    BY <2>1, <2>2, NoticedTurn
<1>4. QED
  BY <1>1, <1>2, <1>3 DEF Moves

\* A process that only notices something still holds what it needs.
LEMMA NoticedFits ==
  ASSUME TypeInv, NEW q \in Proc, NEW changed, NEW kills, Noticed(q, changed, kills),
         pc'[q] = pc[q], RunsOK', HostOK', Len(runs) <= Len(runs'),
         Len(token) <= Len(token'), asked => asked'
  PROVE  Fits(pc[q], job[q])'
<1>1. Fits(pc[q], job[q])
  BY DEF TypeInv
<1>2. CASE pc[q] = "idle" /\ job'[q] = Blank
  <2>1. job'[q] \in Job /\ Len(job'[q].mine) = 0
    BY <1>2 DEF Noticed, Blank
  <2>2. "idle" \in Stage /\ "idle" \notin Ensuring \cup Stopping
    BY DEF Stage, Ensuring, Stopping
  <2>3. QED
    BY <1>2, <2>1, <2>2 DEF Fits, Goal, Working, Marking
<1>3. CASE /\ job'[q] \in Job /\ job'[q].next = job[q].next
           /\ job'[q].inode = job[q].inode /\ job'[q].file = job[q].file
           /\ job'[q].program = job[q].program /\ job'[q].mine = job[q].mine
  <2>1. Len(runs) \in Nat /\ Len(runs') \in Nat
    BY DEF TypeInv, RunsOK
  <2>2. 1..Len(runs) \subseteq 1..Len(runs')
    BY <2>1
  <2>3. 1..Len(token) \subseteq 1..Len(token')
    BY DEF TypeInv, HostOK
  <2>4. Marking(pc[q], job[q])'
    BY <1>1, <1>3, <2>3 DEF Fits, Marking
  <2>5. QED
    BY <1>1, <1>3, <2>2, <2>4 DEF Fits, Goal
<1>4. QED
  BY <1>2, <1>3 DEF Noticed

\* It is enough to look at what is shared and at the process that moved.
LEMMA TypeFrame ==
  ASSUME TypeInv, NEW p, NEW l, NEW j, NEW changed, NEW kills, Moves(p, l, j, changed, kills),
         HostOK', BoxOK', RunsOK', CountsOK', Len(runs) <= Len(runs'),
         Len(token) <= Len(token'), asked => asked', Fits(l, j)'
  PROVE  TypeInv'
<1>1. Locals'
  BY DEF Moves, Locals
<1>2. pc'[p] = l /\ job'[p] = j /\ p \in Proc
  BY DEF Moves
<1>3. Fits(pc[p], job[p])'
  BY <1>2 DEF Fits, Goal, Marking
<1>4. ASSUME NEW q \in Proc \ {p} PROVE Fits(pc[q], job[q])'
  <2>1. pc'[q] = pc[q] /\ Noticed(q, changed, kills)
    BY DEF Moves
  <2>2. QED
    BY <2>1, NoticedFits
<1>5. QED
  BY <1>1, <1>3, <1>4 DEF TypeInv

-----------------------------------------------------------------------------
(***************************************************************************)
(* The steps of ensure_running, stop and reset                             *)
(***************************************************************************)
Keeps(j, k) ==
  /\ j.next = k.next /\ j.mine = k.mine /\ j.program = k.program
  /\ j.killed = k.killed /\ j.touched = k.touched

\* p goes on in ensure_running, or in stop and reset, and no run is concerned.
Goes(p, l, j) ==
  /\ j \in Job /\ l \in Stage /\ Keeps(j, job[p])
  /\ \/ pc[p] \in Ensuring /\ l \in Ensuring \cup {job[p].next}
     \/ pc[p] \in Stopping /\ l \in Stopping \cup {"idle"}
     \/ pc[p] \in Ensuring \cup Stopping /\ l = "failed"

\* What is only counted; a sentinel may have been read while it was empty.
Tallied == UNCHANGED <<commands, moves, asked>> /\ misread' \in {misread, TRUE}

Docker(p, l, j, changed, kills) ==
  /\ Goes(p, l, j) /\ Moves(p, l, j, changed, kills)
  /\ faults' \in 0..MaxFaults /\ faults <= faults'
  /\ UNCHANGED <<runs, records>> /\ Tallied

LEMMA DockerType ==
  ASSUME TypeInv, NEW p, NEW l, NEW j, NEW changed, NEW kills,
         Docker(p, l, j, changed, kills), HostOK', Len(token) <= Len(token'), BoxOK',
         Marking(l, j)'
  PROVE  TypeInv'
<1>1. /\ Goes(p, l, j) /\ Moves(p, l, j, changed, kills)
      /\ runs' = runs /\ commands' = commands /\ moves' = moves /\ asked' = asked
      /\ faults' \in 0..MaxFaults /\ misread' \in {misread, TRUE}
  BY DEF Docker, Tallied
<1>2. CountsOK'
  BY <1>1 DEF TypeInv, CountsOK
<1>3. RunsOK'
  <2>1. \A r \in 1..Len(runs) : runs[r].at \in Nat
    <3>1. \A r \in 1..Len(runs) : runs[r] \in Run
      BY DEF TypeInv, RunsOK
    <3>2. QED
      BY <3>1 DEF Run
  <2>2. Len(token) \in Nat /\ Len(token') \in Nat
    BY DEF TypeInv, HostOK
  <2>3. QED
    BY <1>1, <2>1, <2>2 DEF TypeInv, RunsOK
<1>4. Len(runs) <= Len(runs') /\ (asked => asked')
  BY <1>1 DEF TypeInv, RunsOK
<1>5. Fits(pc[p], job[p]) /\ p \in Proc
  BY <1>1 DEF TypeInv, Moves
<1>6. Fits(l, j)'
  <2>1. \A i \in 1..Len(j.mine) : j.mine[i] \in 1..Len(runs')
    BY <1>1, <1>5 DEF Fits, Goes, Keeps
  <2>2. CASE pc[p] \in Ensuring /\ l \in Ensuring \cup {job[p].next}
    <3>1. Goal(l, j) = Goal(pc[p], job[p]) /\ j.next \in Next3
      BY <1>1, <1>5, <2>2 DEF Fits, Goes, Keeps, Goal, Next3, Ensuring
    <3>2. l \notin Stopping \cup {"implement"}
      BY <1>5, <2>2 DEF Fits, Next3, Ensuring, Stopping
    <3>3. QED
      BY <1>1, <1>5, <2>1, <3>1, <3>2 DEF Fits, Goes, Keeps
  <2>3. CASE l \in Stopping \cup {"idle", "failed"} /\ (l \in Stopping => pc[p] \in Stopping)
    <3>1. l \notin Ensuring
      BY <2>3 DEF Ensuring, Stopping
    <3>2. Goal(l, j) \notin Working \cup {"prepare", "judge"} /\ l # "implement"
      BY <2>3, <3>1 DEF Goal, Working, Stopping
    <3>3. QED
      BY <1>1, <1>5, <2>1, <2>3, <3>1, <3>2 DEF Fits, Goes
  <2>4. QED
    BY <1>1, <2>2, <2>3 DEF Goes, Stopping
<1>7. QED
  BY <1>1, <1>2, <1>3, <1>4, <1>6, TypeFrame

\* How a docker command ends: as asked, without a container to do it to, or with a fault.
Outcome(p, can, b, next, check, l, j) ==
  \/ /\ j.faulted = job[p].faulted /\ faults' = faults
     /\ IF can THEN box' = b /\ l = next
        ELSE box' = box /\ l = IF check THEN "failed" ELSE next
  \/ /\ j.faulted /\ faults' = faults + 1 /\ l \in {next, "failed"}
     /\ box' = box \/ (can /\ box' = b)

\* A docker command of p and what becomes of it.
Does(p, can, b, next, check) ==
  \E l, j :
    /\ Docker(p, l, j, box' # box, Up /\ ~Up') /\ host' = host
    /\ j.state = job[p].state /\ j.seen = job[p].seen /\ j.fresh = job[p].fresh
    /\ j.torn = job[p].torn /\ l \notin {"stamp", "write"}
    /\ Outcome(p, can, b, next, check, l, j)

LEMMA CommandStep ==
  ASSUME TypeInv, NEW p \in Proc, NEW can \in BOOLEAN, NEW b, NEW next \in Stage,
         NEW check \in BOOLEAN, Command(p, can, b, next, check),
         \/ pc[p] \in Ensuring /\ next \in (Ensuring \ {"stamp", "write"}) \cup {"failed"}
         \/ pc[p] \in Stopping /\ next \in Stopping \cup {"idle"}
  PROVE  Does(p, can, b, next, check)
<1>1. job[p] \in Job /\ faults \in 0..MaxFaults /\ "failed" \in Stage /\ MaxFaults \in Nat
  BY ExperimentAssumption DEF TypeInv, Fits, CountsOK, Stage
<1> DEFINE With(f) == [job[p] EXCEPT !.faulted = f]
<1>0. host' = host /\ UNCHANGED <<runs, records, counts>>
  BY DEF Command
<1>2. ASSUME NEW f \in BOOLEAN
      PROVE  /\ With(f) \in Job /\ With(f).faulted = f /\ Keeps(With(f), job[p])
             /\ With(f).state = job[p].state /\ With(f).seen = job[p].seen
             /\ With(f).fresh = job[p].fresh /\ With(f).torn = job[p].torn
  <2>1. With(f) \in Job
    BY <1>1, JobUpdates
  <2>2. QED
    BY <1>1, <2>1 DEF Keeps, Job
<1>3. ASSUME NEW l \in {next, "failed"}, NEW f \in BOOLEAN, Goto(p, l),
             Becomes(p, box', f), faults' \in 0..MaxFaults, faults <= faults'
      PROVE  \E j : /\ Docker(p, l, j, box' # box, Up /\ ~Up') /\ host' = host
                    /\ j.state = job[p].state /\ j.seen = job[p].seen
                    /\ j.fresh = job[p].fresh /\ j.faulted = (job[p].faulted \/ f)
                    /\ j.torn = job[p].torn /\ l \notin {"stamp", "write"}
  <2>1. (job[p].faulted \/ f) \in BOOLEAN
    OBVIOUS
  <2>2. PICK j : j = With(job[p].faulted \/ f)
    OBVIOUS
  <2>3. /\ j \in Job /\ j.faulted = (job[p].faulted \/ f) /\ Keeps(j, job[p])
        /\ j.state = job[p].state /\ j.seen = job[p].seen /\ j.fresh = job[p].fresh
        /\ j.torn = job[p].torn
    BY <1>2, <2>1, <2>2
  <2>4. Turn(p, j, box' # box, Up /\ ~Up')
    <3>1. (Up /\ (box' = None \/ ~box'.up)) = (Up /\ ~Up')
      BY DEF Up, Present
    <3>2. QED
      BY <1>3, <2>2, <3>1 DEF Becomes
  <2>5. (box' # box) \in BOOLEAN /\ (Up /\ ~Up') \in BOOLEAN
    OBVIOUS
  <2>6. l \in Stage /\ Goto(p, l)
    BY <1>1, <1>3
  <2>7. Moves(p, l, j, box' # box, Up /\ ~Up')
    BY <2>3, <2>4, <2>5, <2>6, TurnMoves
  <2>8. Goes(p, l, j)
    BY <2>3, <2>6 DEF Goes
  <2>9. l \notin {"stamp", "write"}
    BY <1>3 DEF Stopping
  <2>10. QED
    BY <1>0, <1>3, <2>3, <2>7, <2>8, <2>9 DEF Docker, Tallied, counts
<1>4. /\ Fault => faults' \in 0..MaxFaults /\ faults <= faults' /\ faults' = faults + 1
      /\ faults' = faults => faults' \in 0..MaxFaults /\ faults <= faults'
      /\ (job[p].faulted \/ FALSE) = job[p].faulted
  BY <1>1 DEF Fault, Job
<1>5. CASE can /\ Becomes(p, b, FALSE) /\ Goto(p, next) /\ UNCHANGED faults
  <2>1. Becomes(p, box', FALSE) /\ box' = b
    BY <1>5 DEF Becomes
  <2>2. QED
    BY <1>3, <1>4, <1>5, <2>1 DEF Outcome, Does
<1>6. CASE /\ ~can /\ Becomes(p, box, FALSE) /\ UNCHANGED faults
           /\ Goto(p, IF check THEN "failed" ELSE next)
  <2>1. Becomes(p, box', FALSE) /\ box' = box
    BY <1>6 DEF Becomes
  <2>2. QED
    BY <1>3, <1>4, <1>6, <2>1 DEF Outcome, Does
<1>7. CASE ~check /\ Fault /\ Becomes(p, box, TRUE) /\ Goto(p, next)
  <2>1. Becomes(p, box', TRUE) /\ box' = box
    BY <1>7 DEF Becomes
  <2>2. QED
    BY <1>3, <1>4, <1>7, <2>1 DEF Outcome, Does
<1>8. CASE /\ Fault /\ Goto(p, "failed")
           /\ \E after \in {box} \cup (IF can THEN {b} ELSE {}) : Becomes(p, after, TRUE)
  <2>1. Becomes(p, box', TRUE) /\ (box' = box \/ (can /\ box' = b))
    BY <1>8 DEF Becomes
  <2>2. QED
    BY <1>3, <1>4, <1>8, <2>1 DEF Outcome, Does
<1>9. QED
  BY <1>5, <1>6, <1>7, <1>8 DEF Command

\* A step in which p looks at the container, or at what it knows.
Looks(p, l, j) ==
  /\ Docker(p, l, j, FALSE, FALSE) /\ l \notin {"stamp", "write"}
  /\ UNCHANGED <<host, box>>

LEMMA LookTallied ==
  ASSUME TypeInv, NEW p \in Proc, NEW l, NEW j, Goto(p, l), Local(p, j), Goes(p, l, j),
         l \notin {"stamp", "write"}, Fault \/ faults' = faults,
         UNCHANGED <<host, box, runs, records>>, Tallied
  PROVE  Looks(p, l, j)
<1>1. l \in Stage /\ j \in Job
  BY DEF Goes
<1>2. Moves(p, l, j, FALSE, FALSE)
  BY <1>1, TurnMoves DEF Local
<1>3. faults' \in 0..MaxFaults /\ faults <= faults'
  BY ExperimentAssumption DEF TypeInv, CountsOK, Fault
<1>4. QED
  BY <1>2, <1>3 DEF Looks, Docker

LEMMA LookStep ==
  ASSUME TypeInv, NEW p \in Proc, NEW l, NEW j, Goto(p, l), Local(p, j), Goes(p, l, j),
         l \notin {"stamp", "write"}, Fault \/ faults' = faults,
         UNCHANGED <<host, box, runs, records, counts>>
  PROVE  Looks(p, l, j)
<1>1. UNCHANGED <<host, box, runs, records>> /\ Tallied
  BY DEF Tallied, counts
<1>2. QED
  BY <1>1, LookTallied

\* The docker command that should have answered failed.
Broken(p, l, j) ==
  l = "failed" /\ j.faulted /\ faults' = faults + 1

LEMMA BrokenStep ==
  ASSUME TypeInv, NEW p \in Proc, pc[p] \in Ensuring \cup Stopping, Fault, Goto(p, "failed"),
         Local(p, [job[p] EXCEPT !.faulted = TRUE]),
         UNCHANGED <<host, box, runs, records, counts>>
  PROVE  \E l, j : Looks(p, l, j) /\ Broken(p, l, j)
<1>1. job[p] \in Job
  BY DEF TypeInv, Fits
<1>2. PICK j : j = [job[p] EXCEPT !.faulted = TRUE]
  OBVIOUS
<1>3. j \in Job
  BY <1>1, <1>2, JobUpdates
<1>4. j.faulted /\ Keeps(j, job[p])
  BY <1>1, <1>2 DEF Job, Keeps
<1>5. Goes(p, "failed", j)
  BY <1>3, <1>4 DEF Goes, Stage
<1>6. Local(p, j)
  BY <1>2
<1>7. Looks(p, "failed", j)
  BY <1>5, <1>6, LookStep
<1>8. QED
  BY <1>4, <1>7 DEF Broken, Fault

\* What p knows of the host when it is about to open the sentinel, to write or to inspect.
Marks(p, l, j, changed) ==
  /\ Docker(p, l, j, changed, FALSE) /\ Marking(l, j)'
  /\ box' = box /\ faults' = faults
  /\ j.faulted = job[p].faulted /\ j.torn = job[p].torn
  /\ HostOK' /\ Len(token) <= Len(token')

LEMMA MarksStep ==
  ASSUME TypeInv, NEW p \in Proc, NEW l, NEW j \in Job, NEW changed \in BOOLEAN,
         Goto(p, l), Turn(p, j, changed, FALSE), Goes(p, l, j), Marking(l, j)',
         j.faulted = job[p].faulted, j.torn = job[p].torn, HostOK', Len(token) <= Len(token'),
         UNCHANGED <<box, runs, records, counts, faults>>
  PROVE  Marks(p, l, j, changed)
<1>1. Moves(p, l, j, changed, FALSE)
  BY TurnMoves DEF Goes
<1>2. faults' \in 0..MaxFaults /\ faults <= faults'
  BY ExperimentAssumption DEF TypeInv, CountsOK
<1>3. Docker(p, l, j, changed, FALSE)
  BY <1>1, <1>2 DEF Docker, Tallied, counts
<1>4. QED
  BY <1>3 DEF Marks

\* mkdir, when there is no directory.
LEMMA MadeDir ==
  ASSUME TypeInv,
         IF dir = 0 THEN dir' = Len(token) + 1 /\ token' = Append(token, 0) ELSE UNCHANGED host
  PROVE  /\ HostOK' /\ dir' # 0 /\ dir' = Len(token') /\ Len(token) <= Len(token')
         /\ dir # 0 => dir' = dir /\ token' = token
         /\ dir = 0 => /\ Len(token') = Len(token) + 1 /\ token'[Len(token) + 1] = 0
                       /\ \A d \in 1..Len(token) : token'[d] = token[d]
<1>2. dir \in Nat /\ token \in Seq(Int) /\ Len(token) \in Nat /\ dir \in {0, Len(token)}
  BY DEF TypeInv, HostOK
<1>3. CASE dir = 0
  <3>1. dir' = Len(token) + 1 /\ token' = Append(token, 0) /\ 0 \in Int
    BY <1>3
  <3>2. /\ token' \in Seq(Int) /\ Len(token') = Len(token) + 1
        /\ \A d \in 1..Len(token) : token'[d] = token[d]
        /\ token'[Len(token) + 1] = 0
    BY <1>2, <3>1, AppendProperties
  <3>3. ASSUME NEW d \in 1..Len(token') PROVE token'[d] \in {Empty} \cup 0..d
    <4>1. d \in 1..Len(token) \/ d = Len(token) + 1
      BY <1>2, <3>2
    <4>2. CASE d \in 1..Len(token)
      <5>1. token'[d] = token[d] /\ token[d] \in {Empty} \cup 0..d
        BY <3>2, <4>2 DEF TypeInv, HostOK
      <5>2. QED
        BY <5>1
    <4>3. CASE d = Len(token) + 1
      <5>1. token'[d] = 0 /\ d \in Nat
        BY <1>2, <3>2, <4>3
      <5>2. QED
        BY <5>1
    <4>4. QED
      BY <4>1, <4>2, <4>3
  <3>4. HostOK'
    BY <1>2, <3>1, <3>2, <3>3 DEF HostOK
  <3>5. QED
    BY <1>2, <1>3, <3>1, <3>2, <3>4
<1>4. CASE dir # 0
  <3>1. dir' = dir /\ token' = token
    BY <1>4 DEF host
  <3>2. QED
    BY <1>2, <1>4, <3>1 DEF TypeInv, HostOK
<1>5. QED
  BY <1>3, <1>4

\* A token is written into a sentinel.
LEMMA Inscribed ==
  ASSUME TypeInv, NEW d \in 1..Len(token), NEW n \in {Empty} \cup 0..d,
         token' = [token EXCEPT ![d] = n], dir' \in {0, dir}
  PROVE  /\ HostOK' /\ Len(token') = Len(token) /\ token'[d] = n
         /\ \A e \in 1..Len(token) : e # d => token'[e] = token[e]
<1>1. /\ dir \in Nat /\ token \in Seq(Int) /\ Len(token) \in Nat /\ dir \in {0, Len(token)}
      /\ n \in Int
  BY DEF TypeInv, HostOK, Empty
<1>2. Len(token) > 0
  BY <1>1
<1>3. /\ token' \in Seq(Int) /\ Len(token') = Len(token) /\ token'[d] = n
      /\ \A e \in 1..Len(token) : e # d => token'[e] = token[e]
  BY <1>1, <1>2, ExceptSeq
<1>4. \A e \in 1..Len(token') : token'[e] \in {Empty} \cup 0..e
  BY <1>3 DEF TypeInv, HostOK
<1>5. dir' \in Nat /\ dir' \in {0, Len(token')}
  <2>1. dir' = 0 \/ dir' = dir
    OBVIOUS
  <2>2. dir' \in Nat
    BY <1>1, <2>1
  <2>3. dir' = 0 \/ dir' = Len(token')
    BY <1>1, <1>3, <2>1, Zenon
  <2>4. QED
    BY <2>2, <2>3, Zenon
<1>6. HostOK'
  BY <1>3, <1>4, <1>5, Zenon DEF HostOK
<1>7. QED
  BY <1>3, <1>6

LEMMA DirsStep ==
  ASSUME TypeInv, NEW p \in Proc, Dirs(p)
  PROVE  \E j : /\ Marks(p, "stamp", j, dir' # dir) /\ j.inode = dir'
                /\ dir' # 0 /\ dir' = Len(token')
                /\ dir # 0 => dir' = dir /\ token' = token
                /\ dir = 0 => /\ Len(token') = Len(token) + 1 /\ token'[Len(token) + 1] = 0
                              /\ \A d \in 1..Len(token) : token'[d] = token[d]
<1>1. job[p] \in Job /\ pc[p] = "dirs" /\ UNCHANGED <<box, runs, records, counts, faults>>
  BY DEF TypeInv, Fits, Dirs
<1>2. /\ HostOK' /\ dir' # 0 /\ dir' = Len(token') /\ Len(token) <= Len(token')
      /\ dir # 0 => dir' = dir /\ token' = token
      /\ dir = 0 => /\ Len(token') = Len(token) + 1 /\ token'[Len(token) + 1] = 0
                    /\ \A d \in 1..Len(token) : token'[d] = token[d]
  BY MadeDir DEF Dirs
<1>3. PICK n \in Nat : n = dir'
  BY <1>2 DEF HostOK
<1>4. PICK j : j = [job[p] EXCEPT !.inode = n]
  OBVIOUS
<1>5. j \in Job
  BY <1>1, <1>4, JobUpdates
<1>6. j.inode = n /\ Keeps(j, job[p]) /\ j.faulted = job[p].faulted /\ j.torn = job[p].torn
  BY <1>1, <1>4 DEF Job, Keeps
<1>7. Goes(p, "stamp", j)
  BY <1>1, <1>5, <1>6 DEF Goes, Stage, Ensuring
<1>8. Marking("stamp", j)'
  BY <1>2, <1>3, <1>6 DEF Marking, HostOK
<1>9. Goto(p, "stamp") /\ Turn(p, j, dir' # dir, FALSE)
  BY <1>3, <1>4 DEF Dirs
<1>10. (dir' # dir) \in BOOLEAN
  OBVIOUS
<1>11. Marks(p, "stamp", j, dir' # dir)
  BY <1>1, <1>2, <1>5, <1>6, <1>7, <1>8, <1>9, <1>10, MarksStep
<1>12. QED
  BY <1>2, <1>3, <1>6, <1>11

LEMMA StampStep ==
  ASSUME TypeInv, NEW p \in Proc, Stamp(p)
  PROVE  \E l, j : /\ Marks(p, l, j, FALSE) /\ dir' = dir
                   /\ \/ l = "failed" /\ dir = 0 /\ token' = token
                      \/ /\ l = "write" /\ dir # 0 /\ j.file = dir /\ j.inode = job[p].inode
                         /\ token' = [token EXCEPT ![dir] = Empty]
<1>1. /\ Fits(pc[p], job[p]) /\ job[p] \in Job /\ pc[p] = "stamp" /\ dir' = dir
      /\ UNCHANGED <<box, runs, records, counts, faults>>
  BY DEF TypeInv, Fits, Stamp
<1>2. dir \in Nat /\ token \in Seq(Int) /\ Len(token) \in Nat /\ dir \in {0, Len(token)}
  BY DEF TypeInv, HostOK
<1>3. CASE dir = 0
  <2>1. PICK j : j = job[p]
    OBVIOUS
  <2>2. Goto(p, "failed") /\ Turn(p, j, FALSE, FALSE) /\ token' = token
    BY <1>3, <2>1 DEF Stamp, Local
  <2>3. Goes(p, "failed", j)
    BY <1>1, <2>1 DEF Goes, Stage, Ensuring, Keeps
  <2>4. HostOK' /\ Len(token) <= Len(token')
    BY <1>1, <1>2, <2>2 DEF TypeInv, HostOK
  <2>5. Marking("failed", j)'
    BY DEF Marking
  <2>6. Marks(p, "failed", j, FALSE)
    BY <1>1, <2>1, <2>2, <2>3, <2>4, <2>5, MarksStep
  <2>7. QED
    BY <1>1, <1>3, <2>2, <2>6
<1>4. CASE dir # 0
  <2>1. PICK n \in Nat : n = dir
    BY <1>2
  <2>2. PICK j : j = [job[p] EXCEPT !.file = n]
    OBVIOUS
  <2>3. j \in Job
    BY <1>1, <2>2, JobUpdates
  <2>4. /\ j.file = n /\ j.inode = job[p].inode /\ Keeps(j, job[p])
        /\ j.faulted = job[p].faulted /\ j.torn = job[p].torn
    BY <1>1, <2>2 DEF Job, Keeps
  <2>5. Goto(p, "write") /\ Turn(p, j, FALSE, FALSE) /\ token' = [token EXCEPT ![dir] = Empty]
    BY <1>4, <2>1, <2>2 DEF Stamp, Local
  <2>6. Goes(p, "write", j)
    BY <1>1, <2>3, <2>4 DEF Goes, Stage, Ensuring
  <2>7. dir \in 1..Len(token) /\ Empty \in {Empty} \cup 0..dir
    BY <1>2, <1>4
  <2>8. HostOK' /\ Len(token') = Len(token)
    BY <1>1, <2>5, <2>7, Inscribed
  <2>9. job[p].inode \in 1..Len(token)
    BY <1>1 DEF Fits, Marking
  <2>10. Marking("write", j)'
    BY <1>2, <1>4, <2>1, <2>4, <2>8, <2>9 DEF Marking
  <2>11. Len(token) <= Len(token')
    BY <1>2, <2>8
  <2>12. Marks(p, "write", j, FALSE)
    BY <1>1, <2>3, <2>4, <2>5, <2>6, <2>8, <2>10, <2>11, MarksStep
  <2>13. QED
    BY <1>1, <1>4, <2>1, <2>4, <2>5, <2>12
<1>5. QED
  BY <1>3, <1>4

\* Where p's open sentinel still is one, and names another directory from now on.
Rewrites(p) == token[job[p].file] # 0 /\ job[p].inode # job[p].file

LEMMA WriteStep ==
  ASSUME TypeInv, NEW p \in Proc, Write(p)
  PROVE  \E j : /\ Marks(p, "inspect", j, Rewrites(p)) /\ dir' = dir
                /\ Len(token') = Len(token)
                /\ token' = IF token[job[p].file] # 0
                            THEN [token EXCEPT ![job[p].file] = job[p].inode] ELSE token
<1>1. /\ Fits(pc[p], job[p]) /\ job[p] \in Job /\ pc[p] = "write" /\ dir' = dir
      /\ UNCHANGED <<box, runs, records, counts, faults>>
      /\ Goto(p, "inspect")
      /\ token' = IF token[job[p].file] # 0
                  THEN [token EXCEPT ![job[p].file] = job[p].inode] ELSE token
  BY DEF TypeInv, Fits, Write, Stamped
<1>2. PICK j : j = [job[p] EXCEPT !.inode = 0, !.file = 0]
  OBVIOUS
<1>3. j \in Job
  BY <1>1, <1>2, JobUpdates
<1>4. Keeps(j, job[p]) /\ j.faulted = job[p].faulted /\ j.torn = job[p].torn
  BY <1>1, <1>2 DEF Job, Keeps
<1>5. Turn(p, j, Rewrites(p), FALSE)
  BY <1>2 DEF Write, Stamped, Rewrites
<1>6. Goes(p, "inspect", j)
  BY <1>1, <1>3, <1>4 DEF Goes, Stage, Ensuring
<1>7. Marking("inspect", j)'
  BY DEF Marking
<1>8. HostOK' /\ Len(token') = Len(token)
  <2>1. CASE token[job[p].file] = 0
    <3>1. token' = token
      BY <1>1, <2>1
    <3>2. QED
      BY <1>1, <3>1 DEF TypeInv, HostOK
  <2>2. CASE token[job[p].file] # 0
    <3>1. PICK d \in 1..Len(token) : d = job[p].file
      BY <1>1 DEF Fits, Marking
    <3>2. PICK n \in Nat : n = job[p].inode /\ n <= d
      BY <1>1, <3>1 DEF Fits, Marking, Job
    <3>3. d \in Nat /\ n \in {Empty} \cup 0..d /\ token' = [token EXCEPT ![d] = n]
      BY <1>1, <2>2, <3>1, <3>2
    <3>4. QED
      BY <1>1, <3>3, Inscribed
  <2>3. QED
    BY <2>1, <2>2
<1>9. Len(token) <= Len(token')
  BY <1>8 DEF TypeInv, HostOK
<1>10. Rewrites(p) \in BOOLEAN
  BY DEF Rewrites
<1>11. PICK c \in BOOLEAN : c = Rewrites(p)
  BY <1>10
<1>12. Marks(p, "inspect", j, c)
  BY <1>1, <1>3, <1>4, <1>5, <1>6, <1>7, <1>8, <1>9, <1>11, MarksStep
<1>13. QED
  BY <1>1, <1>8, <1>11, <1>12

LEMMA DirsFailStep ==
  ASSUME TypeInv, NEW p \in Proc, DirsFail(p)
  PROVE  \E l, j : Looks(p, l, j) /\ Broken(p, l, j)
BY BrokenStep DEF DirsFail, Ensuring

LEMMA InspectStep ==
  ASSUME TypeInv, NEW p \in Proc, Inspect(p)
  PROVE  \E l, j :
           /\ Looks(p, l, j)
           /\ \/ Broken(p, l, j)
              \/ /\ l = IF j.state = "absent" THEN "create" ELSE "mount"
                 /\ j.state = Status => j.faulted = job[p].faulted
                 /\ j.state # Status => j.faulted /\ faults' = faults + 1
<1> DEFINE Saw(s) == [job[p] EXCEPT !.state = s, !.faulted = job[p].faulted \/ s # Status]
           Stage2(s) == IF s = "absent" THEN "create" ELSE "mount"
<1>1. job[p] \in Job /\ pc[p] = "inspect" /\ UNCHANGED <<host, box, runs, records, counts>>
  BY DEF TypeInv, Fits, Inspect, Ask
<1>2. Status \in State
  BY DEF Status, State
<1>3. ASSUME NEW s \in State, Goto(p, Stage2(s)), Local(p, Saw(s)),
             Fault \/ faults' = faults, s # Status => faults' = faults + 1
      PROVE  \E l, j :
               /\ Looks(p, l, j)
               /\ l = IF j.state = "absent" THEN "create" ELSE "mount"
               /\ j.state = Status => j.faulted = job[p].faulted
               /\ j.state # Status => j.faulted /\ faults' = faults + 1
  <2>1. PICK f \in BOOLEAN : f = (job[p].faulted \/ s # Status)
    OBVIOUS
  <2>2. PICK j : j = [job[p] EXCEPT !.state = s, !.faulted = f]
    OBVIOUS
  <2>3. j \in Job
    BY <1>1, <2>2, JobUpdates
  <2>4. j.state = s /\ j.faulted = f /\ Keeps(j, job[p])
    BY <1>1, <2>2 DEF Job, Keeps
  <2>5. PICK l : l = Stage2(s)
    OBVIOUS
  <2>6. Goes(p, l, j)
    BY <1>1, <2>3, <2>4, <2>5 DEF Goes, Stage, Ensuring
  <2>7. Goto(p, l) /\ Local(p, j)
    BY <1>3, <2>1, <2>2, <2>5
  <2>8. Looks(p, l, j)
    BY <1>1, <1>3, <2>5, <2>6, <2>7, LookStep
  <2>9. job[p].faulted \in BOOLEAN
    BY <1>1 DEF Job
  <2>10. QED
    BY <1>3, <2>1, <2>4, <2>5, <2>8, <2>9
<1>4. \/ Goto(p, Stage2(Status)) /\ Local(p, Saw(Status)) /\ faults' = faults
      \/ Fault /\ Goto(p, Stage2("absent")) /\ Local(p, Saw("absent"))
      \/ Fault /\ Goto(p, "failed") /\ Local(p, [job[p] EXCEPT !.faulted = TRUE])
  BY DEF Inspect, Ask
<1>5. PICK s \in State : s = Status
  BY <1>2
<1>6. CASE Goto(p, Stage2(Status)) /\ Local(p, Saw(Status)) /\ faults' = faults
  <2>1. Goto(p, Stage2(s)) /\ Local(p, Saw(s))
    BY <1>5, <1>6
  <2>2. QED
    BY <1>3, <1>5, <1>6, <2>1
<1>7. CASE Fault /\ Goto(p, Stage2("absent")) /\ Local(p, Saw("absent"))
  <2>1. "absent" \in State /\ faults' = faults + 1
    BY <1>7 DEF State, Fault
  <2>2. QED
    BY <1>3, <1>7, <2>1
<1>8. CASE Fault /\ Goto(p, "failed") /\ Local(p, [job[p] EXCEPT !.faulted = TRUE])
  BY <1>1, <1>8, BrokenStep DEF Ensuring
<1>9. QED
  BY <1>4, <1>6, <1>7, <1>8

LEMMA MountStep ==
  ASSUME TypeInv, NEW p \in Proc, Mount(p)
  PROVE  \E l, j :
           /\ Looks(p, l, j)
           /\ \/ Broken(p, l, j)
              \/ /\ Present /\ j.faulted = job[p].faulted
                 /\ l = IF job[p].state = "running" THEN "probe" ELSE "start"
              \/ /\ l = IF job[p].state = "running" THEN "evict" ELSE "remove"
                 /\ job[p].faulted => j.faulted
                 /\ ~Present \/ (j.faulted /\ faults' = faults + 1)
<1> DEFINE With(f) == [job[p] EXCEPT !.faulted = job[p].faulted \/ f]
           To(answer) == IF answer THEN IF job[p].state = "running" THEN "probe" ELSE "start"
                         ELSE IF job[p].state = "running" THEN "evict" ELSE "remove"
<1>1. job[p] \in Job /\ pc[p] = "mount" /\ UNCHANGED <<host, box, runs, records, counts>>
  BY DEF TypeInv, Fits, Mount, Ask
<1>2. ASSUME NEW a \in BOOLEAN, NEW f \in BOOLEAN, Goto(p, To(a)), Local(p, With(f)),
             Fault \/ faults' = faults
      PROVE  \E l, j : Looks(p, l, j) /\ l = To(a) /\ j.faulted = (job[p].faulted \/ f)
  <2>1. PICK g \in BOOLEAN : g = (job[p].faulted \/ f)
    OBVIOUS
  <2>2. PICK j : j = [job[p] EXCEPT !.faulted = g]
    OBVIOUS
  <2>3. j \in Job
    BY <1>1, <2>2, JobUpdates
  <2>4. j.faulted = g /\ Keeps(j, job[p])
    BY <1>1, <2>2 DEF Job, Keeps
  <2>5. PICK l : l = To(a)
    OBVIOUS
  <2>6. Goes(p, l, j)
    BY <1>1, <2>3, <2>4, <2>5 DEF Goes, Stage, Ensuring
  <2>7. Goto(p, l) /\ Local(p, j)
    BY <1>2, <2>1, <2>2, <2>5
  <2>8. Looks(p, l, j)
    BY <1>1, <1>2, <2>5, <2>6, <2>7, LookStep
  <2>9. QED
    BY <2>1, <2>4, <2>5, <2>8
<1>3. \/ Goto(p, To(Present)) /\ Local(p, With(FALSE)) /\ faults' = faults
      \/ Fault /\ Goto(p, To(FALSE)) /\ Local(p, With(TRUE))
      \/ Fault /\ Goto(p, "failed") /\ Local(p, [job[p] EXCEPT !.faulted = TRUE])
  BY DEF Mount, Ask
<1>4. CASE Goto(p, To(Present)) /\ Local(p, With(FALSE)) /\ faults' = faults
  <2>1. PICK a \in BOOLEAN : a = Present
    BY DEF Present
  <2>2. Goto(p, To(a))
    BY <1>4, <2>1
  <2>3. (job[p].faulted \/ FALSE) = job[p].faulted
    BY <1>1 DEF Job
  <2>4. QED
    BY <1>2, <1>4, <2>1, <2>2, <2>3
<1>5. CASE Fault /\ Goto(p, To(FALSE)) /\ Local(p, With(TRUE))
  <2>1. faults' = faults + 1
    BY <1>5 DEF Fault
  <2>2. QED
    BY <1>2, <1>5, <2>1
<1>6. CASE Fault /\ Goto(p, "failed") /\ Local(p, [job[p] EXCEPT !.faulted = TRUE])
  BY <1>1, <1>6, BrokenStep DEF Ensuring
<1>7. QED
  BY <1>3, <1>4, <1>5, <1>6

Token == IF Up THEN token[box.on] ELSE 0

LEMMA ProbeStep ==
  ASSUME TypeInv, NEW p \in Proc, Probe(p)
  PROVE  \E l, j :
           /\ Looks(p, l, j)
           /\ \/ Broken(p, l, j)
              \/ /\ l = "compare" /\ j.fresh = (pc[p] = "created")
                 /\ \/ j.seen = Token /\ j.faulted = job[p].faulted
                    \/ j.seen = 0 /\ j.faulted /\ faults' = faults + 1
<1> DEFINE Saw(n, f) == [job[p] EXCEPT !.seen = n, !.fresh = pc[p] = "created",
                                       !.faulted = job[p].faulted \/ f]
<1>1. /\ job[p] \in Job /\ pc[p] \in Ensuring
      /\ UNCHANGED <<host, box, runs, records, counts>>
  BY DEF TypeInv, Fits, Probe, Ask, Ensuring
<1>2. Token \in Int
  <2>1. CASE Up
    <3>1. box.on \in 1..Len(token) /\ token \in Seq(Int)
      BY <2>1 DEF Up, Present, TypeInv, BoxOK, HostOK
    <3>2. QED
      BY <2>1, <3>1 DEF Token
  <2>2. CASE ~Up
    BY <2>2 DEF Token
  <2>3. QED
    BY <2>1, <2>2
<1>3. ASSUME NEW n \in Int, NEW f \in BOOLEAN, Goto(p, "compare"), Local(p, Saw(n, f)),
             Fault \/ faults' = faults
      PROVE  \E l, j : /\ Looks(p, l, j) /\ l = "compare" /\ j.fresh = (pc[p] = "created")
                       /\ j.seen = n /\ j.faulted = (job[p].faulted \/ f)
  <2>1. PICK g \in BOOLEAN, c \in BOOLEAN : g = (job[p].faulted \/ f) /\ c = (pc[p] = "created")
    OBVIOUS
  <2>2. PICK j : j = [job[p] EXCEPT !.seen = n, !.fresh = c, !.faulted = g]
    OBVIOUS
  <2>3. j \in Job
    BY <1>1, <2>2, JobUpdates
  <2>4. j.seen = n /\ j.fresh = c /\ j.faulted = g /\ Keeps(j, job[p])
    BY <1>1, <2>2 DEF Job, Keeps
  <2>5. Goes(p, "compare", j)
    BY <1>1, <2>3, <2>4 DEF Goes, Stage, Ensuring
  <2>6. Local(p, j)
    BY <1>3, <2>1, <2>2
  <2>7. Looks(p, "compare", j)
    BY <1>1, <1>3, <2>5, <2>6, LookStep
  <2>8. QED
    BY <2>1, <2>4, <2>7
<1>4. \/ Goto(p, "compare") /\ Local(p, Saw(Token, FALSE)) /\ faults' = faults
      \/ Fault /\ Goto(p, "compare") /\ Local(p, Saw(0, TRUE))
      \/ Fault /\ Goto(p, "failed") /\ Local(p, [job[p] EXCEPT !.faulted = TRUE])
  BY DEF Probe, Ask, Token
<1>5. CASE Goto(p, "compare") /\ Local(p, Saw(Token, FALSE)) /\ faults' = faults
  <2>1. PICK n \in Int : n = Token
    BY <1>2
  <2>2. Local(p, Saw(n, FALSE))
    BY <1>5, <2>1
  <2>3. (job[p].faulted \/ FALSE) = job[p].faulted
    BY <1>1 DEF Job
  <2>4. PICK l, j : /\ Looks(p, l, j) /\ l = "compare" /\ j.fresh = (pc[p] = "created")
                    /\ j.seen = n /\ j.faulted = (job[p].faulted \/ FALSE)
    <3> HIDE DEF Saw
    <3>1. QED
      BY <1>3, <1>5, <2>2
  <2>5. QED
    BY <2>1, <2>3, <2>4
<1>6. CASE Fault /\ Goto(p, "compare") /\ Local(p, Saw(0, TRUE))
  <2>1. faults' = faults + 1
    BY <1>6 DEF Fault
  <2>2. PICK l, j : /\ Looks(p, l, j) /\ l = "compare" /\ j.fresh = (pc[p] = "created")
                    /\ j.seen = 0 /\ j.faulted = (job[p].faulted \/ TRUE)
    <3> HIDE DEF Saw
    <3>0. PICK f \in BOOLEAN : f = TRUE
      OBVIOUS
    <3>1. PICK n \in Int : n = 0 /\ f = TRUE
      BY <3>0
    <3>2. Goto(p, "compare") /\ Local(p, Saw(n, f)) /\ (Fault \/ faults' = faults)
      BY <1>6, <3>1
    <3>3. \E l, j : /\ Looks(p, l, j) /\ l = "compare" /\ j.fresh = (pc[p] = "created")
                    /\ j.seen = n /\ j.faulted = (job[p].faulted \/ f)
      BY <1>3, <3>2
    <3>4. QED
      BY <3>1, <3>3
  <2>3. QED
    BY <2>1, <2>2
<1>7. CASE Fault /\ Goto(p, "failed") /\ Local(p, [job[p] EXCEPT !.faulted = TRUE])
  BY <1>1, <1>7, BrokenStep
<1>8. QED
  BY <1>4, <1>5, <1>6, <1>7

LEMMA CompareStep ==
  ASSUME TypeInv, NEW p \in Proc, Compare(p)
  PROVE  \E l, j :
           /\ Looks(p, l, j) /\ faults' = faults /\ j.faulted = job[p].faulted
           /\ j.torn = Torn(p) /\ misread' = (misread \/ Torn(p))
           /\ l = IF Healthy(p) THEN job[p].next ELSE IF job[p].fresh THEN "discard" ELSE "drop"
<1>1. Fits(pc[p], job[p]) /\ pc[p] = "compare"
  BY DEF TypeInv, Compare
<1>2. PICK t \in BOOLEAN : t = Torn(p)
  BY DEF Torn
<1>3. PICK j : j = [job[p] EXCEPT !.seen = 0, !.state = "absent", !.fresh = FALSE, !.torn = t]
  OBVIOUS
<1>4. j \in Job
  BY <1>1, <1>3, JobUpdates DEF Fits
<1>5. j.faulted = job[p].faulted /\ j.torn = t /\ Keeps(j, job[p])
  BY <1>1, <1>3 DEF Fits, Job, Keeps
<1>6. PICK l : l = IF Healthy(p) THEN job[p].next ELSE IF job[p].fresh THEN "discard" ELSE "drop"
  OBVIOUS
<1>7. Goes(p, l, j) /\ l \notin {"stamp", "write"}
  BY <1>1, <1>4, <1>5, <1>6 DEF Fits, Goes, Stage, Ensuring, Next3
<1>8. /\ Goto(p, l) /\ Local(p, j) /\ faults' = faults /\ misread' = (misread \/ Torn(p))
      /\ UNCHANGED <<host, box, runs, records, commands, moves, asked>>
  BY <1>2, <1>3, <1>6 DEF Compare
<1>9. misread \in BOOLEAN
  BY DEF TypeInv, CountsOK
<1>10. Tallied
  BY <1>2, <1>8, <1>9 DEF Tallied
<1>11. Looks(p, l, j)
  BY <1>7, <1>8, <1>10, LookTallied
<1>12. QED
  BY <1>2, <1>5, <1>6, <1>8, <1>11

Halted == [box EXCEPT !.up = FALSE]
Fresh == [on |-> dir, up |-> TRUE]

\* What p does in the stages that have docker do something.
LEMMA ReplaceStep ==
  ASSUME TypeInv, NEW p \in Proc, Replace(p)
  PROVE  \/ pc[p] = "evict" /\ Does(p, Present, Halted, "remove", TRUE)
         \/ pc[p] = "remove" /\ Does(p, Present /\ ~Up, None, "create", TRUE)
         \/ pc[p] = "start" /\ Does(p, Present /\ (Up \/ dir # 0), IF Up THEN box ELSE Fresh,
                                    "probe", TRUE)
         \/ pc[p] = "drop" /\ Does(p, Present, Halted, "dropped", FALSE)
         \/ pc[p] = "dropped" /\ Does(p, Present /\ ~Up, None, "create", FALSE)
         \/ pc[p] = "create" /\ Does(p, ~Present /\ dir # 0, Fresh, "created", TRUE)
         \/ pc[p] = "discard" /\ Does(p, Present, None, "failed", FALSE)
<1> DEFINE Here(l, can, b, next, check) == pc[p] = l /\ Command(p, can, b, next, check)
<1>1. \/ Here("evict", Present, Halted, "remove", TRUE)
      \/ Here("remove", Present /\ ~Up, None, "create", TRUE)
      \/ Here("start", Present /\ (Up \/ dir # 0), IF Up THEN box ELSE Fresh, "probe", TRUE)
      \/ Here("drop", Present, Halted, "dropped", FALSE)
      \/ Here("dropped", Present /\ ~Up, None, "create", FALSE)
      \/ Here("create", ~Present /\ dir # 0, Fresh, "created", TRUE)
      \/ Here("discard", Present, None, "failed", FALSE)
  BY DEF Replace, Stop, Remove, Start, Drop, CreateNew, Create, Discard, Halted, Fresh
<1>2. ASSUME NEW l \in Ensuring, NEW can \in BOOLEAN, NEW b,
             NEW next \in (Ensuring \ {"stamp", "write"}) \cup {"failed"},
             NEW check \in BOOLEAN,
             Here(l, can, b, next, check)
      PROVE  Does(p, can, b, next, check)
  <2>1. next \in Stage /\ pc[p] \in Ensuring
    BY <1>2 DEF Stage
  <2>2. QED
    BY <1>2, <2>1, CommandStep
<1>3. PICK up, none, some, fit \in BOOLEAN :
        up = Present /\ some = (Present /\ ~Up) /\ none = (~Present /\ dir # 0)
        /\ fit = (Present /\ (Up \/ dir # 0))
  <2>1. /\ Present \in BOOLEAN /\ (Present /\ ~Up) \in BOOLEAN
        /\ (~Present /\ dir # 0) \in BOOLEAN /\ (Present /\ (Up \/ dir # 0)) \in BOOLEAN
    BY DEF Present
  <2>2. QED
    BY <2>1
<1>4. PICK halted, fresh, same : /\ halted = Halted /\ fresh = Fresh
                                 /\ same = IF Up THEN box ELSE Fresh
  OBVIOUS
<1> HIDE DEF Here
<1>5. \/ Here("evict", up, halted, "remove", TRUE)
      \/ Here("remove", some, None, "create", TRUE)
      \/ Here("start", fit, same, "probe", TRUE)
      \/ Here("drop", up, halted, "dropped", FALSE)
      \/ Here("dropped", some, None, "create", FALSE)
      \/ Here("create", none, fresh, "created", TRUE)
      \/ Here("discard", up, None, "failed", FALSE)
  BY <1>1, <1>3, <1>4
<1>6. \A l, can, b, next, check : Here(l, can, b, next, check) => pc[p] = l
  BY DEF Here
<1>7. \/ pc[p] = "evict" /\ Does(p, up, halted, "remove", TRUE)
      \/ pc[p] = "remove" /\ Does(p, some, None, "create", TRUE)
      \/ pc[p] = "start" /\ Does(p, fit, same, "probe", TRUE)
      \/ pc[p] = "drop" /\ Does(p, up, halted, "dropped", FALSE)
      \/ pc[p] = "dropped" /\ Does(p, some, None, "create", FALSE)
      \/ pc[p] = "create" /\ Does(p, none, fresh, "created", TRUE)
      \/ pc[p] = "discard" /\ Does(p, up, None, "failed", FALSE)
  BY <1>2, <1>5, <1>6 DEF Ensuring
<1>8. QED
  BY <1>3, <1>4, <1>7

LEMMA HaltStep ==
  ASSUME TypeInv, NEW p \in Proc, StopRunning(p), pc[p] \in {"halt", "erase"}
  PROVE  \/ pc[p] = "halt" /\ Does(p, Present, Halted,
                                   IF job[p].op = "stop" THEN "idle" ELSE "look", TRUE)
         \/ pc[p] = "erase" /\ Does(p, Present /\ ~Up, None,
                                    IF job[p].op = "reset" THEN "rmtree" ELSE "idle", TRUE)
<1>1. PICK up, some \in BOOLEAN : up = Present /\ some = (Present /\ ~Up)
  BY DEF Present
<1>2. PICK halted : halted = Halted
  OBVIOUS
<1>3. PICK next, last \in Stopping \cup {"idle"} :
        /\ next = IF job[p].op = "stop" THEN "idle" ELSE "look"
        /\ last = IF job[p].op = "reset" THEN "rmtree" ELSE "idle"
  BY DEF Stopping
<1>4. \/ pc[p] = "halt" /\ Command(p, up, halted, next, TRUE)
      \/ pc[p] = "erase" /\ Command(p, some, None, last, TRUE)
  BY <1>1, <1>2, <1>3 DEF StopRunning, Stop, Remove, Halted
<1>5. pc[p] \in Stopping /\ next \in Stage /\ last \in Stage
  BY DEF Stopping, Stage
<1>6. \/ pc[p] = "halt" /\ Does(p, up, halted, next, TRUE)
      \/ pc[p] = "erase" /\ Does(p, some, None, last, TRUE)
  BY <1>4, <1>5, CommandStep
<1>7. QED
  BY <1>1, <1>2, <1>3, <1>6

\* What follows in stop and reset when the state that was read is s.
After(l, op, s) ==
  IF l = "stopping" THEN IF s = "running" THEN "halt" ELSE IF op = "stop" THEN "idle" ELSE "look"
  ELSE IF s # "absent" THEN "erase" ELSE IF op = "reset" THEN "rmtree" ELSE "idle"

LEMMA StateStep ==
  ASSUME TypeInv, NEW p \in Proc, StopRunning(p), pc[p] \in {"stopping", "look"}
  PROVE  \E l, j :
           /\ Looks(p, l, j)
           /\ \/ Broken(p, l, j)
              \/ \E s \in State :
                   /\ l = After(pc[p], job[p].op, s)
                   /\ s = Status => j.faulted = job[p].faulted
                   /\ s # Status => j.faulted /\ faults' = faults + 1
<1> DEFINE Saw(s) == [job[p] EXCEPT !.faulted = job[p].faulted \/ s # Status]
           To(s) == After(pc[p], job[p].op, s)
<1>1. /\ job[p] \in Job /\ pc[p] \in Stopping
      /\ UNCHANGED <<host, box, runs, records, counts>>
  BY DEF TypeInv, Fits, StopRunning, Ask, Stopping
<1>2. Status \in State
  BY DEF Status, State
<1>3. ASSUME NEW s \in State, Goto(p, To(s)), Local(p, Saw(s)),
             Fault \/ faults' = faults, s # Status => faults' = faults + 1
      PROVE  \E l, j :
               /\ Looks(p, l, j) /\ l = After(pc[p], job[p].op, s)
               /\ s = Status => j.faulted = job[p].faulted
               /\ s # Status => j.faulted /\ faults' = faults + 1
  <2>1. PICK f \in BOOLEAN : f = (job[p].faulted \/ s # Status)
    OBVIOUS
  <2>2. PICK j : j = [job[p] EXCEPT !.faulted = f]
    OBVIOUS
  <2>3. j \in Job
    BY <1>1, <2>2, JobUpdates
  <2>4. j.faulted = f /\ Keeps(j, job[p]) /\ job[p].faulted \in BOOLEAN
    BY <1>1, <2>2 DEF Job, Keeps
  <2>5. PICK l : l = To(s)
    OBVIOUS
  <2>6. l \in Stopping \cup {"idle"} /\ l \in Stage
    BY <2>5 DEF After, Stopping, Stage
  <2>7. Goes(p, l, j)
    BY <1>1, <2>3, <2>4, <2>6 DEF Goes
  <2>8. Goto(p, l) /\ Local(p, j)
    BY <1>3, <2>1, <2>2, <2>5
  <2>9. l \notin {"stamp", "write"}
    BY <2>6 DEF Stopping
  <2>11. Looks(p, l, j)
    BY <1>1, <1>3, <2>7, <2>8, <2>9, LookStep
  <2>10. QED
    BY <1>3, <2>1, <2>4, <2>5, <2>11
<1>4. \/ Goto(p, To(Status)) /\ Local(p, Saw(Status)) /\ faults' = faults
      \/ Fault /\ Goto(p, To("absent")) /\ Local(p, Saw("absent"))
      \/ Fault /\ Goto(p, "failed") /\ Local(p, [job[p] EXCEPT !.faulted = TRUE])
  BY DEF StopRunning, Ask, After
<1>5. PICK s \in State : s = Status
  BY <1>2
<1>6. CASE Goto(p, To(Status)) /\ Local(p, Saw(Status)) /\ faults' = faults
  <2>1. Goto(p, To(s)) /\ Local(p, Saw(s))
    BY <1>5, <1>6
  <2>2. QED
    BY <1>3, <1>5, <1>6, <2>1
<1>7. CASE Fault /\ Goto(p, To("absent")) /\ Local(p, Saw("absent"))
  <2>1. "absent" \in State /\ faults' = faults + 1
    BY <1>7 DEF State, Fault
  <2>2. QED
    BY <1>3, <1>7, <2>1
<1>8. CASE Fault /\ Goto(p, "failed") /\ Local(p, [job[p] EXCEPT !.faulted = TRUE])
  BY <1>1, <1>8, BrokenStep
<1>9. QED
  BY <1>4, <1>6, <1>7, <1>8

-----------------------------------------------------------------------------
(***************************************************************************)
(* The steps of commands and runs                                          *)
(***************************************************************************)
LEMMA EnsureStep ==
  ASSUME TypeInv, NEW p \in Proc, NEW j \in Job, NEW next \in Next3, Ensure(p, j, next)
  PROVE  \E k : /\ Moves(p, "dirs", k, FALSE, FALSE) /\ k.next = next /\ k.mine = j.mine
                /\ k.program = j.program /\ k.killed = j.killed
                /\ ~k.touched /\ ~k.faulted /\ ~k.torn
<1>1. PICK k : k = [j EXCEPT !.next = next, !.touched = FALSE, !.faulted = FALSE,
                             !.torn = FALSE]
  OBVIOUS
<1>2. k \in Job
  BY <1>1, JobUpdates
<1>3. /\ k.next = next /\ k.mine = j.mine /\ k.program = j.program /\ k.killed = j.killed
      /\ ~k.touched /\ ~k.faulted /\ ~k.torn
  BY <1>1 DEF Job
<1>4. "dirs" \in Stage /\ Goto(p, "dirs") /\ Local(p, k)
  BY <1>1 DEF Stage, Ensuring, Ensure
<1>5. QED
  BY <1>2, <1>3, <1>4, TurnMoves DEF Local

\* A command begins with nothing of its own.
Begins(p, l, j) ==
  /\ Moves(p, l, j, FALSE, FALSE)
  /\ j.mine = << >> /\ ~j.killed /\ ~j.touched /\ ~j.faulted
  /\ commands' \in 0..MaxCommands
  /\ UNCHANGED <<host, box, runs, records, faults, moves, misread>>
  /\ \/ l = "implement" /\ asked' = asked
     \/ l = "dirs" /\ j.next = "returned" /\ asked' = asked
     \/ l = "dirs" /\ j.next = "prepare" /\ j.program \in Program /\ asked' = asked
     \/ l = "stopping" /\ asked' = TRUE

LEMMA BeginStep ==
  ASSUME TypeInv, NEW p \in Proc, Begin(p)
  PROVE  \E l, j : Begins(p, l, j)
<1>1. /\ commands' \in 0..MaxCommands
      /\ UNCHANGED <<host, box, runs, records, faults, moves, misread>>
  <2>1. /\ commands < MaxCommands /\ commands' = commands + 1
        /\ UNCHANGED <<host, box, runs, records, faults, moves, misread>>
    BY DEF Begin
  <2>2. commands \in 0..MaxCommands /\ MaxCommands \in Nat
    BY ExperimentAssumption DEF TypeInv, CountsOK
  <2>3. commands' \in 0..MaxCommands
    BY <2>1, <2>2
  <2>4. QED
    BY <2>1, <2>3
<1> DEFINE Op(o) == [Blank EXCEPT !.op = o]
<1>2. ASSUME NEW o \in {"start", "run", "study", "stop", "remove", "reset"}, NEW j,
             \/ j = Op(o)
             \/ \E g \in Program : j = [Blank EXCEPT !.op = o, !.program = g]
      PROVE  /\ j \in Job /\ j.mine = << >> /\ ~j.killed /\ ~j.touched /\ ~j.faulted
  <2>1. j \in Job
    <3>1. o \in {"start", "run", "study", "stop", "remove", "reset"}
      BY <1>2
    <3>2. Op(o) \in Job /\ \A g \in Program : [Blank EXCEPT !.op = o, !.program = g] \in Job
      BY <3>1, BlankJob
    <3>3. QED
      BY <1>2, <3>2
  <2>2. j.mine = << >> /\ ~j.killed /\ ~j.touched /\ ~j.faulted
    BY <1>2 DEF Blank
  <2>3. QED
    BY <2>1, <2>2
<1>3. CASE Goto(p, "implement") /\ Local(p, Op("study")) /\ asked' = asked
  <2>1. PICK j : j = Op("study")
    OBVIOUS
  <2>2. "implement" \in Stage /\ Goto(p, "implement") /\ Local(p, j) /\ j \in Job
    BY <1>2, <1>3, <2>1 DEF Stage
  <2>3. Moves(p, "implement", j, FALSE, FALSE)
    BY <2>2, TurnMoves DEF Local
  <2>4. QED
    BY <1>1, <1>2, <1>3, <2>1, <2>3 DEF Begins
<1>4. CASE Ensure(p, Op("start"), "returned") /\ asked' = asked
  <2>1. PICK j : j = Op("start")
    OBVIOUS
  <2>2. j \in Job /\ j.mine = << >> /\ ~j.killed
    BY <1>2, <2>1
  <2>3. PICK k : /\ Moves(p, "dirs", k, FALSE, FALSE) /\ k.next = "returned" /\ k.mine = j.mine
                 /\ k.killed = j.killed /\ ~k.touched /\ ~k.faulted
    BY <1>4, <2>1, <2>2, EnsureStep DEF Next3
  <2>4. QED
    BY <1>1, <1>4, <2>2, <2>3 DEF Begins
<1>5. CASE /\ \E g \in Program : Ensure(p, [Blank EXCEPT !.op = "run", !.program = g], "prepare")
           /\ asked' = asked
  <2>1. PICK g \in Program : Ensure(p, [Blank EXCEPT !.op = "run", !.program = g], "prepare")
    BY <1>5
  <2>2. PICK j : j = [Blank EXCEPT !.op = "run", !.program = g]
    OBVIOUS
  <2>3. j \in Job /\ j.mine = << >> /\ ~j.killed
    BY <1>2, <2>2
  <2>4. j.program = g
    BY <2>2 DEF Blank
  <2>5. PICK k : /\ Moves(p, "dirs", k, FALSE, FALSE) /\ k.next = "prepare" /\ k.mine = j.mine
                 /\ k.program = j.program /\ k.killed = j.killed /\ ~k.touched /\ ~k.faulted
    BY <2>1, <2>2, <2>3, EnsureStep DEF Next3
  <2>6. QED
    BY <1>1, <1>5, <2>3, <2>4, <2>5 DEF Begins
<1>6. CASE /\ \E op \in {"stop", "remove", "reset"} : Goto(p, "stopping") /\ Local(p, Op(op))
           /\ asked' = TRUE
  <2>1. PICK o \in {"stop", "remove", "reset"} : Goto(p, "stopping") /\ Local(p, Op(o))
    BY <1>6
  <2>2. PICK j : j = Op(o)
    OBVIOUS
  <2>3. "stopping" \in Stage /\ j \in Job /\ Local(p, j)
    BY <1>2, <2>1, <2>2 DEF Stage, Stopping
  <2>4. Moves(p, "stopping", j, FALSE, FALSE)
    BY <2>1, <2>3, TurnMoves DEF Local
  <2>5. QED
    BY <1>1, <1>2, <1>6, <2>2, <2>4 DEF Begins
<1>7. QED
  BY <1>3, <1>4, <1>5, <1>6 DEF Begin

\* A command ends and forgets what it had.
Forgets(p) == Moves(p, "idle", Blank, FALSE, FALSE)

LEMMA ForgetStep ==
  ASSUME TypeInv, NEW p \in Proc, Goto(p, "idle"), Local(p, Blank)
  PROVE  Forgets(p)
<1>1. "idle" \in Stage /\ Blank \in Job
  BY BlankType DEF Stage
<1>2. PICK j : j = Blank
  OBVIOUS
<1>3. Moves(p, "idle", j, FALSE, FALSE)
  BY <1>1, <1>2, TurnMoves DEF Local
<1>4. QED
  BY <1>2, <1>3 DEF Forgets, Moves

LEMMA RunsIndex ==
  ASSUME TypeInv
  PROVE  /\ Len(runs) \in Nat /\ Len(token) \in Nat
         /\ \A r \in 1..Len(runs) : /\ runs[r] \in Run /\ runs[r].at \in Nat
                                    /\ runs[r].at <= Len(token)
<1>1. Len(runs) \in Nat /\ Len(token) \in Nat /\ \A r \in 1..Len(runs) : runs[r] \in Run
  BY DEF TypeInv, RunsOK, HostOK
<1>2. QED
  BY <1>1 DEF TypeInv, RunsOK, Run

\* The run under way.
LEMMA MineIndex ==
  ASSUME TypeInv, NEW p \in Proc, Len(job[p].mine) > 0
  PROVE  /\ job[p].mine \in Seq(Nat) /\ Len(job[p].mine) \in 1..Len(job[p].mine)
         /\ Mine(p) \in 1..Len(runs)
<1>1. Fits(pc[p], job[p]) /\ job[p].mine \in Seq(Nat)
  BY DEF TypeInv, Fits, Job
<1>2. Len(job[p].mine) \in 1..Len(job[p].mine)
  BY <1>1
<1>3. QED
  BY <1>1, <1>2 DEF Fits, Mine

NewRun(p) ==
  [at |-> dir', program |-> job[p].program, out |-> None, wrote |-> FALSE, kept |-> None]

\* p prepares a run.
Prepares(p, j) ==
  /\ pc[p] = "prepare" /\ Moves(p, "dirs", j, FALSE, FALSE)
  /\ j.next = "exec" /\ j.program = job[p].program /\ j.killed = job[p].killed
  /\ j.mine = Append(job[p].mine, Len(runs) + 1) /\ ~j.touched /\ ~j.faulted
  /\ HostOK' /\ dir' <= Len(token') /\ Len(token) <= Len(token')
  /\ dir # 0 => UNCHANGED host
  /\ runs' = Append(runs, NewRun(p))
  /\ UNCHANGED <<box, records, counts, faults>>

LEMMA PrepareStep ==
  ASSUME TypeInv, NEW p \in Proc, Prepare(p)
  PROVE  \E j : Prepares(p, j)
<1>1. job[p] \in Job /\ job[p].mine \in Seq(Nat)
  BY DEF TypeInv, Fits, Job
<1>2. Len(runs) \in Nat
  BY RunsIndex
<1>3. PICK m \in Seq(Nat) : m = Append(job[p].mine, Len(runs) + 1)
  <2>1. Len(runs) + 1 \in Nat
    BY <1>2
  <2>2. Append(job[p].mine, Len(runs) + 1) \in Seq(Nat)
    BY <1>1, <2>1, AppendProperties
  <2>3. QED
    BY <2>2
<1>4. PICK i : i = [job[p] EXCEPT !.mine = m]
  OBVIOUS
<1>5. i \in Job
  BY <1>1, <1>4, JobUpdates
<1>6. i.mine = m /\ i.program = job[p].program /\ i.killed = job[p].killed
  BY <1>1, <1>4 DEF Job
<1>7. Ensure(p, i, "exec")
  BY <1>3, <1>4 DEF Prepare
<1>8. PICK k : /\ Moves(p, "dirs", k, FALSE, FALSE) /\ k.next = "exec" /\ k.mine = i.mine
               /\ k.program = i.program /\ k.killed = i.killed /\ ~k.touched /\ ~k.faulted
  BY <1>5, <1>7, EnsureStep DEF Next3
<1>9. /\ HostOK' /\ dir' <= Len(token') /\ Len(token) <= Len(token')
      /\ dir # 0 => UNCHANGED host
  <2>1. IF dir = 0 THEN dir' = Len(token) + 1 /\ token' = Append(token, 0) ELSE UNCHANGED host
    BY DEF Prepare
  <2>2. /\ HostOK' /\ dir' = Len(token') /\ Len(token) <= Len(token')
        /\ dir # 0 => dir' = dir /\ token' = token
    BY <2>1, MadeDir
  <2>3. QED
    BY <2>2 DEF HostOK, host
<1>10. /\ pc[p] = "prepare" /\ runs' = Append(runs, NewRun(p))
       /\ UNCHANGED <<box, records, counts, faults>>
  BY DEF Prepare, NewRun
<1>11. QED
  BY <1>3, <1>6, <1>8, <1>9, <1>10 DEF Prepares

\* What docker exec comes to.
Execs(p, l, j) ==
  /\ pc[p] = "exec" /\ Moves(p, l, j, FALSE, FALSE)
  /\ j.mine = job[p].mine /\ j.program = job[p].program
  /\ \/ l = "failed" /\ j.faulted /\ faults' = faults + 1 /\ j.killed = job[p].killed
     \/ l \in {"running", "collect"} /\ ~j.killed
  /\ faults' \in 0..MaxFaults /\ faults <= faults'
  /\ UNCHANGED <<host, box, runs, records, counts>>

LEMMA ExecStep ==
  ASSUME TypeInv, NEW p \in Proc, Exec(p)
  PROVE  \E l, j : Execs(p, l, j)
<1> DEFINE Away == [job[p] EXCEPT !.ok = FALSE, !.killed = FALSE, !.touched = FALSE,
                                  !.faulted = FALSE, !.torn = FALSE]
<1>1. /\ job[p] \in Job /\ pc[p] = "exec" /\ UNCHANGED <<host, box, runs, records, counts>>
      /\ faults \in 0..MaxFaults /\ MaxFaults \in Nat
  BY ExperimentAssumption DEF TypeInv, Fits, CountsOK, Exec, Ask
<1>2. faults' = faults \/ Fault => faults' \in 0..MaxFaults /\ faults <= faults'
  BY <1>1 DEF Fault
<1>3. ASSUME NEW l \in {"running", "collect"}, Goto(p, l),
             Local(p, Away), faults' = faults \/ Fault
      PROVE  \E j : Execs(p, l, j)
  <2>1. PICK j : j = Away
    OBVIOUS
  <2>2. j \in Job /\ l \in Stage
    BY <1>1, <2>1, JobUpdates DEF Stage
  <2>3. j.mine = job[p].mine /\ j.program = job[p].program /\ ~j.killed
    BY <1>1, <2>1 DEF Job
  <2>4. Local(p, j)
    BY <1>3, <2>1
  <2>5. Moves(p, l, j, FALSE, FALSE)
    BY <1>3, <2>2, <2>4, TurnMoves DEF Local
  <2>6. QED
    BY <1>1, <1>2, <1>3, <2>3, <2>5 DEF Execs
<1>4. CASE Fault /\ Goto(p, "failed") /\ Local(p, [job[p] EXCEPT !.faulted = TRUE])
  <2>1. PICK j : j = [job[p] EXCEPT !.faulted = TRUE]
    OBVIOUS
  <2>2. j \in Job /\ "failed" \in Stage
    BY <1>1, <2>1, JobUpdates DEF Stage
  <2>3. /\ j.mine = job[p].mine /\ j.program = job[p].program /\ j.faulted
        /\ j.killed = job[p].killed
    BY <1>1, <2>1 DEF Job
  <2>4. Local(p, j)
    BY <1>4, <2>1
  <2>5. Moves(p, "failed", j, FALSE, FALSE)
    BY <1>4, <2>2, <2>4, TurnMoves DEF Local
  <2>6. faults' = faults + 1
    BY <1>4 DEF Fault
  <2>7. QED
    BY <1>1, <1>2, <1>4, <2>3, <2>5, <2>6 DEF Execs
<1>5. \/ \E l \in {"running", "collect"} :
           /\ Goto(p, l) /\ Local(p, Away)
           /\ faults' = faults \/ Fault
      \/ Fault /\ Goto(p, "failed") /\ Local(p, [job[p] EXCEPT !.faulted = TRUE])
  <2> DEFINE l == IF Up /\ runs[Mine(p)].at = box.on THEN "running" ELSE "collect"
             Did(m) == Goto(p, m) /\ Local(p, Away)
  <2>1. \/ Did(l) /\ faults' = faults
        \/ Fault /\ Did("collect")
        \/ Fault /\ Goto(p, "failed") /\ Local(p, [job[p] EXCEPT !.faulted = TRUE])
    BY DEF Exec, Ask
  <2>2. l \in {"running", "collect"}
    OBVIOUS
  <2> HIDE DEF l
  <2>3. QED
    BY <2>1, <2>2
<1>6. QED
  BY <1>3, <1>4, <1>5

\* The end of a program: it has written its results, or only ended, or was killed.
EndsWith(p, j) ==
  /\ pc[p] = "running" /\ Moves(p, "collect", j, FALSE, FALSE)
  /\ j.mine = job[p].mine /\ j.program = job[p].program /\ j.killed = job[p].killed
  /\ \/ runs' = runs
     \/ \E out \in Value : runs' = [runs EXCEPT ![Mine(p)].out = out, ![Mine(p)].wrote = TRUE]
  /\ UNCHANGED <<host, box, records, counts, faults>>

LEMMA EndsStep ==
  ASSUME TypeInv, NEW p \in Proc, Ends(p)
  PROVE  \E j : EndsWith(p, j)
<1>1. /\ job[p] \in Job /\ pc[p] = "running" /\ UNCHANGED <<host, box, records, counts, faults>>
      /\ Goto(p, "collect") /\ "collect" \in Stage
  BY DEF TypeInv, Fits, Ends, Stage
<1>2. CASE Local(p, job[p]) /\ runs' = runs
  <2>1. PICK j : j = job[p]
    OBVIOUS
  <2>2. Moves(p, "collect", j, FALSE, FALSE)
    BY <1>1, <1>2, <2>1, TurnMoves DEF Local
  <2>3. QED
    BY <1>1, <1>2, <2>1, <2>2 DEF EndsWith
<1>3. CASE \E out \in Outputs[job[p].program] \cup {None}, exits \in BOOLEAN :
             /\ Local(p, [job[p] EXCEPT !.ok = exits])
             /\ runs' = IF out = None THEN runs
                        ELSE [runs EXCEPT ![Mine(p)].out = out, ![Mine(p)].wrote = TRUE]
  <2>1. PICK out \in Outputs[job[p].program] \cup {None}, exits \in BOOLEAN :
             /\ Local(p, [job[p] EXCEPT !.ok = exits])
             /\ runs' = IF out = None THEN runs
                        ELSE [runs EXCEPT ![Mine(p)].out = out, ![Mine(p)].wrote = TRUE]
    BY <1>3
  <2>2. PICK j : j = [job[p] EXCEPT !.ok = exits]
    OBVIOUS
  <2>3. j \in Job
    BY <1>1, <2>2, JobUpdates
  <2>4. j.mine = job[p].mine /\ j.program = job[p].program /\ j.killed = job[p].killed
    BY <1>1, <2>2 DEF Job
  <2>5. Local(p, j)
    BY <2>1, <2>2
  <2>6. Moves(p, "collect", j, FALSE, FALSE)
    BY <1>1, <2>3, <2>5, TurnMoves DEF Local
  <2>7. out # None => out \in Value
    <3>1. job[p].program \in Program
      BY <1>1 DEF TypeInv, Fits, Goal, Working, Ensuring
    <3>2. QED
      BY <3>1 DEF Value
  <2>8. QED
    BY <1>1, <2>1, <2>4, <2>6, <2>7 DEF EndsWith
<1>4. QED
  BY <1>2, <1>3 DEF Ends

\* The result of p's run is read, or its directory is no longer there.
Collects(p, l, j) ==
  /\ pc[p] = "collect" /\ Moves(p, l, j, FALSE, FALSE)
  /\ \/ l = "idle" /\ j = Blank
     \/ /\ l = "dirs" /\ j.next = "prepare" /\ ~j.touched /\ ~j.faulted
        /\ j.mine = job[p].mine /\ j.program = job[p].program /\ ~j.killed
     \/ /\ l = "judge" /\ j.mine = job[p].mine /\ j.program = job[p].program /\ ~j.killed
        /\ Len(j.mine) > 1
  /\ \/ runs' = runs
     \/ \E kept \in {runs[Mine(p)].out, None} : runs' = [runs EXCEPT ![Mine(p)].kept = kept]
  /\ UNCHANGED <<host, box, records, counts, faults>>

LEMMA CollectStep ==
  ASSUME TypeInv, NEW p \in Proc, Collect(p)
  PROVE  \E l, j : Collects(p, l, j)
<1>1. /\ job[p] \in Job /\ pc[p] = "collect" /\ UNCHANGED <<host, box, records, counts, faults>>
      /\ Len(job[p].mine) \in Nat
  BY DEF TypeInv, Fits, Job, Collect
<1>2. \/ runs' = runs
      \/ \E kept \in {runs[Mine(p)].out, None} : runs' = [runs EXCEPT ![Mine(p)].kept = kept]
  <2> DEFINE kept == IF job[p].ok THEN runs[Mine(p)].out ELSE None
  <2>1. kept \in {runs[Mine(p)].out, None}
    OBVIOUS
  <2>2. runs' = runs \/ runs' = [runs EXCEPT ![Mine(p)].kept = kept]
    BY DEF Collect
  <2> HIDE DEF kept
  <2>3. QED
    BY <2>1, <2>2
<1>3. CASE Goto(p, "idle") /\ Local(p, Blank)
  <2>1. PICK j : j = Blank
    OBVIOUS
  <2>2. Moves(p, "idle", j, FALSE, FALSE)
    BY <1>3, <2>1, ForgetStep DEF Forgets, Moves
  <2>3. QED
    BY <1>1, <1>2, <2>1, <2>2 DEF Collects
<1> DEFINE Read == [job[p] EXCEPT !.ok = FALSE, !.killed = FALSE]
<1>4. PICK i \in Job : /\ i = Read /\ i.mine = job[p].mine /\ i.program = job[p].program
                       /\ ~i.killed
  <2>1. PICK i : i = Read
    OBVIOUS
  <2>2. i \in Job
    BY <1>1, <2>1, JobUpdates
  <2>3. i.mine = job[p].mine /\ i.program = job[p].program /\ ~i.killed
    BY <1>1, <2>1 DEF Job
  <2>4. QED
    BY <2>1, <2>2, <2>3
<1>5. CASE Ensure(p, i, "prepare")
  <2>1. PICK k : /\ Moves(p, "dirs", k, FALSE, FALSE) /\ k.next = "prepare" /\ k.mine = i.mine
                 /\ k.program = i.program /\ k.killed = i.killed /\ ~k.touched /\ ~k.faulted
    BY <1>5, EnsureStep DEF Next3
  <2>2. QED
    BY <1>1, <1>2, <1>4, <2>1 DEF Collects
<1>6. CASE Len(i.mine) >= 2 /\ Goto(p, "judge") /\ Local(p, i)
  <2>1. "judge" \in Stage
    BY DEF Stage
  <2>2. Moves(p, "judge", i, FALSE, FALSE)
    BY <1>6, <2>1, TurnMoves DEF Local
  <2>3. Len(i.mine) > 1
    BY <1>1, <1>4, <1>6
  <2>4. QED
    BY <1>1, <1>2, <1>4, <2>2, <2>3 DEF Collects
<1>7. \/ Goto(p, "idle") /\ Local(p, Blank)
      \/ Ensure(p, i, "prepare")
      \/ ~(Len(i.mine) < 2) /\ Goto(p, "judge") /\ Local(p, i)
  BY <1>4 DEF Collect
<1>8. QED
  BY <1>1, <1>3, <1>4, <1>5, <1>6, <1>7

\* The protocol has been implemented, or could not be.
Implements(p, l, j) ==
  /\ pc[p] = "implement" /\ Moves(p, l, j, FALSE, FALSE)
  /\ \/ l = "idle" /\ j = Blank
     \/ /\ l = "dirs" /\ j.next = "prepare" /\ j.mine = job[p].mine /\ j.program \in Program
        /\ j.killed = job[p].killed /\ ~j.touched /\ ~j.faulted
  /\ UNCHANGED <<host, box, runs, records, counts, faults>>

LEMMA ImplementStep ==
  ASSUME TypeInv, NEW p \in Proc, Implement(p)
  PROVE  \E l, j : Implements(p, l, j)
<1>1. /\ job[p] \in Job /\ pc[p] = "implement"
      /\ UNCHANGED <<host, box, runs, records, counts, faults>>
  BY DEF TypeInv, Fits, Implement
<1>2. CASE Goto(p, "idle") /\ Local(p, Blank)
  <2>1. PICK j : j = Blank
    OBVIOUS
  <2>2. Moves(p, "idle", j, FALSE, FALSE)
    BY <1>2, <2>1, ForgetStep DEF Forgets, Moves
  <2>3. QED
    BY <1>1, <2>1, <2>2 DEF Implements
<1>3. CASE \E prog \in Program : Ensure(p, [job[p] EXCEPT !.program = prog], "prepare")
  <2>1. PICK prog \in Program : Ensure(p, [job[p] EXCEPT !.program = prog], "prepare")
    BY <1>3
  <2>2. PICK i : i = [job[p] EXCEPT !.program = prog]
    OBVIOUS
  <2>3. i \in Job
    BY <1>1, <2>2, JobUpdates
  <2>4. i.program = prog /\ i.mine = job[p].mine /\ i.killed = job[p].killed
    BY <1>1, <2>2 DEF Job
  <2>5. PICK k : /\ Moves(p, "dirs", k, FALSE, FALSE) /\ k.next = "prepare" /\ k.mine = i.mine
                 /\ k.program = i.program /\ k.killed = i.killed /\ ~k.touched /\ ~k.faulted
    BY <2>1, <2>2, <2>3, EnsureStep DEF Next3
  <2>6. QED
    BY <1>1, <2>4, <2>5 DEF Implements
<1>4. QED
  BY <1>2, <1>3 DEF Implement

\* What happens to the container or the directory by itself.
LEMMA EveryoneStep ==
  ASSUME TypeInv, NEW kills \in BOOLEAN, Everyone(kills), pc' = pc
  PROVE  /\ Locals'
         /\ \A q \in Proc : pc'[q] = pc[q] /\ Noticed(q, TRUE, kills)
<1>1. Locals'
  BY DEF TypeInv, Locals, Everyone
<1>2. ASSUME NEW q \in Proc PROVE Noticed(q, TRUE, kills)
  <2>1. job[q] \in Job
    BY DEF TypeInv, Fits
  <2>2. job'[q] = IF pc[q] = "idle" THEN Blank
                  ELSE [job[q] EXCEPT !.touched = @ \/ pc[q] \notin Outside,
                                      !.killed = @ \/ (kills /\ pc[q] = "running")]
    BY DEF Everyone
  <2>3. PICK b \in BOOLEAN : b = (pc[q] \notin Outside)
    OBVIOUS
  <2>4. (TRUE /\ pc[q] \notin Outside) = b
    BY <2>3
  <2>5. job'[q] = IF pc[q] = "idle" THEN Blank
                  ELSE [job[q] EXCEPT !.touched = @ \/ (TRUE /\ pc[q] \notin Outside),
                                      !.killed = @ \/ (kills /\ pc[q] = "running")]
    BY <2>2, <2>3, <2>4
  <2>6. QED
    BY <2>1, <2>5, NoticedTurn
<1>3. QED
  BY <1>1, <1>2

\* rmtree empties the directory and leaves the run's other fields alone.
Empties(p) ==
  /\ pc[p] = "rmtree" /\ Moves(p, "idle", Blank, dir # 0, FALSE)
  /\ dir' = 0 /\ HostOK' /\ Len(token') = Len(token)
  /\ dir = 0 => token' = token
  /\ runs' \in Seq(Run) /\ Len(runs') = Len(runs)
  /\ \A r \in 1..Len(runs) :
       /\ runs'[r].at \in {0, runs[r].at} /\ runs'[r].program = runs[r].program
       /\ runs'[r].out = runs[r].out /\ runs'[r].wrote = runs[r].wrote
       /\ runs'[r].kept = runs[r].kept
  /\ UNCHANGED <<box, records, counts, faults>>

LEMMA RmtreeStep ==
  ASSUME TypeInv, NEW p \in Proc, Rmtree(p)
  PROVE  Empties(p)
<1>1. /\ dir \in Nat /\ token \in Seq(Int) /\ Len(token) \in Nat /\ dir \in {0, Len(token)}
      /\ runs \in Seq(Run)
  BY RunsIndex DEF TypeInv, HostOK, RunsOK
<1>2. PICK j : j = Blank
  OBVIOUS
<1>3. j \in Job /\ "idle" \in Stage /\ (dir # 0) \in BOOLEAN
  BY <1>2, BlankType DEF Stage
<1>4. Goto(p, "idle") /\ Turn(p, j, dir # 0, FALSE)
  BY <1>2 DEF Rmtree
<1>5. Moves(p, "idle", j, dir # 0, FALSE)
  BY <1>3, <1>4, TurnMoves
<1>6. HostOK' /\ Len(token') = Len(token) /\ (dir = 0 => token' = token) /\ dir' = 0
  <2>1. dir' = 0
    BY DEF Rmtree
  <2>2. CASE dir = 0
    BY <1>1, <2>1, <2>2 DEF Rmtree, TypeInv, HostOK
  <2>3. CASE dir # 0
    <3>1. token' = [token EXCEPT ![dir] = 0] /\ dir \in 1..Len(token)
      BY <1>1, <2>3 DEF Rmtree
    <3>2. 0 \in {Empty} \cup 0..dir /\ dir' \in {0, dir}
      BY <1>1, <2>1
    <3>3. HostOK' /\ Len(token') = Len(token)
      BY <3>1, <3>2, Inscribed
    <3>4. QED
      BY <2>1, <2>3, <3>3
  <2>4. QED
    BY <2>2, <2>3
<1>7. /\ runs' \in Seq(Run) /\ Len(runs') = Len(runs)
      /\ \A r \in 1..Len(runs) :
           /\ runs'[r].at \in {0, runs[r].at} /\ runs'[r].program = runs[r].program
           /\ runs'[r].out = runs[r].out /\ runs'[r].wrote = runs[r].wrote
           /\ runs'[r].kept = runs[r].kept
  <2> DEFINE Left(r) == IF runs[r].at = dir THEN [runs[r] EXCEPT !.at = 0] ELSE runs[r]
  <2>1. runs' = [r \in 1..Len(runs) |-> Left(r)]
    BY <1>1 DEF Rmtree
  <2>2. ASSUME NEW r \in 1..Len(runs)
        PROVE  /\ Left(r) \in Run /\ Left(r).at \in {0, runs[r].at}
               /\ Left(r).program = runs[r].program /\ Left(r).out = runs[r].out
               /\ Left(r).wrote = runs[r].wrote /\ Left(r).kept = runs[r].kept
    <3>1. runs[r] \in Run
      BY RunsIndex
    <3>2. \A x \in Run : /\ [x EXCEPT !.at = 0] \in Run
                         /\ [x EXCEPT !.at = 0].at = 0
                         /\ [x EXCEPT !.at = 0].program = x.program
                         /\ [x EXCEPT !.at = 0].out = x.out
                         /\ [x EXCEPT !.at = 0].wrote = x.wrote
                         /\ [x EXCEPT !.at = 0].kept = x.kept
      BY DEF Run
    <3>3. QED
      BY <3>1, <3>2
  <2> HIDE DEF Left
  <2>3. runs' \in Seq(Run) /\ Len(runs') = Len(runs)
    BY <1>1, <2>1, <2>2, RunsIndex
  <2>4. QED
    BY <2>1, <2>2, <2>3
<1>8. pc[p] = "rmtree" /\ UNCHANGED <<box, records, counts, faults>>
  BY DEF Rmtree
<1>9. Moves(p, "idle", Blank, dir # 0, FALSE)
  BY <1>2, <1>5 DEF Moves
<1>10. QED
  BY <1>6, <1>7, <1>8, <1>9 DEF Empties

-----------------------------------------------------------------------------
(***************************************************************************)
(* Type correctness                                                        *)
(***************************************************************************)
LEMMA InitTypeInv == ExperimentInit => TypeInv
<1> SUFFICES ASSUME ExperimentInit PROVE TypeInv
  OBVIOUS
<1>1. HostOK /\ BoxOK
  <2>1. CASE dir = 0 /\ token = << >> /\ box = None
    BY <2>1 DEF HostOK, BoxOK
  <2>2. CASE dir \in {0, 1} /\ token = <<1>> /\ \E up \in BOOLEAN : box = [on |-> 1, up |-> up]
    <3>1. Len(token) = 1 /\ token \in Seq(Int) /\ \A d \in 1..1 : token[d] = 1
      BY <2>2
    <3>2. HostOK
      BY <2>2, <3>1 DEF HostOK
    <3>3. BoxOK
      BY <2>2, <3>1 DEF BoxOK, Boxes
    <3>4. QED
      BY <3>2, <3>3
  <2>3. QED
    BY <2>1, <2>2 DEF ExperimentInit
<1>2. RunsOK /\ Len(runs) = 0
  BY DEF ExperimentInit, RunsOK
<1>3. CountsOK
  <2>1. MaxMoves \in Nat /\ MaxFaults \in Nat /\ MaxCommands \in Nat
    BY ExperimentAssumption
  <2>2. /\ commands = 0 /\ faults = 0 /\ asked = FALSE /\ misread = FALSE
        /\ moves = 0 \/ (moves = 1 /\ MaxMoves > 0)
    BY DEF ExperimentInit
  <2>3. commands \in 0..MaxCommands /\ faults \in 0..MaxFaults /\ moves \in 0..MaxMoves
    BY <2>1, <2>2
  <2>4. asked \in BOOLEAN /\ misread \in BOOLEAN
    BY <2>2
  <2>5. QED
    BY <2>3, <2>4 DEF CountsOK
<1>4. Locals
  BY DEF ExperimentInit, Locals
<1>5. ASSUME NEW p \in Proc PROVE Fits(pc[p], job[p])
  <2>1. pc[p] = "idle" /\ job[p] = Blank
    BY DEF ExperimentInit
  <2>2. "idle" \in Stage /\ "idle" \notin Ensuring \cup Stopping
    BY DEF Stage, Ensuring, Stopping
  <2>3. Len(Blank.mine) = 0
    BY DEF Blank
  <2>4. QED
    BY <2>1, <2>2, <2>3, BlankType DEF Fits, Goal, Working, Marking
<1>6. QED
  BY <1>1, <1>2, <1>3, <1>4, <1>5 DEF TypeInv

\* A container that is there is on a directory that is or was.
LEMMA BoxType ==
  ASSUME TypeInv
  PROVE  /\ Present => box \in Boxes /\ box.on \in 1..Len(token) /\ Up = box.up
         /\ Present => Halted \in Boxes /\ Halted.on = box.on /\ ~Halted.up
         /\ dir # 0 => Fresh \in Boxes /\ Fresh.on = dir /\ Fresh.up /\ Fresh.on \in 1..Len(token)
         /\ None \notin Boxes
<1>1. None \notin Boxes
  BY ExperimentAssumption DEF Boxes
<1>2. Present => box \in Boxes /\ box.on \in 1..Len(token) /\ Up = box.up
  BY DEF TypeInv, BoxOK, Present, Up, Boxes
<1>3. \A b \in Boxes : /\ [b EXCEPT !.up = FALSE] \in Boxes
                       /\ [b EXCEPT !.up = FALSE].on = b.on /\ ~[b EXCEPT !.up = FALSE].up
  BY DEF Boxes
<1>4. dir # 0 => Fresh \in Boxes /\ Fresh.on = dir /\ Fresh.up /\ Fresh.on \in 1..Len(token)
  <2>1. dir # 0 => dir \in 1..Len(token) /\ dir \in Nat
    BY DEF TypeInv, HostOK
  <2>2. QED
    BY <2>1 DEF Fresh, Boxes
<1>5. QED
  BY <1>1, <1>2, <1>3, <1>4 DEF Halted

\* Looking changes nothing that is shared.
LEMMA LooksType ==
  ASSUME TypeInv, NEW p, NEW l, NEW j, Looks(p, l, j)
  PROVE  TypeInv'
<1>1. HostOK' /\ Len(token) <= Len(token') /\ BoxOK'
  <2>1. dir' = dir /\ token' = token /\ box' = box
    BY DEF Looks, host
  <2>2. Len(token) \in Nat
    BY RunsIndex
  <2>3. QED
    BY <2>1, <2>2 DEF TypeInv, HostOK, BoxOK
<1>2. Marking(l, j)'
  BY DEF Looks, Marking
<1>3. QED
  BY <1>1, <1>2, DockerType DEF Looks

\* Nor does a docker command, but for the container.
LEMMA DoesType ==
  ASSUME TypeInv, NEW p, NEW can, NEW b, NEW next, NEW check, Does(p, can, b, next, check),
         can => b = None \/ (b \in Boxes /\ b.on \in 1..Len(token))
  PROVE  TypeInv'
<1>1. PICK l, j : /\ Docker(p, l, j, box' # box, Up /\ ~Up') /\ host' = host
                  /\ Outcome(p, can, b, next, check, l, j) /\ l \notin {"stamp", "write"}
  BY DEF Does
<1>2. dir' = dir /\ token' = token /\ Len(token) \in Nat
  BY <1>1, RunsIndex DEF host
<1>3. box' = box \/ (can /\ box' = b)
  BY <1>1 DEF Outcome
<1>4. HostOK' /\ Len(token) <= Len(token') /\ BoxOK'
  <2>1. HostOK' /\ Len(token) <= Len(token')
    BY <1>2 DEF TypeInv, HostOK
  <2>2. BoxOK'
    BY <1>2, <1>3 DEF TypeInv, BoxOK
  <2>3. QED
    BY <2>1, <2>2
<1>5. PICK changed, kills : changed = (box' # box) /\ kills = (Up /\ ~Up')
  OBVIOUS
<1>6. Docker(p, l, j, changed, kills)
  BY <1>1, <1>5 DEF Docker, Moves
<1>7. Marking(l, j)'
  BY <1>1 DEF Marking
<1>8. QED
  BY <1>4, <1>6, <1>7, DockerType

\* What is done to the sentinel leaves the container alone.
LEMMA MarksType ==
  ASSUME TypeInv, NEW p, NEW l, NEW j, NEW changed, Marks(p, l, j, changed)
  PROVE  TypeInv'
<1>1. /\ Docker(p, l, j, changed, FALSE) /\ Marking(l, j)'
      /\ box' = box /\ HostOK' /\ Len(token) <= Len(token')
  BY DEF Marks
<1>2. 1..Len(token) \subseteq 1..Len(token')
  BY <1>1, RunsIndex DEF HostOK
<1>3. BoxOK'
  BY <1>1, <1>2 DEF TypeInv, BoxOK
<1>4. QED
  BY <1>1, <1>3, DockerType

LEMMA EnsureType ==
  ASSUME TypeInv, NEW p \in Proc, EnsureRunning(p)
  PROVE  TypeInv'
<1>1. CASE Dirs(p)
  <2>1. PICK changed : changed = (dir' # dir)
    OBVIOUS
  <2>2. \E j : Marks(p, "stamp", j, changed)
    BY <1>1, <2>1, DirsStep
  <2>3. QED
    BY <2>2, MarksType
<1>9. CASE Stamp(p)
  BY <1>9, StampStep, MarksType
<1>10. CASE Write(p)
  <2>1. PICK changed : changed = Rewrites(p)
    OBVIOUS
  <2>2. \E j : Marks(p, "inspect", j, changed)
    BY <1>10, <2>1, WriteStep
  <2>3. QED
    BY <2>2, MarksType
<1>2. CASE DirsFail(p)
  BY <1>2, DirsFailStep, LooksType
<1>3. CASE Inspect(p)
  BY <1>3, InspectStep, LooksType
<1>4. CASE Mount(p)
  BY <1>4, MountStep, LooksType
<1>5. CASE Probe(p)
  BY <1>5, ProbeStep, LooksType
<1>6. CASE Compare(p)
  BY <1>6, CompareStep, LooksType
<1>7. CASE Replace(p)
  <2>1. PICK up, some, none, fit : /\ up = Present /\ some = (Present /\ ~Up)
                                   /\ none = (~Present /\ dir # 0)
                                   /\ fit = (Present /\ (Up \/ dir # 0))
    OBVIOUS
  <2>2. PICK halted, fresh, same : /\ halted = Halted /\ fresh = Fresh
                                   /\ same = IF Up THEN box ELSE Fresh
    OBVIOUS
  <2>3. \/ Does(p, up, halted, "remove", TRUE)
        \/ Does(p, some, None, "create", TRUE)
        \/ Does(p, fit, same, "probe", TRUE)
        \/ Does(p, up, halted, "dropped", FALSE)
        \/ Does(p, some, None, "create", FALSE)
        \/ Does(p, none, fresh, "created", TRUE)
        \/ Does(p, up, None, "failed", FALSE)
    BY <1>7, <2>1, <2>2, ReplaceStep
  <2>4. /\ up => halted = None \/ (halted \in Boxes /\ halted.on \in 1..Len(token))
        /\ none => fresh = None \/ (fresh \in Boxes /\ fresh.on \in 1..Len(token))
        /\ fit => same = None \/ (same \in Boxes /\ same.on \in 1..Len(token))
    BY <2>1, <2>2, BoxType
  <2>5. QED
    BY <2>3, <2>4, DoesType
<1>8. QED
  BY <1>1, <1>2, <1>3, <1>4, <1>5, <1>6, <1>7, <1>9, <1>10 DEF EnsureRunning

LEMMA StopType ==
  ASSUME TypeInv, NEW p \in Proc, StopRunning(p)
  PROVE  TypeInv'
<1>1. CASE pc[p] \in {"stopping", "look"}
  BY <1>1, StateStep, LooksType
<1>2. CASE pc[p] \in {"halt", "erase"}
  <2>1. PICK up, some : up = Present /\ some = (Present /\ ~Up)
    OBVIOUS
  <2>2. PICK halted, next, last : /\ halted = Halted
                                  /\ next = IF job[p].op = "stop" THEN "idle" ELSE "look"
                                  /\ last = IF job[p].op = "reset" THEN "rmtree" ELSE "idle"
    OBVIOUS
  <2>3. Does(p, up, halted, next, TRUE) \/ Does(p, some, None, last, TRUE)
    BY <1>2, <2>1, <2>2, HaltStep
  <2>4. up => halted = None \/ (halted \in Boxes /\ halted.on \in 1..Len(token))
    BY <2>1, <2>2, BoxType
  <2>5. QED
    BY <2>3, <2>4, DoesType
<1>3. QED
  BY <1>1, <1>2 DEF StopRunning

\* A run that changes keeps its type.
LEMMA RunUpdates ==
  ASSUME NEW x \in Run, NEW v \in Value \cup {None}
  PROVE  /\ [x EXCEPT !.kept = v] \in Run
         /\ [x EXCEPT !.out = v, !.wrote = TRUE] \in Run
BY DEF Run

LEMMA RunsUpdate ==
  ASSUME TypeInv, NEW r \in 1..Len(runs), NEW x \in Run, x.at = runs[r].at,
         runs' = [runs EXCEPT ![r] = x], token' = token
  PROVE  RunsOK' /\ Len(runs') = Len(runs)
<1>1. /\ runs' \in Seq(Run) /\ Len(runs') = Len(runs) /\ runs'[r] = x
      /\ \A s \in 1..Len(runs) : s # r => runs'[s] = runs[s]
  BY ExceptSeq DEF TypeInv, RunsOK
<1>2. QED
  BY <1>1 DEF TypeInv, RunsOK

\* What the steps of commands and runs leave alone.
LEMMA SameFiles ==
  ASSUME TypeInv, UNCHANGED <<host, box>>
  PROVE  HostOK' /\ BoxOK' /\ token' = token /\ Len(token) <= Len(token')
<1>1. HostOK' /\ BoxOK' /\ token' = token
  BY DEF TypeInv, HostOK, BoxOK, host
<1>2. QED
  BY <1>1, RunsIndex

LEMMA SameCounts ==
  ASSUME TypeInv, UNCHANGED counts, faults' \in 0..MaxFaults
  PROVE  CountsOK' /\ (asked => asked')
BY DEF TypeInv, CountsOK, counts

LEMMA CommandType ==
  ASSUME TypeInv, NEW p \in Proc, Begin(p) \/ Return(p) \/ Implement(p) \/ Judge(p)
  PROVE  TypeInv'
<1> DEFINE Still == UNCHANGED <<host, box, runs>>
<1>1. ASSUME NEW l, NEW j, Moves(p, l, j, FALSE, FALSE), Still, CountsOK', asked => asked',
             \/ l = "idle"
             \/ l = "implement" /\ j.mine = << >>
             \/ l = "stopping" /\ asked' /\ j.mine = << >>
             \/ /\ l = "dirs" /\ j.mine = << >>
                /\ j.next = "returned" \/ (j.next = "prepare" /\ j.program \in Program),
             l = "idle" => j.mine = << >>
      PROVE  TypeInv'
  <2>1. HostOK' /\ BoxOK' /\ RunsOK' /\ Len(runs) <= Len(runs') /\ Len(token) <= Len(token')
    <3>1. token' = token /\ runs' = runs /\ HostOK' /\ BoxOK' /\ Len(token) <= Len(token')
      BY <1>1, SameFiles
    <3>2. QED
      BY <3>1, RunsIndex DEF TypeInv, RunsOK
  <2>2. j \in Job /\ l \in Stage
    BY <1>1 DEF Moves
  <2>3. Len(j.mine) = 0
    BY <1>1
  <2>4. Fits(l, j)'
    <3>1. CASE l \in {"idle", "implement"} \/ (l = "stopping" /\ asked')
      <4>1. l \notin Ensuring /\ (l \in Stopping => asked')
        BY <3>1 DEF Ensuring, Stopping
      <4>2. l \notin Working \cup {"prepare", "judge"}
        BY <3>1 DEF Working
      <4>3. QED
        BY <2>2, <2>3, <3>1, <4>1, <4>2 DEF Fits, Goal, Marking
    <3>2. CASE l = "dirs" /\ (j.next = "returned" \/ (j.next = "prepare" /\ j.program \in Program))
      <4>1. l \in Ensuring /\ l \notin Stopping /\ j.next \in Next3
        BY <3>2 DEF Ensuring, Stopping, Next3
      <4>2. j.next \notin Working \cup {"judge"}
        BY <3>2 DEF Working
      <4>3. j.next = "prepare" => j.program \in Program
        BY <3>2
      <4>4. QED
        BY <2>2, <2>3, <3>2, <4>1, <4>2, <4>3 DEF Fits, Goal, Marking
    <3>3. QED
      BY <1>1, <3>1, <3>2
  <2>5. QED
    BY <1>1, <2>1, <2>4, TypeFrame
<1>2. CASE Begin(p)
  <2>1. PICK l, j : Begins(p, l, j)
    BY <1>2, BeginStep
  <2>2. CountsOK' /\ (asked => asked')
    <3>1. /\ commands' \in 0..MaxCommands /\ faults' = faults /\ moves' = moves
          /\ asked' = asked \/ asked' = TRUE
          /\ misread' = misread
      BY <2>1 DEF Begins
    <3>2. /\ asked \in BOOLEAN /\ misread \in BOOLEAN
          /\ faults \in 0..MaxFaults /\ moves \in 0..MaxMoves
      BY DEF TypeInv, CountsOK
    <3>3. asked' \in BOOLEAN /\ (asked => asked')
      BY <3>1, <3>2
    <3>4. faults' \in 0..MaxFaults /\ moves' \in 0..MaxMoves
      BY <3>1, <3>2
    <3>5. misread' \in BOOLEAN
      BY <3>1, <3>2
    <3>6. QED
      BY <3>1, <3>3, <3>4, <3>5 DEF CountsOK
  <2>3. QED
    BY <1>1, <2>1, <2>2 DEF Begins
<1>3. CASE Return(p) \/ Judge(p)
  <2>1. Forgets(p) /\ Still /\ UNCHANGED <<counts, faults>>
    BY <1>3, ForgetStep DEF Return, Judge
  <2>2. PICK j : j = Blank
    OBVIOUS
  <2>3. Moves(p, "idle", j, FALSE, FALSE) /\ j.mine = << >>
    BY <2>1, <2>2 DEF Forgets, Moves, Blank
  <2>4. CountsOK' /\ (asked => asked')
    BY <2>1, SameCounts DEF TypeInv, CountsOK
  <2>5. QED
    BY <1>1, <2>1, <2>3, <2>4
<1>4. CASE Implement(p)
  <2>1. PICK l, j : Implements(p, l, j)
    BY <1>4, ImplementStep
  <2>2. CountsOK' /\ (asked => asked')
    BY <2>1, SameCounts DEF TypeInv, CountsOK, Implements
  <2>3. Len(job[p].mine) = 0 /\ job[p].mine \in Seq(Nat)
    BY <2>1 DEF Implements, TypeInv, Fits, Job
  <2>4. job[p].mine = << >>
    BY <2>3, EmptySeq
  <2>5. Still
    BY <2>1 DEF Implements
  <2>6. QED
    BY <1>1, <2>1, <2>2, <2>4, <2>5 DEF Implements, Blank
<1>5. QED
  BY <1>2, <1>3, <1>4

LEMMA RunType ==
  ASSUME TypeInv, NEW p \in Proc, Rmtree(p) \/ Prepare(p) \/ Exec(p) \/ Ends(p) \/ Collect(p)
  PROVE  TypeInv'
<1>0. /\ Fits(pc[p], job[p]) /\ faults \in 0..MaxFaults /\ Len(runs) \in Nat
      /\ Len(token) \in Nat /\ runs \in Seq(Run)
  BY RunsIndex DEF TypeInv, CountsOK, RunsOK
<1>1. CASE Rmtree(p)
  <2>1. Empties(p)
    BY <1>1, RmtreeStep
  <2>2. PICK j, changed : j = Blank /\ changed = (dir # 0)
    OBVIOUS
  <2>3. Moves(p, "idle", j, changed, FALSE)
    BY <2>1, <2>2 DEF Empties, Moves
  <2>4. HostOK' /\ BoxOK' /\ Len(runs) <= Len(runs')
    BY <1>0, <2>1 DEF Empties, TypeInv, BoxOK
  <2>9. Len(token) <= Len(token')
    BY <1>0, <2>1 DEF Empties
  <2>5. RunsOK'
    <3>1. \A r \in 1..Len(runs) : runs'[r].at <= Len(token')
      BY <1>0, <2>1, RunsIndex DEF Empties
    <3>2. QED
      BY <2>1, <3>1 DEF Empties, RunsOK
  <2>6. CountsOK' /\ (asked => asked')
    BY <1>0, <2>1, SameCounts DEF Empties
  <2>7. Fits("idle", j)'
    <3>1. "idle" \in Stage /\ "idle" \notin Ensuring \cup Stopping
      BY DEF Stage, Ensuring, Stopping
    <3>2. Len(j.mine) = 0 /\ j \in Job
      BY <2>2, BlankType DEF Blank
    <3>3. QED
      BY <3>1, <3>2 DEF Fits, Goal, Working, Marking
  <2>8. QED
    BY <2>3, <2>4, <2>5, <2>6, <2>7, <2>9, TypeFrame
<1>2. CASE Prepare(p)
  <2>1. PICK j : Prepares(p, j)
    BY <1>2, PrepareStep
  <2>2. job[p].program \in Program /\ job[p].mine \in Seq(Nat)
    BY <1>0, <2>1 DEF Prepares, Fits, Goal, Job, Ensuring
  <2>3. NewRun(p) \in Run /\ NewRun(p).at = dir'
    BY <2>1, <2>2 DEF Prepares, NewRun, Run, HostOK
  <2>4. /\ runs' \in Seq(Run) /\ Len(runs') = Len(runs) + 1
        /\ \A r \in 1..Len(runs) : runs'[r] = runs[r]
        /\ runs'[Len(runs) + 1] = NewRun(p)
    BY <1>0, <2>1, <2>3, AppendProperties DEF Prepares
  <2>5. RunsOK' /\ Len(runs) <= Len(runs')
    <3>1. Len(token) <= Len(token') /\ dir' <= Len(token') /\ Len(token') \in Nat
      BY <2>1 DEF Prepares, HostOK
    <3>2. ASSUME NEW r \in 1..Len(runs') PROVE runs'[r].at <= Len(token')
      <4>1. CASE r \in 1..Len(runs)
        BY <1>0, <2>4, <3>1, <4>1, RunsIndex
      <4>2. CASE r = Len(runs) + 1
        BY <2>3, <2>4, <3>1, <4>2
      <4>3. QED
        BY <1>0, <2>4, <4>1, <4>2
    <3>3. QED
      BY <1>0, <2>4, <3>2 DEF RunsOK
  <2>6. HostOK' /\ BoxOK'
    <3>1. 1..Len(token) \subseteq 1..Len(token')
      BY <1>0, <2>1 DEF Prepares, HostOK
    <3>2. QED
      BY <2>1, <3>1 DEF Prepares, TypeInv, BoxOK
  <2>7. CountsOK' /\ (asked => asked')
    BY <1>0, <2>1, SameCounts DEF Prepares
  <2>8. Fits("dirs", j)'
    <3>1. j \in Job /\ "dirs" \in Stage /\ "dirs" \in Ensuring /\ "dirs" \notin Stopping
      BY <2>1 DEF Prepares, Moves, Ensuring, Stopping
    <3>2. /\ Len(j.mine) = Len(job[p].mine) + 1 /\ Len(job[p].mine) \in Nat
          /\ \A i \in 1..Len(job[p].mine) : j.mine[i] = job[p].mine[i]
          /\ j.mine[Len(job[p].mine) + 1] = Len(runs) + 1
      BY <1>0, <2>1, <2>2, AppendProperties DEF Prepares
    <3>3. ASSUME NEW i \in 1..Len(j.mine) PROVE j.mine[i] \in 1..Len(runs')
      <4>1. CASE i \in 1..Len(job[p].mine)
        <5>1. job[p].mine[i] \in 1..Len(runs)
          BY <1>0, <4>1 DEF Fits
        <5>2. j.mine[i] = job[p].mine[i]
          BY <3>2, <4>1
        <5>3. Len(runs) \in Nat /\ Len(runs') = Len(runs) + 1
          BY <1>0, <2>4
        <5>4. QED
          BY <5>1, <5>2, <5>3
      <4>2. CASE i = Len(job[p].mine) + 1
        <5>1. j.mine[i] = Len(runs) + 1
          BY <3>2, <4>2
        <5>2. Len(runs) \in Nat /\ Len(runs') = Len(runs) + 1
          BY <1>0, <2>4
        <5>3. QED
          BY <5>1, <5>2
      <4>3. i \in 1..Len(job[p].mine) \/ i = Len(job[p].mine) + 1
        BY <3>2
      <4>4. QED
        BY <4>1, <4>2, <4>3
    <3>4. Goal("dirs", j) = "exec" /\ j.program \in Program /\ j.next \in Next3
      BY <2>1, <2>2, <3>1 DEF Prepares, Goal, Next3
    <3>5. QED
      BY <3>1, <3>2, <3>3, <3>4 DEF Fits, Marking
  <2>9. QED
    BY <2>1, <2>5, <2>6, <2>7, <2>8, TypeFrame DEF Prepares
<1>3. ASSUME NEW l, NEW j, Moves(p, l, j, FALSE, FALSE), RunsOK', Len(runs') = Len(runs),
             UNCHANGED <<host, box, counts>>, faults' \in 0..MaxFaults,
             \/ /\ l \in Working \cup {"judge", "failed"} /\ pc[p] \in Working
                /\ l = "judge" => Len(j.mine) > 1
                /\ j.mine = job[p].mine /\ j.program = job[p].program
             \/ /\ l = "dirs" /\ pc[p] \in Working /\ j.next = "prepare"
                /\ j.mine = job[p].mine /\ j.program = job[p].program
             \/ l = "idle" /\ j = Blank
      PROVE  TypeInv'
  <2>1. HostOK' /\ BoxOK' /\ CountsOK' /\ (asked => asked') /\ Len(token) <= Len(token')
    BY <1>3, SameFiles, SameCounts
  <2>2. j \in Job /\ l \in Stage
    BY <1>3 DEF Moves
  <2>3. Fits(l, j)'
    <3>1. CASE l = "idle" /\ j = Blank
      <4>1. l \notin Ensuring \cup Stopping
        BY <3>1 DEF Ensuring, Stopping
      <4>2. Len(j.mine) = 0
        BY <3>1 DEF Blank
      <4>3. QED
        BY <2>2, <3>1, <4>1, <4>2 DEF Fits, Goal, Working, Marking
    <3>2. CASE /\ pc[p] \in Working /\ j.mine = job[p].mine /\ j.program = job[p].program
               /\ l \in Working \cup {"judge", "failed", "dirs"}
               /\ l = "judge" => Len(j.mine) > 1
               /\ l = "dirs" => j.next = "prepare"
      <4>1. /\ job[p].program \in Program /\ Len(job[p].mine) > 0
            /\ \A i \in 1..Len(job[p].mine) : job[p].mine[i] \in 1..Len(runs)
        BY <1>0, <3>2 DEF Fits, Goal, Working, Ensuring
      <4>2. l \in Ensuring => l = "dirs" /\ j.next \in Next3
        BY <3>2 DEF Ensuring, Working, Next3
      <4>3. l \notin Stopping \cup {"implement"}
        BY <3>2 DEF Stopping, Working
      <4>6. Marking(l, j)'
        BY <3>2 DEF Marking, Working
      <4>4. Goal(l, j) = "judge" => Len(j.mine) > 1
        BY <3>2, <4>2 DEF Goal
      <4>5. QED
        BY <1>3, <2>2, <3>2, <4>1, <4>2, <4>3, <4>4, <4>6 DEF Fits
    <3>3. QED
      BY <1>3, <3>1, <3>2 DEF Working
  <2>4. Len(runs) <= Len(runs')
    BY <1>0, <1>3
  <2>5. QED
    BY <1>3, <2>1, <2>3, <2>4, TypeFrame
<1>4. CASE Exec(p)
  <2>1. PICK l, j : Execs(p, l, j)
    BY <1>4, ExecStep
  <2>2. RunsOK' /\ Len(runs') = Len(runs)
    BY <2>1 DEF Execs, TypeInv, RunsOK, host
  <2>3. QED
    BY <1>3, <2>1, <2>2 DEF Execs, Working
<1>5. ASSUME NEW x \in Run, Len(job[p].mine) > 0, x.at = runs[Mine(p)].at,
             runs' = [runs EXCEPT ![Mine(p)] = x], UNCHANGED host
      PROVE  RunsOK' /\ Len(runs') = Len(runs)
  BY <1>5, MineIndex, RunsUpdate DEF host
<1>6. pc[p] \in Working => Len(job[p].mine) > 0
  BY <1>0 DEF Fits, Goal, Working, Ensuring
<1>7. CASE Ends(p)
  <2>1. PICK j : EndsWith(p, j)
    BY <1>7, EndsStep
  <2>2. Len(job[p].mine) > 0 /\ UNCHANGED host
    BY <1>6, <2>1 DEF EndsWith, Working
  <2>3. RunsOK' /\ Len(runs') = Len(runs)
    <3>1. CASE runs' = runs
      BY <2>2, <3>1 DEF TypeInv, RunsOK, host
    <3>2. CASE \E out \in Value : runs' = [runs EXCEPT ![Mine(p)].out = out,
                                                       ![Mine(p)].wrote = TRUE]
      <4>1. PICK out \in Value : runs' = [runs EXCEPT ![Mine(p)].out = out,
                                                      ![Mine(p)].wrote = TRUE]
        BY <3>2
      <4>2. PICK x : x = [runs[Mine(p)] EXCEPT !.out = out, !.wrote = TRUE]
        OBVIOUS
      <4>3. runs[Mine(p)] \in Run
        BY <2>2, MineIndex, RunsIndex
      <4>4. x \in Run /\ x.at = runs[Mine(p)].at
        BY <4>2, <4>3, RunUpdates DEF Run
      <4>5. runs' = [runs EXCEPT ![Mine(p)] = x]
        BY <4>1, <4>2, <2>2, MineIndex DEF TypeInv, RunsOK
      <4>6. QED
        BY <1>5, <2>2, <4>4, <4>5
    <3>3. QED
      BY <2>1, <3>1, <3>2 DEF EndsWith
  <2>4. QED
    BY <1>0, <1>3, <2>1, <2>3 DEF EndsWith, Working
<1>8. CASE Collect(p)
  <2>1. PICK l, j : Collects(p, l, j)
    BY <1>8, CollectStep
  <2>2. Len(job[p].mine) > 0 /\ UNCHANGED host
    BY <1>6, <2>1 DEF Collects, Working
  <2>3. RunsOK' /\ Len(runs') = Len(runs)
    <3>1. CASE runs' = runs
      BY <2>2, <3>1 DEF TypeInv, RunsOK, host
    <3>2. CASE \E kept \in {runs[Mine(p)].out, None} :
                 runs' = [runs EXCEPT ![Mine(p)].kept = kept]
      <4>1. PICK kept \in {runs[Mine(p)].out, None} :
              runs' = [runs EXCEPT ![Mine(p)].kept = kept]
        BY <3>2
      <4>2. PICK x : x = [runs[Mine(p)] EXCEPT !.kept = kept]
        OBVIOUS
      <4>3. runs[Mine(p)] \in Run
        BY <2>2, MineIndex, RunsIndex
      <4>4. kept \in Value \cup {None}
        BY <4>3 DEF Run
      <4>5. x \in Run /\ x.at = runs[Mine(p)].at
        BY <4>2, <4>3, <4>4, RunUpdates DEF Run
      <4>6. runs' = [runs EXCEPT ![Mine(p)] = x]
        BY <4>1, <4>2, <2>2, MineIndex DEF TypeInv, RunsOK
      <4>7. QED
        BY <1>5, <2>2, <4>5, <4>6
    <3>3. QED
      BY <2>1, <3>1, <3>2 DEF Collects
  <2>4. QED
    BY <1>0, <1>3, <2>1, <2>3 DEF Collects, Working
<1>9. QED
  BY <1>1, <1>2, <1>4, <1>7, <1>8

LEMMA WorldType ==
  ASSUME TypeInv, Dies \/ Archive
  PROVE  TypeInv'
<1>1. ASSUME NEW kills \in BOOLEAN, Everyone(kills), pc' = pc, UNCHANGED <<runs, asked>>,
             HostOK', BoxOK', token' = token, CountsOK'
      PROVE  TypeInv'
  <2>1. Locals' /\ \A q \in Proc : pc'[q] = pc[q] /\ Noticed(q, TRUE, kills)
    BY <1>1, EveryoneStep
  <2>2. RunsOK' /\ Len(runs) <= Len(runs') /\ Len(token) <= Len(token')
    BY <1>1, RunsIndex DEF TypeInv, RunsOK
  <2>3. \A q \in Proc : Fits(pc[q], job[q])'
    BY <1>1, <2>1, <2>2, NoticedFits
  <2>4. QED
    BY <1>1, <2>1, <2>2, <2>3 DEF TypeInv
<1>2. CASE Dies
  <2>1. /\ box' = Halted /\ Present /\ Everyone(TRUE) /\ pc' = pc /\ runs' = runs
        /\ UNCHANGED <<host, counts>> /\ faults < MaxFaults /\ faults' = faults + 1
    BY <1>2 DEF Dies, Up, Fault, Halted
  <2>2. HostOK' /\ token' = token
    BY <2>1 DEF TypeInv, HostOK, host
  <2>3. BoxOK'
    BY <2>1, <2>2, BoxType DEF BoxOK
  <2>4. faults' \in 0..MaxFaults
    BY <2>1, ExperimentAssumption DEF TypeInv, CountsOK
  <2>5. CountsOK' /\ asked' = asked
    BY <2>1, <2>4, SameCounts DEF counts
  <2>6. QED
    BY <1>1, <2>1, <2>2, <2>3, <2>5
<1>3. CASE Archive
  <2>1. /\ dir' = 0 /\ token' = token /\ box' = box /\ Everyone(FALSE) /\ pc' = pc
        /\ runs' = runs /\ moves < MaxMoves /\ moves' = moves + 1
        /\ commands' = commands /\ faults' = faults /\ asked' = asked /\ misread' = misread
    BY <1>3 DEF Archive
  <2>2. HostOK' /\ BoxOK'
    BY <2>1, RunsIndex DEF TypeInv, HostOK, BoxOK
  <2>3. moves' \in 0..MaxMoves
    BY <2>1, ExperimentAssumption DEF TypeInv, CountsOK
  <2>4. CountsOK'
    BY <2>1, <2>3 DEF TypeInv, CountsOK
  <2>5. QED
    BY <1>1, <2>1, <2>2, <2>4
<1>4. QED
  BY <1>2, <1>3

LEMMA TypeInvInductive ==
  ASSUME TypeInv, [ExperimentNext]_vars
  PROVE  TypeInv'
<1>1. ASSUME NEW p \in Proc, Step(p) PROVE TypeInv'
  BY <1>1, CommandType, EnsureType, StopType, RunType DEF Step
<1>2. CASE Dies \/ Archive
  BY <1>2, WorldType
<1>3. CASE UNCHANGED vars
  <2>1. /\ UNCHANGED <<dir, token, box, runs, pc, job, commands, moves, asked, misread, faults>>
    BY <1>3 DEF vars, host, counts
  <2>2. HostOK' /\ BoxOK' /\ RunsOK' /\ CountsOK' /\ Locals'
    BY <2>1 DEF TypeInv, HostOK, BoxOK, RunsOK, CountsOK, Locals
  <2>3. \A q \in Proc : Fits(pc[q], job[q])'
    BY <2>1 DEF TypeInv, Fits, Goal, Marking
  <2>4. QED
    BY <2>2, <2>3 DEF TypeInv
<1>4. QED
  BY <1>1, <1>2, <1>3 DEF ExperimentNext

LEMMA TypeInvType == TypeInv => ExperimentTypeOK
<1> SUFFICES ASSUME TypeInv PROVE ExperimentTypeOK
  OBVIOUS
<1>1. /\ dir \in {0, Len(token)} /\ token \in Seq(Int)
      /\ \A d \in DOMAIN token : token[d] \in {Empty} \cup 0..d
  BY DEF TypeInv, HostOK
<1>2. Present => box.on \in DOMAIN token
  BY BoxType DEF TypeInv, HostOK
<1>3. \A r \in DOMAIN runs : runs[r].at \in 0..Len(token) /\ runs[r].program \in Program
  BY RunsIndex DEF TypeInv, RunsOK, Run
<1>4. pc \in [Proc -> Stage]
  BY DEF TypeInv, Locals, Fits
<1>5. \A p \in Proc : \A i \in DOMAIN job[p].mine : job[p].mine[i] \in DOMAIN runs
  <2>1. \A p \in Proc : job[p].mine \in Seq(Nat)
    BY DEF TypeInv, Fits, Job
  <2>2. \A p \in Proc : \A i \in 1..Len(job[p].mine) : job[p].mine[i] \in 1..Len(runs)
    BY DEF TypeInv, Fits
  <2>3. runs \in Seq(Run)
    BY DEF TypeInv, RunsOK
  <2>4. DOMAIN runs = 1..Len(runs) /\ \A p \in Proc : DOMAIN job[p].mine = 1..Len(job[p].mine)
    BY <2>1, <2>3
  <2>5. QED
    BY <2>2, <2>4
<1>6. commands <= MaxCommands /\ faults <= MaxFaults /\ moves <= MaxMoves
  BY ExperimentAssumption DEF TypeInv, CountsOK
<1>7. QED
  BY <1>1, <1>2, <1>3, <1>4, <1>5, <1>6 DEF ExperimentTypeOK

\* Every variable has its type, and every command holds what it needs where it stands.
THEOREM ExperimentTyping == ExperimentSpec => []ExperimentTypeOK
<1>1. ExperimentSpec => []TypeInv
  BY InitTypeInv, TypeInvInductive, PTL DEF ExperimentSpec
<1>2. QED
  BY <1>1, TypeInvType, PTL

-----------------------------------------------------------------------------
(***************************************************************************)
(* Runs and records                                                        *)
(***************************************************************************)
\* The runs of a process are of its program; the one under way has no result yet.
Owns(l, j) ==
  /\ \A i \in 1..Len(j.mine) : runs[j.mine[i]].program = j.program
  /\ \A i, k \in 1..Len(j.mine) : i # k => j.mine[i] # j.mine[k]
  /\ Goal(l, j) \in Working => runs[j.mine[Len(j.mine)]].kept = None

Apart(j, k) ==
  \A a \in 1..Len(j.mine), b \in 1..Len(k.mine) : j.mine[a] # k.mine[b]

\* A result was written, and what was kept is what was written.
Faithful(r) ==
  /\ runs[r].out # None => runs[r].wrote
  /\ runs[r].kept # None => runs[r].kept = runs[r].out

\* Two runs of the program of a record have kept its output.
Witnessed(rec) ==
  /\ rec.output # None
  /\ \E r, s \in 1..Len(runs) :
       /\ r # s
       /\ \A x \in {r, s} : runs[x].program = rec.program /\ runs[x].kept = rec.output

RunsInv ==
  /\ \A p \in Proc : Owns(pc[p], job[p])
  /\ \A p, q \in Proc : p # q => Apart(job[p], job[q])
  /\ \A r \in 1..Len(runs) : Faithful(r)
  /\ \A rec \in records : Witnessed(rec)

\* The runs of job k keep what the process knows of them.
Spares(k) ==
  \A i \in 1..Len(k.mine) : runs'[k.mine[i]].kept = runs[k.mine[i]].kept

\* No run changes its program or loses its result.
Lasts ==
  /\ Len(runs) <= Len(runs')
  /\ \A r \in 1..Len(runs) :
       /\ runs'[r].program = runs[r].program
       /\ runs[r].kept # None => runs'[r].kept = runs[r].kept

\* What becomes of the records and of the processes that only notice the step.
LEMMA LastsWitnessed ==
  ASSUME TypeInv, RunsInv, Lasts, Len(runs') \in Nat, NEW rec \in records
  PROVE  Witnessed(rec)'
<1>1. Witnessed(rec) /\ Len(runs) \in Nat
  BY RunsIndex DEF RunsInv
<1>2. PICK r, s \in 1..Len(runs) :
        /\ r # s
        /\ \A x \in {r, s} : runs[x].program = rec.program /\ runs[x].kept = rec.output
  BY <1>1 DEF Witnessed
<1>3. r \in 1..Len(runs') /\ s \in 1..Len(runs')
  BY <1>1, <1>2 DEF Lasts
<1>4. \A x \in {r, s} : runs'[x].program = rec.program /\ runs'[x].kept = rec.output
  BY <1>1, <1>2 DEF Lasts, Witnessed
<1>5. QED
  BY <1>1, <1>2, <1>3, <1>4 DEF Witnessed

\* Forgetting runs keeps two commands apart.
LEMMA ApartKept ==
  ASSUME NEW a, NEW b, NEW x, NEW y, Apart(a, b),
         x.mine = a.mine \/ x.mine = << >>, y.mine = b.mine \/ y.mine = << >>
  PROVE  Apart(x, y)
<1>1. CASE x.mine = << >> \/ y.mine = << >>
  BY <1>1 DEF Apart
<1>2. CASE x.mine = a.mine /\ y.mine = b.mine
  BY <1>2 DEF Apart
<1>3. QED
  BY <1>1, <1>2

LEMMA NoticedOwns ==
  ASSUME TypeInv, RunsInv, Lasts, NEW q \in Proc, NEW changed, NEW kills,
         Noticed(q, changed, kills), pc'[q] = pc[q], Spares(job[q])
  PROVE  /\ Owns(pc[q], job[q])'
         /\ job'[q].mine = job[q].mine \/ job'[q].mine = << >>
<1>1. Owns(pc[q], job[q]) /\ Fits(pc[q], job[q])
  BY DEF RunsInv, TypeInv
<1>2. CASE pc[q] = "idle" /\ job'[q] = Blank
  <2>1. Len(job'[q].mine) = 0 /\ job'[q].mine = << >>
    BY <1>2 DEF Blank
  <2>2. "idle" \notin Ensuring \cup Working
    BY DEF Ensuring, Working
  <2>3. QED
    BY <1>2, <2>1, <2>2 DEF Owns, Goal
<1>3. CASE /\ job'[q].next = job[q].next /\ job'[q].program = job[q].program
           /\ job'[q].mine = job[q].mine
  <2>1. Goal(pc[q], job[q])' = Goal(pc[q], job[q])
    BY <1>3 DEF Goal
  <2>2. \A i \in 1..Len(job[q].mine) : runs'[job[q].mine[i]].program = job[q].program
    BY <1>1 DEF Owns, Fits, Lasts
  <2>3. Goal(pc[q], job[q]) \in Working
          => runs'[job[q].mine[Len(job[q].mine)]].kept = None
    <3>1. SUFFICES ASSUME Goal(pc[q], job[q]) \in Working
                   PROVE  runs'[job[q].mine[Len(job[q].mine)]].kept = None
      OBVIOUS
    <3>2. Len(job[q].mine) > 0
      BY <1>1, <3>1 DEF Fits
    <3>3. Len(job[q].mine) \in 1..Len(job[q].mine)
      BY <3>2, MineIndex
    <3>4. QED
      BY <1>1, <3>1, <3>3 DEF Owns, Spares
  <2>4. QED
    BY <1>1, <1>3, <2>1, <2>2, <2>3 DEF Owns
<1>4. QED
  BY <1>2, <1>3 DEF Noticed

\* It is enough to look at the process that moved, the runs and the new records.
LEMMA RunsFrame ==
  ASSUME TypeInv, TypeInv', RunsInv, NEW p, NEW l, NEW j, NEW changed, NEW kills,
         Moves(p, l, j, changed, kills), Lasts, Owns(l, j)',
         \A q \in Proc \ {p} : Spares(job[q]),
         \A i \in 1..Len(j.mine) : \/ \E k \in 1..Len(job[p].mine) : j.mine[i] = job[p].mine[k]
                                   \/ j.mine[i] > Len(runs),
         \A r \in 1..Len(runs') : Faithful(r)',
         \A rec \in records' : rec \in records \/ Witnessed(rec)'
  PROVE  RunsInv'
<1>1. /\ p \in Proc /\ pc'[p] = l /\ job'[p] = j
      /\ \A q \in Proc \ {p} : pc'[q] = pc[q] /\ Noticed(q, changed, kills)
  BY DEF Moves
<1>2. Owns(pc[p], job[p])'
  BY <1>1 DEF Owns, Goal
<1>3. \A q \in Proc \ {p} : Owns(pc[q], job[q])'
                            /\ (job'[q].mine = job[q].mine \/ job'[q].mine = << >>)
  BY <1>1, NoticedOwns
<1>4. ASSUME NEW q \in Proc \ {p} PROVE Apart(j, job'[q]) /\ Apart(job'[q], j)
  <2>1. CASE job'[q].mine = << >>
    BY <2>1 DEF Apart
  <2>2. CASE job'[q].mine = job[q].mine
    <3>1. Fits(pc[q], job[q]) /\ Len(runs) \in Nat /\ Apart(job[p], job[q])
      BY <1>1, RunsIndex DEF TypeInv, RunsInv
    <3>2. ASSUME NEW i \in 1..Len(j.mine), NEW b \in 1..Len(job[q].mine)
          PROVE  j.mine[i] # job[q].mine[b]
      <4>1. job[q].mine[b] \in 1..Len(runs)
        BY <3>1 DEF Fits
      <4>2. CASE j.mine[i] > Len(runs)
        BY <3>1, <4>1, <4>2
      <4>3. CASE \E k \in 1..Len(job[p].mine) : j.mine[i] = job[p].mine[k]
        BY <3>1, <4>3 DEF Apart
      <4>4. QED
        BY <4>2, <4>3
    <3>3. QED
      BY <2>2, <3>2 DEF Apart
  <2>3. QED
    BY <1>3, <2>1, <2>2
<1>5. ASSUME NEW q \in Proc \ {p}, NEW o \in Proc \ {p}, q # o
      PROVE  Apart(job'[q], job'[o])
  <2>1. Apart(job[q], job[o])
    BY <1>5 DEF RunsInv
  <2>2. /\ job'[q].mine = job[q].mine \/ job'[q].mine = << >>
        /\ job'[o].mine = job[o].mine \/ job'[o].mine = << >>
    BY <1>3
  <2>3. QED
    BY <2>1, <2>2, ApartKept
<1>6. \A q, o \in Proc : q # o => Apart(job'[q], job'[o])
  BY <1>1, <1>4, <1>5
<1>7. \A rec \in records' : Witnessed(rec)'
  BY LastsWitnessed, RunsIndex DEF TypeInv, RunsOK
<1>8. QED
  BY <1>2, <1>3, <1>6, <1>7 DEF RunsInv, Apart

\* A step that concerns no run.
LEMMA RunsQuiet ==
  ASSUME TypeInv, TypeInv', RunsInv, NEW p, NEW l, NEW j, NEW changed, NEW kills,
         Moves(p, l, j, changed, kills), runs' = runs,
         \A rec \in records' : rec \in records \/ Witnessed(rec)',
         \/ j.mine = << >>
         \/ /\ j.mine = job[p].mine /\ j.program = job[p].program
            /\ Goal(l, j) \in Working => Goal(pc[p], job[p]) \in Working
  PROVE  RunsInv'
<1>1. p \in Proc /\ Owns(pc[p], job[p]) /\ Fits(pc[p], job[p]) /\ Len(runs) \in Nat
  BY RunsIndex DEF Moves, RunsInv, TypeInv
<1>2. Lasts /\ \A q \in Proc \ {p} : Spares(job[q])
  BY <1>1 DEF Lasts, Spares
<1>3. Fits(l, j)'
  <2>1. pc'[p] = l /\ job'[p] = j
    BY DEF Moves
  <2>2. Fits(pc[p], job[p])'
    BY <1>1 DEF TypeInv
  <2>3. QED
    BY <2>1, <2>2 DEF Fits, Goal
<1>4. Owns(l, j)'
  <2>1. CASE j.mine = << >>
    <3>1. Len(j.mine) = 0
      BY <2>1
    <3>2. Goal(l, j) \notin Working
      BY <1>3, <3>1 DEF Fits
    <3>3. QED
      BY <3>1, <3>2 DEF Owns
  <2>2. CASE /\ j.mine = job[p].mine /\ j.program = job[p].program
             /\ Goal(l, j) \in Working => Goal(pc[p], job[p]) \in Working
    BY <1>1, <2>2 DEF Owns
  <2>3. QED
    BY <2>1, <2>2
<1>5. \A i \in 1..Len(j.mine) : \E k \in 1..Len(job[p].mine) : j.mine[i] = job[p].mine[k]
  OBVIOUS
<1>6. \A r \in 1..Len(runs') : Faithful(r)'
  BY DEF RunsInv, Faithful
<1>7. QED
  BY <1>2, <1>4, <1>5, <1>6, RunsFrame

LEMMA DockerRuns ==
  ASSUME TypeInv, TypeInv', RunsInv, NEW p, NEW l, NEW j, NEW changed, NEW kills,
         Docker(p, l, j, changed, kills)
  PROVE  RunsInv'
<1>1. /\ Moves(p, l, j, changed, kills) /\ Goes(p, l, j) /\ p \in Proc
      /\ runs' = runs /\ records' = records
  BY DEF Docker, Moves
<1>2. Fits(pc[p], job[p])
  BY <1>1 DEF TypeInv
<1>3. j.mine = job[p].mine /\ j.program = job[p].program /\ j.next = job[p].next
  BY <1>1 DEF Goes, Keeps
<1>4. Goal(l, j) \in Working => Goal(pc[p], job[p]) \in Working
  <2>1. CASE pc[p] \in Ensuring /\ l \in Ensuring \cup {job[p].next}
    BY <1>3, <2>1 DEF Goal
  <2>2. CASE l \in Stopping \cup {"idle", "failed"}
    BY <2>2 DEF Goal, Working, Stopping, Ensuring
  <2>3. QED
    BY <1>1, <2>1, <2>2 DEF Goes
<1>5. QED
  BY <1>1, <1>3, <1>4, RunsQuiet

\* What ensure_running, stop and reset do besides rmtree.
LEMMA DockerStep ==
  ASSUME TypeInv, NEW p \in Proc, EnsureRunning(p) \/ StopRunning(p)
  PROVE  \E l, j, changed, kills : Docker(p, l, j, changed, kills)
<1>1. ASSUME NEW can, NEW b, NEW next, NEW check, Does(p, can, b, next, check)
      PROVE  \E l, j, changed, kills : Docker(p, l, j, changed, kills)
  <2>1. PICK l, j : Docker(p, l, j, box' # box, Up /\ ~Up')
    BY <1>1 DEF Does
  <2>2. PICK changed, kills : changed = (box' # box) /\ kills = (Up /\ ~Up')
    OBVIOUS
  <2>3. Docker(p, l, j, changed, kills)
    BY <2>1, <2>2 DEF Docker, Moves
  <2>4. QED
    BY <2>3
<1>2. ASSUME \E l, j : Looks(p, l, j)
      PROVE  \E l, j, changed, kills : Docker(p, l, j, changed, kills)
  BY <1>2 DEF Looks
<1>3. CASE Dirs(p) \/ Stamp(p) \/ Write(p)
  <2>1. PICK made, rewrites : made = (dir' # dir) /\ rewrites = Rewrites(p)
    OBVIOUS
  <2>2. \/ \E j : Marks(p, "stamp", j, made)
        \/ \E l, j : Marks(p, l, j, FALSE)
        \/ \E j : Marks(p, "inspect", j, rewrites)
    BY <1>3, <2>1, DirsStep, StampStep, WriteStep
  <2>3. QED
    BY <2>2 DEF Marks
<1>4. CASE DirsFail(p) \/ Inspect(p) \/ Mount(p) \/ Probe(p) \/ Compare(p)
  <2>1. \E l, j : Looks(p, l, j)
    BY <1>4, DirsFailStep, InspectStep, MountStep, ProbeStep, CompareStep
  <2>2. QED
    BY <1>2, <2>1
<1>5. CASE Replace(p)
  <2>1. PICK up, some, none, fit : /\ up = Present /\ some = (Present /\ ~Up)
                                   /\ none = (~Present /\ dir # 0)
                                   /\ fit = (Present /\ (Up \/ dir # 0))
    OBVIOUS
  <2>2. PICK halted, fresh, same : /\ halted = Halted /\ fresh = Fresh
                                   /\ same = IF Up THEN box ELSE Fresh
    OBVIOUS
  <2>3. \/ Does(p, up, halted, "remove", TRUE)
        \/ Does(p, some, None, "create", TRUE)
        \/ Does(p, fit, same, "probe", TRUE)
        \/ Does(p, up, halted, "dropped", FALSE)
        \/ Does(p, some, None, "create", FALSE)
        \/ Does(p, none, fresh, "created", TRUE)
        \/ Does(p, up, None, "failed", FALSE)
    BY <1>5, <2>1, <2>2, ReplaceStep
  <2>4. QED
    BY <1>1, <2>3
<1>6. CASE StopRunning(p) /\ pc[p] \in {"stopping", "look"}
  BY <1>2, <1>6, StateStep
<1>7. CASE StopRunning(p) /\ pc[p] \in {"halt", "erase"}
  <2>1. PICK up, some : up = Present /\ some = (Present /\ ~Up)
    OBVIOUS
  <2>2. PICK halted, next, last : /\ halted = Halted
                                  /\ next = IF job[p].op = "stop" THEN "idle" ELSE "look"
                                  /\ last = IF job[p].op = "reset" THEN "rmtree" ELSE "idle"
    OBVIOUS
  <2>3. Does(p, up, halted, next, TRUE) \/ Does(p, some, None, last, TRUE)
    BY <1>7, <2>1, <2>2, HaltStep
  <2>4. QED
    BY <1>1, <2>3
<1>8. QED
  BY <1>3, <1>4, <1>5, <1>6, <1>7 DEF EnsureRunning, StopRunning

LEMMA CommandRuns ==
  ASSUME TypeInv, TypeInv', RunsInv, NEW p \in Proc,
         Begin(p) \/ Return(p) \/ Implement(p) \/ Exec(p)
  PROVE  RunsInv'
<1>1. CASE Begin(p)
  <2>1. PICK l, j : Begins(p, l, j)
    BY <1>1, BeginStep
  <2>2. Moves(p, l, j, FALSE, FALSE) /\ runs' = runs /\ records' = records /\ j.mine = << >>
    BY <2>1 DEF Begins
  <2>3. QED
    BY <2>2, RunsQuiet
<1>2. CASE Return(p)
  <2>1. Forgets(p) /\ runs' = runs /\ records' = records
    BY <1>2, ForgetStep DEF Return
  <2>2. PICK j : j = Blank
    OBVIOUS
  <2>3. Moves(p, "idle", j, FALSE, FALSE) /\ j.mine = << >>
    BY <2>1, <2>2 DEF Forgets, Moves, Blank
  <2>4. QED
    BY <2>1, <2>3, RunsQuiet
<1>3. CASE Implement(p)
  <2>1. PICK l, j : Implements(p, l, j)
    BY <1>3, ImplementStep
  <2>2. Len(job[p].mine) = 0 /\ job[p].mine \in Seq(Nat)
    BY <2>1 DEF Implements, TypeInv, Fits, Job
  <2>3. job[p].mine = << >>
    BY <2>2, EmptySeq
  <2>4. Blank.mine = << >>
    BY DEF Blank
  <2>5. j.mine = << >>
    BY <2>1, <2>3, <2>4 DEF Implements
  <2>6. Moves(p, l, j, FALSE, FALSE) /\ runs' = runs /\ records' = records
    BY <2>1 DEF Implements
  <2>7. QED
    BY <2>5, <2>6, RunsQuiet
<1>4. CASE Exec(p)
  <2>1. PICK l, j : Execs(p, l, j)
    BY <1>4, ExecStep
  <2>2. /\ Moves(p, l, j, FALSE, FALSE) /\ runs' = runs /\ records' = records
        /\ j.mine = job[p].mine /\ j.program = job[p].program
    BY <2>1 DEF Execs
  <2>3. Goal(pc[p], job[p]) \in Working
    BY <2>1 DEF Execs, Goal, Working, Ensuring
  <2>4. QED
    BY <2>2, <2>3, RunsQuiet
<1>5. QED
  BY <1>1, <1>2, <1>3, <1>4

\* A record is admitted for two runs that have kept its output.
LEMMA JudgeRuns ==
  ASSUME TypeInv, TypeInv', RunsInv, NEW p \in Proc, Judge(p)
  PROVE  RunsInv'
<1> DEFINE mine == job[p].mine
<1>1. PICK output, new :
        /\ output = runs[mine[1]].kept
        /\ new = [program |-> job[p].program, output |-> output, runs |-> mine]
  OBVIOUS
<1>2. /\ pc[p] = "judge" /\ runs' = runs /\ Forgets(p)
      /\ \/ records' = records
         \/ /\ output # None /\ \A i \in DOMAIN mine : runs[mine[i]].kept = output
            /\ records' = records \cup {new}
  BY <1>1, ForgetStep DEF Judge
<1>3. /\ Owns(pc[p], job[p]) /\ mine \in Seq(Nat) /\ Len(mine) \in Nat /\ Len(mine) > 1
      /\ \A i \in 1..Len(mine) : mine[i] \in 1..Len(runs)
  <2>1. Owns(pc[p], job[p]) /\ Fits("judge", job[p])
    BY <1>2 DEF RunsInv, TypeInv
  <2>2. job[p].mine \in Seq(Nat)
    BY <2>1 DEF Fits, Job
  <2>3. Len(mine) \in Nat
    BY <2>2
  <2>4. Len(mine) > 1 /\ \A i \in 1..Len(mine) : mine[i] \in 1..Len(runs)
    BY <2>1 DEF Fits, Goal, Ensuring
  <2>5. QED
    BY <2>1, <2>2, <2>3, <2>4
<1>4. ASSUME output # None, \A i \in DOMAIN mine : runs[mine[i]].kept = output
      PROVE  Witnessed(new)'
  <2>1. 1 \in 1..Len(mine) /\ 2 \in 1..Len(mine) /\ DOMAIN mine = 1..Len(mine)
    BY <1>3
  <2>2. PICK r, s : r = mine[1] /\ s = mine[2]
    OBVIOUS
  <2>3. /\ r \in 1..Len(runs') /\ s \in 1..Len(runs') /\ r # s
        /\ \A x \in {r, s} : runs'[x].program = job[p].program /\ runs'[x].kept = output
    BY <1>2, <1>3, <1>4, <2>1, <2>2 DEF Owns
  <2>4. new.program = job[p].program /\ new.output = output
    BY <1>1
  <2>5. QED
    BY <1>4, <2>3, <2>4 DEF Witnessed
<1>5. \A r \in records' : r \in records \/ Witnessed(r)'
  <2>1. records' = records \/ (records' = records \cup {new} /\ Witnessed(new)')
    BY <1>2, <1>4
  <2>2. QED
    BY <2>1
<1>6. PICK j : j = Blank
  OBVIOUS
<1>7. Moves(p, "idle", j, FALSE, FALSE) /\ j.mine = << >>
  BY <1>2, <1>6 DEF Forgets, Moves, Blank
<1>8. QED
  BY <1>2, <1>5, <1>7, RunsQuiet

\* A run gets its output or its result: only the process it belongs to knows of it.
LEMMA RunChanges ==
  ASSUME TypeInv, TypeInv', RunsInv, NEW p, NEW l, NEW j, Moves(p, l, j, FALSE, FALSE),
         Goal(pc[p], job[p]) \in Working, NEW x \in Run,
         runs' = [runs EXCEPT ![Mine(p)] = x], records' = records,
         x.program = runs[Mine(p)].program,
         x.out # None => x.wrote, x.kept # None => x.kept = x.out,
         \/ j = Blank
         \/ /\ j.mine = job[p].mine /\ j.program = job[p].program
            /\ Goal(l, j) \in Working => x.kept = None
  PROVE  RunsInv'
<1>1. /\ p \in Proc /\ Owns(pc[p], job[p]) /\ Fits(pc[p], job[p]) /\ Len(runs) \in Nat
      /\ runs \in Seq(Run)
  BY RunsIndex DEF Moves, RunsInv, TypeInv, RunsOK
<1>2. /\ Len(job[p].mine) > 0 /\ Len(job[p].mine) \in 1..Len(job[p].mine)
      /\ Mine(p) \in 1..Len(runs) /\ Mine(p) = job[p].mine[Len(job[p].mine)]
  BY <1>1, MineIndex DEF Fits, Mine
<1>3. /\ Len(runs') = Len(runs) /\ runs'[Mine(p)] = x
      /\ \A r \in 1..Len(runs) : r # Mine(p) => runs'[r] = runs[r]
  BY <1>1, <1>2, ExceptSeq
<1>4. runs[Mine(p)].kept = None
  BY <1>1, <1>2 DEF Owns
<1>5. Lasts
  <2>1. \A r \in 1..Len(runs) : /\ runs'[r].program = runs[r].program
                                /\ runs[r].kept # None => runs'[r].kept = runs[r].kept
    BY <1>3, <1>4
  <2>2. QED
    BY <1>1, <1>3, <2>1 DEF Lasts
<1>6. ASSUME NEW q \in Proc \ {p} PROVE Spares(job[q])
  <2>1. Apart(job[p], job[q]) /\ Fits(pc[q], job[q])
    BY <1>1, <1>6 DEF RunsInv, TypeInv
  <2>2. \A i \in 1..Len(job[q].mine) : job[q].mine[i] # Mine(p) /\ job[q].mine[i] \in 1..Len(runs)
    BY <1>2, <2>1 DEF Apart, Fits
  <2>3. QED
    BY <1>3, <2>2 DEF Spares
<1>7. \A r \in 1..Len(runs') : Faithful(r)'
  <2>1. \A r \in 1..Len(runs) : Faithful(r)
    BY DEF RunsInv
  <2>2. QED
    BY <1>3, <2>1 DEF Faithful
<1>8. Owns(l, j)'
  <2>1. CASE j = Blank
    <3>1. Len(j.mine) = 0
      BY <2>1 DEF Blank
    <3>2. pc'[p] = l /\ job'[p] = j /\ Fits(pc[p], job[p])'
      BY <1>1 DEF Moves, TypeInv
    <3>3. Goal(l, j) \notin Working
      BY <3>1, <3>2 DEF Fits, Goal
    <3>4. QED
      BY <3>1, <3>3 DEF Owns
  <2>2. CASE /\ j.mine = job[p].mine /\ j.program = job[p].program
             /\ Goal(l, j) \in Working => x.kept = None
    <3>1. \A i \in 1..Len(j.mine) : runs'[j.mine[i]].program = j.program
      BY <1>1, <1>5, <2>2 DEF Owns, Lasts, Fits
    <3>2. Goal(l, j) \in Working => runs'[j.mine[Len(j.mine)]].kept = None
      BY <1>2, <1>3, <2>2
    <3>3. QED
      BY <1>1, <2>2, <3>1, <3>2 DEF Owns
  <2>3. QED
    BY <2>1, <2>2
<1>9. \A i \in 1..Len(j.mine) : \E k \in 1..Len(job[p].mine) : j.mine[i] = job[p].mine[k]
  <2>1. Blank.mine = << >>
    BY DEF Blank
  <2>2. QED
    BY <2>1
<1>10. QED
  BY <1>5, <1>6, <1>7, <1>8, <1>9, RunsFrame

LEMMA EndsRuns ==
  ASSUME TypeInv, TypeInv', RunsInv, NEW p \in Proc, Ends(p)
  PROVE  RunsInv'
<1>1. PICK j : EndsWith(p, j)
  BY EndsStep
<1>2. /\ Moves(p, "collect", j, FALSE, FALSE) /\ records' = records /\ pc[p] = "running"
      /\ j.mine = job[p].mine /\ j.program = job[p].program
  BY <1>1 DEF EndsWith
<1>3. Goal(pc[p], job[p]) \in Working
  BY <1>2 DEF Goal, Working, Ensuring
<1>4. CASE runs' = runs
  BY <1>2, <1>3, <1>4, RunsQuiet
<1>5. CASE \E out \in Value : runs' = [runs EXCEPT ![Mine(p)].out = out, ![Mine(p)].wrote = TRUE]
  <2>1. PICK out \in Value : runs' = [runs EXCEPT ![Mine(p)].out = out, ![Mine(p)].wrote = TRUE]
    BY <1>5
  <2>2. /\ Fits(pc[p], job[p]) /\ Owns(pc[p], job[p]) /\ Len(job[p].mine) > 0
    BY <1>3 DEF TypeInv, RunsInv, Fits
  <2>3. /\ Mine(p) \in 1..Len(runs) /\ runs[Mine(p)] \in Run /\ runs[Mine(p)].kept = None
    BY <1>3, <2>2, MineIndex, RunsIndex DEF Owns, Mine
  <2>4. PICK x : x = [runs[Mine(p)] EXCEPT !.out = out, !.wrote = TRUE]
    OBVIOUS
  <2>5. x \in Run
    BY <2>3, <2>4, RunUpdates
  <2>6. x.program = runs[Mine(p)].program /\ x.wrote /\ x.kept = None
    BY <2>3, <2>4 DEF Run
  <2>7. runs' = [runs EXCEPT ![Mine(p)] = x]
    BY <2>1, <2>3, <2>4 DEF TypeInv, RunsOK
  <2>8. QED
    BY <1>2, <1>3, <2>5, <2>6, <2>7, RunChanges
<1>6. QED
  BY <1>1, <1>4, <1>5 DEF EndsWith

LEMMA CollectRuns ==
  ASSUME TypeInv, TypeInv', RunsInv, NEW p \in Proc, Collect(p)
  PROVE  RunsInv'
<1>1. PICK l, j : Collects(p, l, j)
  BY CollectStep
<1>2. /\ Moves(p, l, j, FALSE, FALSE) /\ records' = records /\ pc[p] = "collect"
      /\ \/ l = "idle" /\ j = Blank
         \/ j.mine = job[p].mine /\ j.program = job[p].program /\ Goal(l, j) \notin Working
  BY <1>1 DEF Collects, Goal, Ensuring, Working
<1>3. Goal(pc[p], job[p]) \in Working
  BY <1>2 DEF Goal, Working, Ensuring
<1>4. CASE runs' = runs
  <2>1. Blank.mine = << >>
    BY DEF Blank
  <2>2. QED
    BY <1>2, <1>3, <1>4, <2>1, RunsQuiet
<1>5. CASE \E kept \in {runs[Mine(p)].out, None} : runs' = [runs EXCEPT ![Mine(p)].kept = kept]
  <2>1. PICK kept \in {runs[Mine(p)].out, None} : runs' = [runs EXCEPT ![Mine(p)].kept = kept]
    BY <1>5
  <2>2. /\ Fits(pc[p], job[p]) /\ Owns(pc[p], job[p]) /\ Len(job[p].mine) > 0
    BY <1>3 DEF TypeInv, RunsInv, Fits
  <2>3. Mine(p) \in 1..Len(runs) /\ runs[Mine(p)] \in Run /\ Faithful(Mine(p))
    BY <2>2, MineIndex, RunsIndex DEF RunsInv
  <2>4. PICK x : x = [runs[Mine(p)] EXCEPT !.kept = kept]
    OBVIOUS
  <2>5. x \in Run
    <3>1. kept \in Value \cup {None}
      BY <2>3 DEF Run
    <3>2. QED
      BY <2>3, <2>4, <3>1, RunUpdates
  <2>6. /\ x.program = runs[Mine(p)].program /\ x.wrote = runs[Mine(p)].wrote
        /\ x.out = runs[Mine(p)].out /\ x.kept = kept
    BY <2>3, <2>4 DEF Run
  <2>7. runs' = [runs EXCEPT ![Mine(p)] = x]
    BY <2>1, <2>3, <2>4 DEF TypeInv, RunsOK
  <2>8. (x.out # None => x.wrote) /\ (x.kept # None => x.kept = x.out)
    BY <2>1, <2>3, <2>6 DEF Faithful
  <2>9. QED
    BY <1>2, <1>3, <2>5, <2>6, <2>7, <2>8, RunChanges
<1>6. QED
  BY <1>1, <1>4, <1>5 DEF Collects

LEMMA PrepareRuns ==
  ASSUME TypeInv, TypeInv', RunsInv, NEW p \in Proc, Prepare(p)
  PROVE  RunsInv'
<1>1. PICK j : Prepares(p, j)
  BY PrepareStep
<1>2. /\ Owns(pc[p], job[p]) /\ Fits(pc[p], job[p]) /\ Len(runs) \in Nat /\ runs \in Seq(Run)
      /\ job[p].mine \in Seq(Nat) /\ Len(job[p].mine) \in Nat /\ job[p].program \in Program
  <2>1. /\ Owns(pc[p], job[p]) /\ Fits(pc[p], job[p]) /\ Len(runs) \in Nat
        /\ runs \in Seq(Run)
    BY RunsIndex DEF RunsInv, TypeInv, RunsOK
  <2>2. job[p].mine \in Seq(Nat) /\ Len(job[p].mine) \in Nat
    BY <2>1 DEF Fits, Job
  <2>3. Goal(pc[p], job[p]) = "prepare"
    BY <1>1 DEF Prepares, Goal, Ensuring
  <2>4. QED
    BY <2>1, <2>2, <2>3 DEF Fits
<1>3. NewRun(p) \in Run
  BY <1>1, <1>2 DEF NewRun, Run, Prepares, HostOK
<1>4. /\ Len(runs') = Len(runs) + 1 /\ runs'[Len(runs) + 1] = NewRun(p)
      /\ \A r \in 1..Len(runs) : runs'[r] = runs[r]
  BY <1>1, <1>2, <1>3, AppendProperties DEF Prepares
<1>5. /\ Len(j.mine) = Len(job[p].mine) + 1
      /\ j.mine[Len(job[p].mine) + 1] = Len(runs) + 1
      /\ \A i \in 1..Len(job[p].mine) : j.mine[i] = job[p].mine[i]
      /\ j.program = job[p].program
  BY <1>1, <1>2, AppendProperties DEF Prepares
<1>6. Lasts
  BY <1>2, <1>4 DEF Lasts
<1>7. ASSUME NEW q \in Proc PROVE Spares(job[q])
  <2>1. Fits(pc[q], job[q])
    BY DEF TypeInv
  <2>2. QED
    BY <1>4, <2>1 DEF Spares, Fits
<1>8. /\ NewRun(p).out = None /\ NewRun(p).kept = None
      /\ NewRun(p).program = job[p].program
  BY DEF NewRun
<1>9. ASSUME NEW r \in 1..Len(runs') PROVE Faithful(r)'
  <2>1. CASE r \in 1..Len(runs)
    BY <1>4, <2>1 DEF RunsInv, Faithful
  <2>2. CASE r = Len(runs) + 1
    BY <1>4, <1>8, <2>2 DEF Faithful
  <2>3. QED
    BY <1>2, <1>4, <2>1, <2>2
<1>10. \A i \in 1..Len(j.mine) : i \in 1..Len(job[p].mine) \/ i = Len(job[p].mine) + 1
  BY <1>2, <1>5
<1>11. \A i \in 1..Len(job[p].mine) : job[p].mine[i] \in 1..Len(runs)
  BY <1>2 DEF Fits
<1>12. Owns("dirs", j)'
  <2>1. \A i \in 1..Len(j.mine) : runs'[j.mine[i]].program = j.program
    <3>1. ASSUME NEW i \in 1..Len(job[p].mine) PROVE runs'[j.mine[i]].program = j.program
      <4>1. j.mine[i] = job[p].mine[i] /\ job[p].mine[i] \in 1..Len(runs)
        BY <1>5, <1>11
      <4>2. runs[job[p].mine[i]].program = job[p].program
        BY <1>2 DEF Owns
      <4>3. QED
        BY <1>4, <1>5, <4>1, <4>2
    <3>2. QED
      BY <1>4, <1>5, <1>8, <1>10, <3>1
  <2>2. \A i, k \in 1..Len(j.mine) : i # k => j.mine[i] # j.mine[k]
    <3>1. ASSUME NEW i \in 1..Len(job[p].mine) PROVE j.mine[i] # Len(runs) + 1
      <4>1. j.mine[i] = job[p].mine[i] /\ job[p].mine[i] \in 1..Len(runs)
        BY <1>5, <1>11
      <4>2. QED
        BY <1>2, <4>1
    <3>2. \A i, k \in 1..Len(job[p].mine) : i # k => j.mine[i] # j.mine[k]
      BY <1>2, <1>5 DEF Owns
    <3>3. QED
      BY <1>5, <1>10, <3>1, <3>2
  <2>3. runs'[j.mine[Len(j.mine)]].kept = None
    BY <1>4, <1>5, <1>8
  <2>4. QED
    BY <2>1, <2>2, <2>3 DEF Owns
<1>13. \A i \in 1..Len(j.mine) : \/ \E k \in 1..Len(job[p].mine) : j.mine[i] = job[p].mine[k]
                                 \/ j.mine[i] > Len(runs)
  BY <1>2, <1>5, <1>10
<1>14. Moves(p, "dirs", j, FALSE, FALSE) /\ records' = records
  BY <1>1 DEF Prepares
<1>15. QED
  BY <1>6, <1>7, <1>9, <1>12, <1>13, <1>14, RunsFrame

LEMMA RmtreeRuns ==
  ASSUME TypeInv, TypeInv', RunsInv, NEW p \in Proc, Rmtree(p)
  PROVE  RunsInv'
<1>1. Empties(p) /\ Len(runs) \in Nat
  BY RmtreeStep, RunsIndex
<1>2. /\ Len(runs') = Len(runs) /\ records' = records
      /\ \A r \in 1..Len(runs) :
           /\ runs'[r].program = runs[r].program /\ runs'[r].out = runs[r].out
           /\ runs'[r].wrote = runs[r].wrote /\ runs'[r].kept = runs[r].kept
  BY <1>1 DEF Empties
<1>3. Lasts
  BY <1>1, <1>2 DEF Lasts
<1>4. ASSUME NEW q \in Proc PROVE Spares(job[q])
  <2>1. Fits(pc[q], job[q])
    BY DEF TypeInv
  <2>2. QED
    BY <1>2, <2>1 DEF Spares, Fits
<1>5. \A r \in 1..Len(runs') : Faithful(r)'
  BY <1>2 DEF RunsInv, Faithful
<1>6. PICK j, changed : j = Blank /\ changed = (dir # 0)
  OBVIOUS
<1>7. Moves(p, "idle", j, changed, FALSE) /\ Len(j.mine) = 0
  BY <1>1, <1>6 DEF Empties, Moves, Blank
<1>8. Owns("idle", j)'
  BY <1>7 DEF Owns, Goal, Working, Ensuring
<1>9. /\ \A q \in Proc \ {p} : Spares(job[q])
      /\ \A i \in 1..Len(j.mine) : j.mine[i] > Len(runs)
      /\ \A rec \in records' : rec \in records
  BY <1>2, <1>4, <1>7
<1>10. QED
  BY <1>3, <1>5, <1>7, <1>8, <1>9, RunsFrame

LEMMA WorldRuns ==
  ASSUME TypeInv, RunsInv, Dies \/ Archive
  PROVE  RunsInv'
<1>1. PICK kills \in BOOLEAN : Everyone(kills) /\ pc' = pc /\ runs' = runs /\ records' = records
  BY DEF Dies, Archive
<1>2. \A q \in Proc : pc'[q] = pc[q] /\ Noticed(q, TRUE, kills)
  BY <1>1, EveryoneStep
<1>3. Lasts /\ \A q \in Proc : Spares(job[q])
  BY <1>1, RunsIndex DEF Lasts, Spares
<1>4. \A q \in Proc : Owns(pc[q], job[q])'
                      /\ (job'[q].mine = job[q].mine \/ job'[q].mine = << >>)
  BY <1>2, <1>3, NoticedOwns
<1>5. ASSUME NEW q \in Proc, NEW o \in Proc, q # o PROVE Apart(job'[q], job'[o])
  <2>1. Apart(job[q], job[o])
    BY <1>5 DEF RunsInv
  <2>2. QED
    BY <1>4, <2>1, ApartKept
<1>6. \A r \in 1..Len(runs') : Faithful(r)'
  BY <1>1 DEF RunsInv, Faithful
<1>7. \A rec \in records' : Witnessed(rec)'
  BY <1>1 DEF RunsInv, Witnessed
<1>8. QED
  BY <1>4, <1>5, <1>6, <1>7 DEF RunsInv, Apart

LEMMA RunsInvInductive ==
  ASSUME TypeInv, TypeInv', RunsInv, [ExperimentNext]_vars
  PROVE  RunsInv'
<1>1. ASSUME NEW p \in Proc, EnsureRunning(p) \/ StopRunning(p) PROVE RunsInv'
  BY <1>1, DockerStep, DockerRuns
<1>2. ASSUME NEW p \in Proc, Step(p) PROVE RunsInv'
  BY <1>1, <1>2, CommandRuns, JudgeRuns, RmtreeRuns, PrepareRuns, EndsRuns, CollectRuns DEF Step
<1>3. CASE Dies \/ Archive
  BY <1>3, WorldRuns
<1>4. CASE UNCHANGED vars
  <2>1. UNCHANGED <<runs, records, pc, job>>
    BY <1>4 DEF vars
  <2>2. QED
    BY <2>1 DEF RunsInv, Owns, Apart, Faithful, Witnessed, Goal
<1>5. QED
  BY <1>2, <1>3, <1>4 DEF ExperimentNext

\* However many commands share the container and whatever docker fails at, an observed
\* experiment has two runs of its program that wrote the output it names.
THEOREM ObservedTwiceHolds == ExperimentSpec => []ObservedTwice
<1>1. ExperimentInit => RunsInv
  <2> SUFFICES ASSUME ExperimentInit PROVE RunsInv
    OBVIOUS
  <2>1. runs = << >> /\ records = {} /\ \A p \in Proc : pc[p] = "idle" /\ job[p] = Blank
    BY DEF ExperimentInit
  <2>2. Len(Blank.mine) = 0 /\ "idle" \notin Ensuring \cup Working
    BY DEF Blank, Ensuring, Working
  <2>3. QED
    BY <2>1, <2>2 DEF RunsInv, Owns, Apart, Goal
<1>2. TypeInv /\ RunsInv => ObservedTwice
  <2> SUFFICES ASSUME TypeInv, RunsInv, NEW rec \in records
               PROVE  \E r, s \in DOMAIN runs :
                        /\ r # s
                        /\ \A x \in {r, s} : /\ runs[x].program = rec.program
                                             /\ runs[x].wrote /\ runs[x].out = rec.output
    BY DEF ObservedTwice
  <2>1. Witnessed(rec) /\ DOMAIN runs = 1..Len(runs)
    BY DEF RunsInv, TypeInv, RunsOK
  <2>2. PICK r, s \in 1..Len(runs) :
          /\ r # s
          /\ \A x \in {r, s} : runs[x].program = rec.program /\ runs[x].kept = rec.output
    BY <2>1 DEF Witnessed
  <2>3. Faithful(r) /\ Faithful(s) /\ rec.output # None
    BY <2>1 DEF RunsInv, Witnessed
  <2>4. QED
    BY <2>1, <2>2, <2>3 DEF Faithful
<1>3. QED
  BY <1>1, <1>2, InitTypeInv, TypeInvInductive, RunsInvInductive, PTL DEF ExperimentSpec

-----------------------------------------------------------------------------
(***************************************************************************)
(* What an undisturbed process knows of the container                      *)
(***************************************************************************)
\* The stages that come after the sentinel has been opened.
Past == (Ensuring \ {"dirs", "stamp"}) \cup Next3

Current == Up /\ box.on = dir

\* The sentinel under the path names its directory, unless someone is rewriting it.
Marked == dir # 0 /\ token[dir] \in {dir, Empty}

\* Where docker has done all it was told and nobody interfered.
Smooth(l, j) ==
  /\ l \notin {"evict", "remove"}
  /\ l \in {"failed", "discard"} => j.torn
  /\ l \in {"mount", "start", "probe", "created", "halt", "erase"} => Present
  /\ l = "mount" => j.state = Status
  /\ l \in {"halt", "probe", "created"} => Up
  /\ l = "created" => Current
  /\ l = "compare" /\ j.fresh => j.seen \in {dir, Empty}
  /\ l \in {"dropped", "look", "erase"} => ~Up
  /\ l = "create" => ~Present

Knows(l, j) ==
  ~j.touched =>
    /\ l \in {"stamp", "write"} => dir # 0 /\ j.inode = dir
    /\ l = "write" => j.file = dir
    /\ l \in Past => Marked
    /\ l = "compare" /\ j.seen \notin {0, Empty} => Up /\ box.on >= j.seen
    /\ l \in Next3 /\ ~j.torn => Current
    /\ ~j.faulted => Smooth(l, j)

BoxInv == \A p \in Proc : Knows(pc[p], job[p])

\* A step that the others do not notice leaves the container and a marked directory alone.
Leaves(changed) ==
  ~changed => /\ box' = box
              /\ dir # 0 => dir' = dir /\ (Marked => Marked')

\* Stages that have something to do with the container.
Near == Past \cup {"stamp", "halt", "look", "erase"}

\* A command that is nowhere near the container knows nothing of it.
LEMMA AwayKnows ==
  ASSUME NEW l, NEW j, l \notin Near, l = "failed" => j.faulted
  PROVE  Knows(l, j)'
BY DEF Knows, Smooth, Past, Ensuring, Next3, Near

LEMMA NoticedKnows ==
  ASSUME TypeInv, BoxInv, NEW q \in Proc, NEW changed, NEW kills, Leaves(changed),
         Noticed(q, changed, kills)
  PROVE  pc'[q] = pc[q] => Knows(pc[q], job[q])'
<1> SUFFICES ASSUME pc'[q] = pc[q] PROVE Knows(pc[q], job[q])'
  OBVIOUS
<1>1. Knows(pc[q], job[q])
  BY DEF BoxInv
<1>2. CASE pc[q] \in Outside \cup {"idle"}
  <2>1. PICK l, j : l = pc[q] /\ j = job'[q]
    OBVIOUS
  <2>2. l \notin Near /\ l # "failed"
    BY <1>2, <2>1 DEF Past, Next3, Ensuring, Near, Outside
  <2>3. Knows(l, j)'
    BY <2>2, AwayKnows
  <2>4. QED
    BY <2>1, <2>3 DEF Knows, Smooth
<1>3. CASE job'[q].touched
  BY <1>3 DEF Knows
<1>4. CASE /\ ~job'[q].touched /\ pc[q] \notin Outside \cup {"idle"}
           /\ job'[q].touched = (job[q].touched \/ (changed /\ pc[q] \notin Outside))
           /\ job'[q].inode = job[q].inode /\ job'[q].file = job[q].file
           /\ job'[q].torn = job[q].torn
           /\ job'[q].state = job[q].state /\ job'[q].seen = job[q].seen
           /\ job'[q].fresh = job[q].fresh /\ job'[q].faulted = job[q].faulted
  <2>1. /\ ~job[q].touched /\ box' = box
        /\ dir # 0 => dir' = dir /\ (Marked => Marked')
    BY <1>4 DEF Leaves
  <2>2. pc[q] \in Past => dir' = dir /\ Marked'
    BY <1>1, <2>1 DEF Knows, Marked
  <2>3. (Present <=> Present') /\ (Up <=> Up') /\ Status = Status'
    BY <2>1 DEF Present, Up, Status
  <2>4. {"compare", "created", "write"} \cup Next3 \subseteq Past
    BY DEF Past, Ensuring
  <2>5. ~job'[q].faulted => Smooth(pc[q], job[q])'
    <3>1. ~job'[q].faulted => Smooth(pc[q], job[q])
      BY <1>1, <1>4, <2>1 DEF Knows
    <3>2. QED
      BY <1>4, <2>1, <2>2, <2>3, <2>4, <3>1 DEF Smooth, Current
  <2>6. pc[q] \in Next3 /\ ~job'[q].torn => Current'
    BY <1>1, <1>4, <2>1, <2>2, <2>3, <2>4 DEF Knows, Current
  <2>7. pc[q] \in {"stamp", "write"} => dir' # 0 /\ job'[q].inode = dir'
    BY <1>1, <1>4, <2>1 DEF Knows
  <2>8. pc[q] = "write" => job'[q].file = dir'
    BY <1>1, <1>4, <2>1 DEF Knows
  <2>9. pc[q] = "compare" /\ job'[q].seen \notin {0, Empty} => Up' /\ box'.on >= job'[q].seen
    BY <1>1, <1>4, <2>1, <2>3 DEF Knows
  <2>10. QED
    BY <2>2, <2>5, <2>6, <2>7, <2>8, <2>9 DEF Knows
<1>5. QED
  BY <1>2, <1>3, <1>4 DEF Noticed

\* It is enough to look at the process that moved.
LEMMA BoxFrame ==
  ASSUME TypeInv, BoxInv, NEW p, NEW l, NEW j, NEW changed, NEW kills,
         Moves(p, l, j, changed, kills), Leaves(changed), Knows(l, j)'
  PROVE  BoxInv'
<1>1. pc'[p] = l /\ job'[p] = j /\ p \in Proc
  BY DEF Moves
<1>2. Knows(pc[p], job[p])'
  BY <1>1 DEF Knows, Smooth
<1>3. ASSUME NEW q \in Proc \ {p} PROVE Knows(pc[q], job[q])'
  <2>1. pc'[q] = pc[q] /\ Noticed(q, changed, kills)
    BY DEF Moves
  <2>2. Knows(pc[q], job[q])'
    BY <2>1, NoticedKnows
  <2>3. QED
    BY <2>1, <2>2
<1>4. QED
  BY <1>2, <1>3 DEF BoxInv

LEMMA AwayBox ==
  ASSUME TypeInv, BoxInv, NEW p, NEW l, NEW j, Moves(p, l, j, FALSE, FALSE),
         UNCHANGED <<host, box>>, l \notin Near, l = "failed" => j.faulted
  PROVE  BoxInv'
<1>1. dir' = dir /\ token' = token /\ box' = box
  BY DEF host
<1>2. Leaves(FALSE)
  BY <1>1 DEF Leaves, Marked
<1>3. QED
  BY <1>2, AwayKnows, BoxFrame

\* Looking changes nothing; it is enough that p has understood what it saw.
LEMMA LooksBox ==
  ASSUME TypeInv, BoxInv, NEW p, NEW l, NEW j, Looks(p, l, j),
         dir' = dir /\ token' = token /\ box' = box => Knows(l, j)'
  PROVE  BoxInv'
<1>1. dir' = dir /\ token' = token /\ box' = box /\ Moves(p, l, j, FALSE, FALSE)
  BY DEF Looks, Docker, host
<1>2. Leaves(FALSE)
  BY <1>1 DEF Leaves, Marked
<1>3. QED
  BY <1>1, <1>2, BoxFrame

LEMMA BrokenBox ==
  ASSUME TypeInv, BoxInv, NEW p, NEW l, NEW j, Looks(p, l, j), Broken(p, l, j)
  PROVE  BoxInv'
<1>1. l \notin Near /\ j.faulted
  BY DEF Broken, Past, Ensuring, Next3, Near
<1>2. Knows(l, j)'
  BY <1>1, AwayKnows
<1>3. QED
  BY <1>2, LooksBox

\* What a look leaves as it was.
LEMMA LooksSame ==
  ASSUME TypeInv, BoxInv, NEW p, NEW l, NEW j, Looks(p, l, j)
  PROVE  /\ p \in Proc /\ Knows(pc[p], job[p]) /\ Fits(pc[p], job[p])
         /\ j.touched = job[p].touched
         /\ (Present' <=> Present) /\ (Up' <=> Up) /\ Status' = Status /\ Token' = Token
         /\ Current' <=> Current
BY DEF Looks, Docker, Moves, Goes, Keeps, BoxInv, TypeInv, Present, Up, Status, Token, Current, host

LEMMA MarksBox ==
  ASSUME TypeInv, BoxInv, NEW p, NEW l, NEW j, NEW changed, Marks(p, l, j, changed),
         Leaves(changed), Knows(l, j)'
  PROVE  BoxInv'
<1>1. Moves(p, l, j, changed, FALSE)
  BY DEF Marks, Docker
<1>2. QED
  BY <1>1, BoxFrame

\* What p keeps while it marks the directory.
LEMMA MarksSame ==
  ASSUME TypeInv, BoxInv, NEW p, NEW l, NEW j, NEW changed, Marks(p, l, j, changed)
  PROVE  /\ p \in Proc /\ Knows(pc[p], job[p]) /\ Fits(pc[p], job[p])
         /\ j.touched = job[p].touched /\ box' = box
BY DEF Marks, Docker, Moves, Goes, Keeps, BoxInv, TypeInv

LEMMA DirsBox ==
  ASSUME TypeInv, BoxInv, NEW p \in Proc, Dirs(p)
  PROVE  BoxInv'
<1>1. PICK j : /\ Marks(p, "stamp", j, dir' # dir) /\ j.inode = dir' /\ dir' # 0
               /\ dir # 0 => dir' = dir /\ token' = token
  BY DirsStep
<1>2. PICK changed : changed = (dir' # dir)
  OBVIOUS
<1>3. Marks(p, "stamp", j, changed)
  BY <1>1, <1>2
<1>4. box' = box
  BY <1>3 DEF Marks
<1>5. Leaves(changed)
  BY <1>1, <1>2, <1>4 DEF Leaves, Marked
<1>6. Knows("stamp", j)'
  <2>1. "stamp" \notin Past
    BY DEF Past, Next3
  <2>2. QED
    BY <1>1, <2>1 DEF Knows, Smooth, Next3
<1>7. QED
  BY <1>3, <1>5, <1>6, MarksBox

LEMMA StampBox ==
  ASSUME TypeInv, BoxInv, NEW p \in Proc, Stamp(p)
  PROVE  BoxInv'
<1>1. PICK l, j : /\ Marks(p, l, j, FALSE) /\ dir' = dir
                  /\ \/ l = "failed" /\ dir = 0 /\ token' = token
                     \/ /\ l = "write" /\ dir # 0 /\ j.file = dir /\ j.inode = job[p].inode
                        /\ token' = [token EXCEPT ![dir] = Empty]
  BY StampStep
<1>2. pc[p] = "stamp" /\ Knows("stamp", job[p]) /\ j.touched = job[p].touched /\ box' = box
  BY <1>1, MarksSame DEF Stamp
<1>3. dir # 0 => dir \in 1..Len(token) /\ token \in Seq(Int)
  BY DEF TypeInv, HostOK
<1>4. l = "write" => Marked'
  <2>1. l = "write" => token'[dir] = Empty
    BY <1>1, <1>3
  <2>2. QED
    BY <1>1, <2>1 DEF Marked
<1>5. Leaves(FALSE)
  BY <1>1, <1>2, <1>4 DEF Leaves
<1>6. Knows(l, j)'
  <2>1. CASE l = "failed"
    <3>1. ~j.touched => FALSE
      BY <1>1, <1>2, <2>1 DEF Knows
    <3>2. QED
      BY <3>1 DEF Knows
  <2>2. CASE l = "write"
    <3>1. ~j.touched => j.inode = dir
      BY <1>1, <1>2, <2>2 DEF Knows
    <3>2. Smooth(l, j)'
      BY <2>2 DEF Smooth
    <3>3. l \notin Next3
      BY <2>2 DEF Next3
    <3>4. QED
      BY <1>1, <1>4, <2>2, <3>1, <3>2, <3>3 DEF Knows
  <2>3. QED
    BY <1>1, <2>1, <2>2
<1>7. QED
  BY <1>1, <1>5, <1>6, MarksBox

LEMMA WriteBox ==
  ASSUME TypeInv, BoxInv, NEW p \in Proc, Write(p)
  PROVE  BoxInv'
<1>1. PICK j : /\ Marks(p, "inspect", j, Rewrites(p)) /\ dir' = dir
               /\ token' = IF token[job[p].file] # 0
                           THEN [token EXCEPT ![job[p].file] = job[p].inode] ELSE token
  BY WriteStep
<1>2. PICK changed : changed = Rewrites(p)
  OBVIOUS
<1>3. Marks(p, "inspect", j, changed)
  BY <1>1, <1>2
<1>4. /\ pc[p] = "write" /\ Knows("write", job[p]) /\ Fits("write", job[p])
      /\ j.touched = job[p].touched /\ box' = box
  BY <1>3, MarksSame DEF Write, Stamped
<1>5. PICK d \in 1..Len(token), n \in Int : d = job[p].file /\ n = job[p].inode
  BY <1>4 DEF Fits, Marking, Job
<1>6. token' = IF token[d] # 0 THEN [token EXCEPT ![d] = n] ELSE token
  BY <1>1, <1>5
<1>7. token \in Seq(Int) /\ Len(token) \in Nat /\ (dir # 0 => dir \in 1..Len(token) /\ dir \in Nat)
  BY DEF TypeInv, HostOK
<1>8. /\ token[d] # 0 => token'[d] = n
      /\ \A e \in 1..Len(token) : e # d => token'[e] = token[e]
  <2>1. CASE token[d] # 0
    <3>1. Len(token) > 0
      BY <1>5, <1>7
    <3>2. QED
      BY <1>6, <1>7, <2>1, <3>1, ExceptSeq
  <2>2. CASE token[d] = 0
    BY <1>6, <2>2
  <2>3. QED
    BY <2>1, <2>2
<1>9. Leaves(changed)
  <2>1. SUFFICES ASSUME ~changed, Marked PROVE Marked'
    BY <1>1, <1>4 DEF Leaves
  <2>2. token[d] = 0 \/ n = d
    BY <1>2, <1>5, <2>1 DEF Rewrites
  <2>3. dir # 0 /\ token[dir] \in {dir, Empty} /\ dir \in 1..Len(token)
    BY <1>7, <2>1 DEF Marked
  <2>4. CASE token[d] = 0
    BY <1>1, <1>6, <2>3, <2>4 DEF Marked
  <2>5. CASE token[d] # 0
    <3>1. token'[d] = d
      BY <1>8, <2>2, <2>5
    <3>2. token'[dir] \in {dir, Empty}
      BY <1>8, <2>3, <3>1
    <3>3. QED
      BY <1>1, <2>3, <3>2 DEF Marked
  <2>6. QED
    BY <2>4, <2>5
<1>10. ~j.touched => Marked'
  <2>1. SUFFICES ASSUME ~j.touched PROVE Marked'
    OBVIOUS
  <2>2. "write" \in Past
    BY DEF Past, Ensuring
  <2>3. Marked /\ d = dir /\ n = dir
    BY <1>4, <1>5, <2>1, <2>2 DEF Knows
  <2>4. token[d] # 0
    BY <1>7, <2>3 DEF Marked, Empty
  <2>5. token'[dir] = dir
    BY <1>8, <2>3, <2>4
  <2>6. QED
    BY <1>1, <2>3, <2>5 DEF Marked
<1>11. Knows("inspect", j)'
  BY <1>10 DEF Knows, Smooth, Next3
<1>12. QED
  BY <1>3, <1>9, <1>11, MarksBox

LEMMA InspectBox ==
  ASSUME TypeInv, BoxInv, NEW p \in Proc, Inspect(p)
  PROVE  BoxInv'
<1>1. PICK l, j :
         /\ Looks(p, l, j)
         /\ \/ Broken(p, l, j)
            \/ /\ l = IF j.state = "absent" THEN "create" ELSE "mount"
               /\ j.state = Status => j.faulted = job[p].faulted
               /\ j.state # Status => j.faulted
  BY InspectStep
<1>2. CASE Broken(p, l, j)
  BY <1>1, <1>2, BrokenBox
<1>3. CASE /\ l = IF j.state = "absent" THEN "create" ELSE "mount"
           /\ j.state = Status => j.faulted = job[p].faulted
           /\ j.state # Status => j.faulted
  <2>1. /\ Knows("inspect", job[p]) /\ j.touched = job[p].touched
        /\ (Present' <=> Present) /\ Status' = Status
    BY <1>1, LooksSame DEF Inspect
  <2>2. SUFFICES ASSUME dir' = dir, token' = token, box' = box PROVE Knows(l, j)'
    BY <1>1, LooksBox
  <2>3. l \in {"create", "mount"} /\ {"inspect", "create", "mount"} \subseteq Past
    BY <1>3 DEF Past, Ensuring
  <2>4. (Status = "absent") = ~Present
    BY DEF Status
  <2>5. ~j.faulted => Smooth(l, j)'
    BY <1>3, <2>1, <2>3, <2>4 DEF Smooth
  <2>6. QED
    BY <2>1, <2>2, <2>3, <2>5 DEF Knows, Next3, Marked
<1>4. QED
  BY <1>1, <1>2, <1>3

LEMMA MountBox ==
  ASSUME TypeInv, BoxInv, NEW p \in Proc, Mount(p)
  PROVE  BoxInv'
<1>1. PICK l, j :
         /\ Looks(p, l, j)
         /\ \/ Broken(p, l, j)
            \/ /\ Present /\ j.faulted = job[p].faulted
               /\ l = IF job[p].state = "running" THEN "probe" ELSE "start"
            \/ /\ l = IF job[p].state = "running" THEN "evict" ELSE "remove"
               /\ job[p].faulted => j.faulted
               /\ ~Present \/ j.faulted
  BY MountStep
<1>2. CASE Broken(p, l, j)
  BY <1>1, <1>2, BrokenBox
<1>3. /\ Knows("mount", job[p]) /\ j.touched = job[p].touched
      /\ (Present' <=> Present) /\ (Up' <=> Up)
  BY <1>1, LooksSame DEF Mount
<1>4. "mount" \in Past
  BY DEF Past, Ensuring
<1>5. CASE /\ Present /\ j.faulted = job[p].faulted
           /\ l = IF job[p].state = "running" THEN "probe" ELSE "start"
  <2>1. SUFFICES ASSUME dir' = dir, token' = token, box' = box PROVE Knows(l, j)'
    BY <1>1, LooksBox
  <2>2. l \in {"probe", "start"}
    BY <1>5
  <2>3. (Status = "running") = Up
    BY DEF Status, Up
  <2>4. ~j.touched /\ ~j.faulted => Smooth(l, j)'
    BY <1>3, <1>5, <2>2, <2>3 DEF Knows, Smooth
  <2>5. QED
    BY <1>3, <1>4, <2>1, <2>2, <2>4 DEF Knows, Next3, Marked
<1>6. CASE /\ l = IF job[p].state = "running" THEN "evict" ELSE "remove"
           /\ job[p].faulted => j.faulted
           /\ ~Present \/ j.faulted
  <2>1. SUFFICES ASSUME dir' = dir, token' = token, box' = box PROVE Knows(l, j)'
    BY <1>1, LooksBox
  <2>2. l \in {"evict", "remove"}
    BY <1>6
  <2>3. ~j.touched => j.faulted
    BY <1>3, <1>6 DEF Knows, Smooth
  <2>4. QED
    BY <1>3, <1>4, <2>1, <2>2, <2>3 DEF Knows, Next3, Marked
<1>7. QED
  BY <1>1, <1>2, <1>5, <1>6

\* The token that is read in a running container names no later directory than its own.
LEMMA TokenNames ==
  ASSUME TypeInv, Token \notin {0, Empty}
  PROVE  Up /\ box.on >= Token
<1>1. Up /\ Token = token[box.on]
  BY DEF Token
<1>2. box.on \in 1..Len(token) /\ Len(token) \in Nat
  BY <1>1, RunsIndex DEF Up, Present, TypeInv, BoxOK
<1>3. token[box.on] \in {Empty} \cup 0..box.on
  BY <1>2 DEF TypeInv, HostOK
<1>4. QED
  BY <1>1, <1>2, <1>3

LEMMA ProbeBox ==
  ASSUME TypeInv, BoxInv, NEW p \in Proc, Probe(p)
  PROVE  BoxInv'
<1>1. PICK l, j :
         /\ Looks(p, l, j)
         /\ \/ Broken(p, l, j)
            \/ /\ l = "compare" /\ j.fresh = (pc[p] = "created")
               /\ \/ j.seen = Token /\ j.faulted = job[p].faulted
                  \/ j.seen = 0 /\ j.faulted
  BY ProbeStep
<1>2. CASE Broken(p, l, j)
  BY <1>1, <1>2, BrokenBox
<1>3. CASE /\ l = "compare" /\ j.fresh = (pc[p] = "created")
           /\ \/ j.seen = Token /\ j.faulted = job[p].faulted
              \/ j.seen = 0 /\ j.faulted
  <2>1. /\ Knows(pc[p], job[p]) /\ j.touched = job[p].touched /\ (Up' <=> Up)
    BY <1>1, LooksSame
  <2>2. SUFFICES ASSUME dir' = dir, token' = token, box' = box PROVE Knows("compare", j)'
    BY <1>1, <1>3, LooksBox
  <2>3. pc[p] \in {"probe", "created"} /\ {"probe", "created"} \subseteq Past
    BY DEF Probe, Past, Ensuring
  <2>4. j.seen \notin {0, Empty} => Up /\ box.on >= j.seen
    BY <1>3, TokenNames
  <2>5. ~j.touched => Marked
    BY <2>1, <2>3 DEF Knows
  <2>6. ~j.touched /\ ~j.faulted => Smooth("compare", j)'
    <3>1. ~j.touched /\ ~j.faulted /\ j.fresh => j.seen \in {dir, Empty}
      <4>1. ~j.touched /\ ~j.faulted /\ j.fresh => Current
        BY <1>3, <2>1 DEF Knows, Smooth
      <4>2. ~j.touched /\ Current => Token \in {dir, Empty}
        BY <2>5 DEF Token, Current, Marked
      <4>3. QED
        BY <1>3, <4>1, <4>2
    <3>2. QED
      BY <2>2, <3>1 DEF Smooth
  <2>7. QED
    BY <2>1, <2>2, <2>4, <2>5, <2>6 DEF Knows, Next3, Marked
<1>4. QED
  BY <1>1, <1>2, <1>3

LEMMA CompareBox ==
  ASSUME TypeInv, BoxInv, NEW p \in Proc, Compare(p)
  PROVE  BoxInv'
<1>1. PICK l, j :
         /\ Looks(p, l, j) /\ j.faulted = job[p].faulted /\ j.torn = Torn(p)
         /\ l = IF Healthy(p) THEN job[p].next ELSE IF job[p].fresh THEN "discard" ELSE "drop"
  BY CompareStep
<1>2. /\ Knows("compare", job[p]) /\ j.touched = job[p].touched /\ job[p].next \in Next3
      /\ Current' <=> Current
  BY <1>1, LooksSame DEF Compare, Fits, Ensuring
<1>3. SUFFICES ASSUME dir' = dir, token' = token, box' = box PROVE Knows(l, j)'
  BY <1>1, LooksBox
<1>4. "compare" \in Past
  BY DEF Past, Ensuring
<1>5. ~j.touched => Marked /\ Marked'
  BY <1>2, <1>3, <1>4 DEF Knows, Marked
<1>6. CASE Healthy(p)
  <2>1. l \in Next3
    BY <1>1, <1>2, <1>6
  <2>2. ~j.touched /\ ~j.torn => Current
    <3>1. SUFFICES ASSUME ~j.touched, ~j.torn PROVE Current
      OBVIOUS
    <3>2. job[p].seen = dir /\ dir \notin {0, Empty}
      BY <1>1, <1>5, <1>6, <3>1 DEF Healthy, Torn, Marked
    <3>3. Up /\ box.on >= dir
      BY <1>2, <3>1, <3>2 DEF Knows
    <3>4. box.on \in 1..Len(token) /\ dir = Len(token) /\ Len(token) \in Nat
      BY <3>2, <3>3 DEF Up, Present, TypeInv, BoxOK, HostOK
    <3>5. QED
      BY <3>3, <3>4 DEF Current
  <2>3. Smooth(l, j)'
    BY <2>1 DEF Smooth, Next3
  <2>4. l \notin {"compare", "stamp", "write"}
    BY <2>1 DEF Next3
  <2>5. QED
    BY <1>2, <1>5, <2>2, <2>3, <2>4 DEF Knows
<1>7. CASE ~Healthy(p)
  <2>1. l = IF job[p].fresh THEN "discard" ELSE "drop"
    BY <1>1, <1>7
  <2>2. ~j.touched /\ ~j.faulted /\ l = "discard" => j.torn
    <3>1. SUFFICES ASSUME ~j.touched, ~j.faulted, job[p].fresh PROVE j.torn
      BY <2>1
    <3>2. job[p].seen \in {dir, Empty} /\ dir # 0 /\ token[dir] \in {dir, Empty}
      BY <1>1, <1>2, <1>5, <3>1 DEF Knows, Smooth, Marked
    <3>3. job[p].seen # 0
      BY <3>2 DEF Empty
    <3>4. job[p].seen = Empty \/ token[dir] = Empty
      BY <1>7, <3>2, <3>3 DEF Healthy
    <3>5. QED
      BY <1>1, <3>2, <3>3, <3>4 DEF Torn
  <2>3. ~j.touched /\ ~j.faulted => Smooth(l, j)'
    BY <2>1, <2>2 DEF Smooth
  <2>4. l \notin Next3 \cup {"compare", "stamp", "write"}
    BY <2>1 DEF Next3
  <2>5. QED
    BY <1>5, <2>3, <2>4 DEF Knows
<1>8. QED
  BY <1>6, <1>7

\* A docker command: it is enough that p knows what it did, if nothing failed.
LEMMA DoesBox ==
  ASSUME TypeInv, BoxInv, NEW p \in Proc, NEW can, NEW b, NEW next, NEW check,
         Does(p, can, b, next, check), next \notin Next3 \cup {"compare"},
         next \in Past => pc[p] \in Past,
         \A l, j : /\ dir' = dir /\ ~job[p].touched /\ ~job[p].faulted
                   /\ j.torn = job[p].torn
                   /\ IF can THEN box' = b /\ l = next
                      ELSE box' = box /\ l = IF check THEN "failed" ELSE next
                   => Smooth(l, j)'
  PROVE  BoxInv'
<1>1. PICK l, j : /\ Docker(p, l, j, box' # box, Up /\ ~Up') /\ host' = host
                  /\ j.torn = job[p].torn /\ l \notin {"stamp", "write"}
                  /\ Outcome(p, can, b, next, check, l, j)
  BY DEF Does
<1>2. dir' = dir /\ token' = token
  BY <1>1 DEF host
<1>3. PICK changed, kills : changed = (box' # box) /\ kills = (Up /\ ~Up')
  OBVIOUS
<1>4. Moves(p, l, j, changed, kills) /\ j.touched = job[p].touched
  BY <1>1, <1>3 DEF Docker, Moves, Goes, Keeps
<1>5. Leaves(changed)
  BY <1>2, <1>3 DEF Leaves, Marked
<1>6. Knows(l, j)'
  <2>1. Knows(pc[p], job[p])
    BY DEF BoxInv
  <2>2. l \in {next, "failed"}
    BY <1>1 DEF Outcome
  <2>3. "failed" \notin Past \cup Next3
    BY DEF Past, Ensuring, Next3
  <2>4. ~j.touched => (l \in Past => Marked')
    BY <1>2, <1>4, <2>1, <2>2, <2>3 DEF Knows, Marked
  <2>5. ~j.touched /\ ~j.faulted => Smooth(l, j)'
    <3>1. ~j.faulted => /\ job[p].faulted = j.faulted
                        /\ IF can THEN box' = b /\ l = next
                           ELSE box' = box /\ l = IF check THEN "failed" ELSE next
      BY <1>1 DEF Outcome
    <3>2. QED
      BY <1>1, <1>2, <1>4, <3>1
  <2>6. l \notin Next3 /\ l \notin {"compare", "stamp", "write"}
    BY <1>1, <2>2, <2>3
  <2>7. QED
    BY <2>4, <2>5, <2>6 DEF Knows
<1>7. QED
  BY <1>4, <1>5, <1>6, BoxFrame

LEMMA ReplaceBox ==
  ASSUME TypeInv, BoxInv, NEW p \in Proc, Replace(p)
  PROVE  BoxInv'
<1>1. Knows(pc[p], job[p])
  BY DEF BoxInv
<1> DEFINE Fine == ~job[p].touched /\ ~job[p].faulted
<1>2. Fine => Smooth(pc[p], job[p])
  BY <1>1 DEF Knows
<1>3. pc[p] \in {"evict", "remove", "start", "drop", "dropped", "create", "discard"}
  BY DEF Replace
<1>4. pc[p] \in Past /\ (Fine => dir # 0)
  <2>1. pc[p] \in Past
    BY <1>3 DEF Past, Ensuring
  <2>2. QED
    BY <1>1, <2>1 DEF Knows, Marked
<1>5. PICK up, some, none, fit : /\ up = Present /\ some = (Present /\ ~Up)
                                 /\ none = (~Present /\ dir # 0)
                                 /\ fit = (Present /\ (Up \/ dir # 0))
  OBVIOUS
<1>6. PICK halted, fresh, same : /\ halted = Halted /\ fresh = Fresh
                                 /\ same = IF Up THEN box ELSE Fresh
  OBVIOUS
<1>7. \/ pc[p] = "evict" /\ Does(p, up, halted, "remove", TRUE)
      \/ pc[p] = "remove" /\ Does(p, some, None, "create", TRUE)
      \/ pc[p] = "start" /\ Does(p, fit, same, "probe", TRUE)
      \/ pc[p] = "drop" /\ Does(p, up, halted, "dropped", FALSE)
      \/ pc[p] = "dropped" /\ Does(p, some, None, "create", FALSE)
      \/ pc[p] = "create" /\ Does(p, none, fresh, "created", TRUE)
      \/ pc[p] = "discard" /\ Does(p, up, None, "failed", FALSE)
  BY <1>5, <1>6, ReplaceStep
<1>8. /\ up => halted # None /\ halted.on = box.on /\ ~halted.up
      /\ dir # 0 => fresh # None /\ fresh.on = dir /\ fresh.up
  BY <1>5, <1>6, BoxType
<1>9. ASSUME pc[p] \in {"evict", "remove"} PROVE ~Fine
  BY <1>2, <1>9 DEF Smooth
<1>10. CASE pc[p] = "evict" /\ Does(p, up, halted, "remove", TRUE)
  BY <1>4, <1>9, <1>10, DoesBox DEF Next3
<1>11. CASE pc[p] = "remove" /\ Does(p, some, None, "create", TRUE)
  BY <1>4, <1>9, <1>11, DoesBox DEF Next3
<1>12. CASE pc[p] = "start" /\ Does(p, fit, same, "probe", TRUE)
  <2>1. Fine => fit
    BY <1>2, <1>4, <1>5, <1>12 DEF Smooth
  <2>2. Fine /\ box' = same => Present' /\ Up'
    BY <1>4, <1>6, <1>8 DEF Present, Up
  <2>3. \A l, j : /\ dir' = dir /\ ~job[p].touched /\ ~job[p].faulted
                  /\ j.torn = job[p].torn
                  /\ IF fit THEN box' = same /\ l = "probe"
                     ELSE box' = box /\ l = IF TRUE THEN "failed" ELSE "probe"
                  => Smooth(l, j)'
    BY <2>1, <2>2 DEF Smooth
  <2>4. QED
    BY <1>4, <1>12, <2>3, DoesBox DEF Next3
<1>13. CASE pc[p] = "drop" /\ Does(p, up, halted, "dropped", FALSE)
  <2>1. /\ up /\ box' = halted => ~Up'
        /\ ~up /\ box' = box => ~Up'
    BY <1>5, <1>8 DEF Present, Up
  <2>2. \A l, j : /\ dir' = dir /\ ~job[p].touched /\ ~job[p].faulted
                  /\ j.torn = job[p].torn
                  /\ IF up THEN box' = halted /\ l = "dropped"
                     ELSE box' = box /\ l = IF FALSE THEN "failed" ELSE "dropped"
                  => Smooth(l, j)'
    BY <2>1 DEF Smooth
  <2>3. QED
    BY <1>4, <1>13, <2>2, DoesBox DEF Next3
<1>14. CASE pc[p] = "dropped" /\ Does(p, some, None, "create", FALSE)
  <2>1. Fine => ~Up
    BY <1>2, <1>14 DEF Smooth
  <2>2. /\ box' = None => ~Present'
        /\ Fine /\ ~some /\ box' = box => ~Present'
    BY <1>5, <2>1 DEF Present
  <2>3. \A l, j : /\ dir' = dir /\ ~job[p].touched /\ ~job[p].faulted
                  /\ j.torn = job[p].torn
                  /\ IF some THEN box' = None /\ l = "create"
                     ELSE box' = box /\ l = IF FALSE THEN "failed" ELSE "create"
                  => Smooth(l, j)'
    BY <2>2 DEF Smooth
  <2>4. QED
    BY <1>4, <1>14, <2>3, DoesBox DEF Next3
<1>15. CASE pc[p] = "create" /\ Does(p, none, fresh, "created", TRUE)
  <2>1. Fine => none
    BY <1>2, <1>4, <1>5, <1>15 DEF Smooth
  <2>2. Fine /\ box' = fresh /\ dir' = dir => Present' /\ Up' /\ Current'
    BY <1>4, <1>8 DEF Present, Up, Current
  <2>3. \A l, j : /\ dir' = dir /\ ~job[p].touched /\ ~job[p].faulted
                  /\ j.torn = job[p].torn
                  /\ IF none THEN box' = fresh /\ l = "created"
                     ELSE box' = box /\ l = IF TRUE THEN "failed" ELSE "created"
                  => Smooth(l, j)'
    BY <2>1, <2>2 DEF Smooth
  <2>4. QED
    BY <1>4, <1>15, <2>3, DoesBox DEF Next3
<1>16. CASE pc[p] = "discard" /\ Does(p, up, None, "failed", FALSE)
  <2>1. Fine => job[p].torn
    BY <1>2, <1>16 DEF Smooth
  <2>2. \A l, j : /\ dir' = dir /\ ~job[p].touched /\ ~job[p].faulted
                  /\ j.torn = job[p].torn
                  /\ IF up THEN box' = None /\ l = "failed"
                     ELSE box' = box /\ l = IF FALSE THEN "failed" ELSE "failed"
                  => Smooth(l, j)'
    BY <2>1 DEF Smooth
  <2>3. QED
    BY <1>4, <1>16, <2>2, DoesBox DEF Next3
<1>17. QED
  BY <1>7, <1>10, <1>11, <1>12, <1>13, <1>14, <1>15, <1>16

LEMMA StopBox ==
  ASSUME TypeInv, BoxInv, NEW p \in Proc, StopRunning(p)
  PROVE  BoxInv'
<1>1. Knows(pc[p], job[p])
  BY DEF BoxInv
<1> DEFINE Fine == ~job[p].touched /\ ~job[p].faulted
<1>2. Fine => Smooth(pc[p], job[p])
  BY <1>1 DEF Knows
<1>3. CASE pc[p] \in {"stopping", "look"}
  <2>1. PICK l, j :
          /\ Looks(p, l, j)
          /\ \/ Broken(p, l, j)
             \/ \E s \in State :
                  /\ l = After(pc[p], job[p].op, s)
                  /\ s = Status => j.faulted = job[p].faulted
                  /\ s # Status => j.faulted
    BY <1>3, StateStep
  <2>2. CASE Broken(p, l, j)
    BY <2>1, <2>2, BrokenBox
  <2>3. CASE \E s \in State :
               /\ l = After(pc[p], job[p].op, s)
               /\ s = Status => j.faulted = job[p].faulted
               /\ s # Status => j.faulted
    <3>1. PICK s \in State :
               /\ l = After(pc[p], job[p].op, s)
               /\ s = Status => j.faulted = job[p].faulted
               /\ s # Status => j.faulted
      BY <2>3
    <3>2. j.touched = job[p].touched /\ (Present' <=> Present) /\ (Up' <=> Up)
      BY <2>1, LooksSame
    <3>3. SUFFICES ASSUME dir' = dir, token' = token, box' = box PROVE Knows(l, j)'
      BY <2>1, LooksBox
    <3>4. l \notin Past \cup {"compare", "stamp", "write"} \cup Next3
      BY <3>1 DEF After, Past, Ensuring, Next3
    <3>5. (Status = "absent") = ~Present /\ (Status = "running") = Up /\ (Up => Present)
      BY DEF Status, Up
    <3>6. ASSUME ~j.touched, ~j.faulted PROVE Smooth(l, j)'
      <4>1. s = Status /\ Fine
        BY <3>1, <3>2, <3>6
      <4>2. CASE pc[p] = "stopping"
        <5>1. l \in {"halt", "idle", "look"} /\ (l = "halt" => s = "running")
              /\ (l = "look" => s # "running")
          BY <3>1, <4>2 DEF After
        <5>2. QED
          BY <3>2, <3>5, <4>1, <5>1 DEF Smooth
      <4>3. CASE pc[p] = "look"
        <5>1. l \in {"erase", "rmtree", "idle"} /\ (l = "erase" => s # "absent")
          BY <3>1, <4>3 DEF After
        <5>2. ~Up
          BY <1>2, <4>1, <4>3 DEF Smooth
        <5>3. QED
          BY <3>2, <3>5, <4>1, <5>1, <5>2 DEF Smooth
      <4>4. QED
        BY <1>3, <4>2, <4>3
    <3>7. QED
      BY <3>4, <3>6 DEF Knows
  <2>4. QED
    BY <2>1, <2>2, <2>3
<1>4. CASE pc[p] \in {"halt", "erase"}
  <2>1. PICK up, some : up = Present /\ some = (Present /\ ~Up)
    OBVIOUS
  <2>2. PICK halted, next, last : /\ halted = Halted
                                  /\ next = IF job[p].op = "stop" THEN "idle" ELSE "look"
                                  /\ last = IF job[p].op = "reset" THEN "rmtree" ELSE "idle"
    OBVIOUS
  <2>3. \/ pc[p] = "halt" /\ Does(p, up, halted, next, TRUE)
        \/ pc[p] = "erase" /\ Does(p, some, None, last, TRUE)
    BY <1>4, <2>1, <2>2, HaltStep
  <2>4. /\ next \in {"idle", "look"} /\ last \in {"rmtree", "idle"}
        /\ next \notin Next3 \cup {"compare"} \cup Past
        /\ last \notin Next3 \cup {"compare"} \cup Past
    BY <2>2 DEF Next3, Past, Ensuring
  <2>5. up /\ box' = halted => ~Up'
    BY <2>1, <2>2, BoxType DEF Present, Up
  <2>6. CASE pc[p] = "halt" /\ Does(p, up, halted, next, TRUE)
    <3>1. Fine => up
      BY <1>2, <2>1, <2>6 DEF Smooth
    <3>2. \A l, j : /\ dir' = dir /\ ~job[p].touched /\ ~job[p].faulted
                    /\ j.torn = job[p].torn
                    /\ IF up THEN box' = halted /\ l = next
                       ELSE box' = box /\ l = IF TRUE THEN "failed" ELSE next
                    => Smooth(l, j)'
      BY <2>4, <2>5, <3>1 DEF Smooth
    <3>3. QED
      BY <2>4, <2>6, <3>2, DoesBox
  <2>7. CASE pc[p] = "erase" /\ Does(p, some, None, last, TRUE)
    <3>1. Fine => some
      BY <1>2, <2>1, <2>7 DEF Smooth
    <3>2. \A l, j : /\ dir' = dir /\ ~job[p].touched /\ ~job[p].faulted
                    /\ j.torn = job[p].torn
                    /\ IF some THEN box' = None /\ l = last
                       ELSE box' = box /\ l = IF TRUE THEN "failed" ELSE last
                    => Smooth(l, j)'
      BY <2>4, <3>1 DEF Smooth
    <3>3. QED
      BY <2>4, <2>7, <3>2, DoesBox
  <2>8. QED
    BY <2>3, <2>6, <2>7
<1>5. QED
  BY <1>3, <1>4 DEF StopRunning

\* The steps of commands and runs leave the container alone.
LEMMA CommandBox ==
  ASSUME TypeInv, BoxInv, NEW p \in Proc,
         \/ Begin(p) \/ Return(p) \/ Implement(p) \/ Judge(p)
         \/ Exec(p) \/ Ends(p) \/ Collect(p)
  PROVE  BoxInv'
<1> DEFINE Off == {"idle", "dirs", "implement", "stopping", "running", "collect", "judge"}
<1>1. \A l \in Off \cup {"failed"} : l \notin Near
  BY DEF Past, Ensuring, Next3, Near
<1>2. ASSUME NEW l \in Off \cup {"failed"}, NEW j, Moves(p, l, j, FALSE, FALSE),
             UNCHANGED <<host, box>>, l = "failed" => j.faulted
      PROVE  BoxInv'
  BY <1>1, <1>2, AwayBox
<1>3. CASE Begin(p)
  BY <1>2, <1>3, BeginStep DEF Begins
<1>4. CASE Return(p) \/ Judge(p)
  <2>1. Forgets(p) /\ UNCHANGED <<host, box>>
    BY <1>4, ForgetStep DEF Return, Judge
  <2>2. PICK j : j = Blank
    OBVIOUS
  <2>3. Moves(p, "idle", j, FALSE, FALSE)
    BY <2>1, <2>2 DEF Forgets, Moves
  <2>4. QED
    BY <1>2, <2>1, <2>3
<1>5. CASE Implement(p)
  BY <1>2, <1>5, ImplementStep DEF Implements
<1>6. CASE Exec(p)
  BY <1>2, <1>6, ExecStep DEF Execs
<1>7. CASE Ends(p)
  BY <1>2, <1>7, EndsStep DEF EndsWith
<1>8. CASE Collect(p)
  BY <1>2, <1>8, CollectStep DEF Collects
<1>9. QED
  BY <1>3, <1>4, <1>5, <1>6, <1>7, <1>8

LEMMA PrepareBox ==
  ASSUME TypeInv, BoxInv, NEW p \in Proc, Prepare(p)
  PROVE  BoxInv'
<1>1. PICK j : Prepares(p, j)
  BY PrepareStep
<1>2. /\ Moves(p, "dirs", j, FALSE, FALSE) /\ box' = box
      /\ dir # 0 => dir' = dir /\ token' = token
  BY <1>1 DEF Prepares, host
<1>3. Leaves(FALSE)
  BY <1>2 DEF Leaves, Marked
<1>4. "dirs" \notin Near
  BY DEF Past, Next3, Near
<1>5. Knows("dirs", j)'
  BY <1>4, AwayKnows
<1>6. QED
  BY <1>2, <1>3, <1>5, BoxFrame

LEMMA RmtreeBox ==
  ASSUME TypeInv, BoxInv, NEW p \in Proc, Rmtree(p)
  PROVE  BoxInv'
<1>1. Empties(p)
  BY RmtreeStep
<1>2. PICK j, changed : j = Blank /\ changed = (dir # 0)
  OBVIOUS
<1>3. Moves(p, "idle", j, changed, FALSE) /\ box' = box
  BY <1>1, <1>2 DEF Empties, Moves
<1>4. Leaves(changed)
  BY <1>2, <1>3 DEF Leaves
<1>5. "idle" \notin Near
  BY DEF Past, Ensuring, Next3, Near
<1>6. Knows("idle", j)'
  BY <1>5, AwayKnows
<1>7. QED
  BY <1>3, <1>4, <1>6, BoxFrame

LEMMA WorldBox ==
  ASSUME TypeInv, BoxInv, Dies \/ Archive
  PROVE  BoxInv'
<1>1. PICK kills \in BOOLEAN : Everyone(kills) /\ pc' = pc
  BY DEF Dies, Archive
<1>2. \A q \in Proc : pc'[q] = pc[q] /\ Noticed(q, TRUE, kills)
  BY <1>1, EveryoneStep
<1>3. Leaves(TRUE)
  BY DEF Leaves
<1>4. ASSUME NEW q \in Proc PROVE Knows(pc[q], job[q])'
  BY <1>2, <1>3, NoticedKnows
<1>5. QED
  BY <1>4 DEF BoxInv

LEMMA BoxInvInductive ==
  ASSUME TypeInv, BoxInv, [ExperimentNext]_vars
  PROVE  BoxInv'
<1>1. ASSUME NEW p \in Proc, EnsureRunning(p) PROVE BoxInv'
  <2>1. CASE DirsFail(p)
    BY <2>1, DirsFailStep, BrokenBox
  <2>2. QED
    BY <1>1, <2>1, DirsBox, StampBox, WriteBox, InspectBox, MountBox, ProbeBox, CompareBox,
       ReplaceBox DEF EnsureRunning
<1>2. ASSUME NEW p \in Proc, Step(p) PROVE BoxInv'
  BY <1>1, <1>2, StopBox, CommandBox, PrepareBox, RmtreeBox DEF Step
<1>3. CASE Dies \/ Archive
  BY <1>3, WorldBox
<1>4. CASE UNCHANGED vars
  <2>1. UNCHANGED <<dir, token, box, pc, job>>
    BY <1>4 DEF vars, host
  <2>2. QED
    BY <2>1 DEF BoxInv, Knows, Marked, Smooth, Current, Present, Up, Status
<1>5. QED
  BY <1>2, <1>3, <1>4 DEF ExperimentNext

LEMMA BoxInvAlways == ExperimentSpec => [](TypeInv /\ BoxInv)
<1>1. ExperimentInit => BoxInv
  <2> SUFFICES ASSUME ExperimentInit PROVE BoxInv
    OBVIOUS
  <2>1. \A p \in Proc : pc[p] = "idle"
    BY DEF ExperimentInit
  <2>2. "idle" \notin Past \cup Next3
    BY DEF Past, Ensuring, Next3
  <2>3. QED
    BY <2>1, <2>2 DEF BoxInv, Knows, Smooth
<1>2. TypeInv /\ BoxInv /\ [ExperimentNext]_vars => TypeInv' /\ BoxInv'
  BY TypeInvInductive, BoxInvInductive
<1>3. QED
  BY <1>1, <1>2, InitTypeInv, PTL DEF ExperimentSpec

\* However many commands use the container and whatever docker fails at: a process whose
\* ensure_running has returned, and which nobody has disturbed since it began, has a
\* container that runs on the directory at the path, unless it compared tokens of a
\* sentinel that was being rewritten.
THEOREM EnsuredCurrent == ExperimentSpec => []EnsuredIsCurrent
<1>1. BoxInv => EnsuredIsCurrent
  <2>1. {"returned", "prepare", "exec"} = Next3 /\ Next3 \subseteq Past
    BY DEF Next3, Past
  <2>2. QED
    BY <2>1 DEF BoxInv, Knows, Current, EnsuredIsCurrent
<1>2. QED
  BY <1>1, BoxInvAlways, PTL

\* A command fails only when docker failed, somebody else changed the container or the
\* directory meanwhile, or it has read a sentinel that somebody else was rewriting.
THEOREM UndisturbedGoesThrough == ExperimentSpec => []UndisturbedSucceeds
<1>1. BoxInv => UndisturbedSucceeds
  BY DEF BoxInv, Knows, Smooth, UndisturbedSucceeds
<1>2. QED
  BY <1>1, BoxInvAlways, PTL

-----------------------------------------------------------------------------
(***************************************************************************)
(* No process takes the container from another                             *)
(***************************************************************************)
\* Nobody asks to stop the container, docker works, the directory stays, and nobody has
\* read a sentinel that was being rewritten.
Calm == ~asked /\ faults = 0 /\ moves = 0 /\ ~misread

\* There is one directory, and a container is on it.
OneHome ==
  /\ \/ dir = 1
     \/ dir = 0 /\ Len(token) = 0
  /\ Present => dir = 1 /\ box.on = 1

\* Where a process is then, and what it knows of the container.
Mild(l, j) ==
  /\ ~j.killed
  /\ l \notin {"evict", "remove", "drop", "dropped", "discard"}
  /\ l \in Past \cup {"stamp"} => dir = 1
  /\ l \in Past => token[1] # 0
  /\ l \in {"mount", "start"} => Present
  /\ l = "mount" /\ j.state = "running" => Up
  /\ l \in {"probe", "created"} => Up
  /\ l = "compare" => Up /\ j.seen \in {1, Empty}

CalmInv == Calm => OneHome /\ \A p \in Proc : Mild(pc[p], job[p])

\* A container that is there or runs goes on so, and the directory stays.
Lets ==
  /\ Present => Present'
  /\ Up => Up'
  /\ dir = 1 => dir' = 1 /\ (token[1] # 0 => token'[1] # 0)

LEMMA NoticedMild ==
  ASSUME NEW q \in Proc, NEW changed, NEW kills, Noticed(q, changed, kills), ~kills,
         pc'[q] = pc[q], Mild(pc[q], job[q]), Lets
  PROVE  Mild(pc[q], job[q])'
<1>1. CASE pc[q] = "idle" /\ job'[q] = Blank
  <2>1. ~Blank.killed /\ "idle" \notin Past \cup {"stamp"}
    BY DEF Blank, Past, Ensuring, Next3
  <2>2. QED
    BY <1>1, <2>1 DEF Mild
<1>2. CASE /\ job'[q].state = job[q].state /\ job'[q].seen = job[q].seen
           /\ job'[q].killed = (job[q].killed \/ (kills /\ pc[q] = "running"))
  <2>1. ~job'[q].killed /\ (Present => Present') /\ (Up => Up')
    BY <1>2 DEF Mild, Lets
  <2>2. pc[q] \in Past \cup {"stamp"} => dir' = 1
    BY DEF Mild, Lets
  <2>3. pc[q] \in Past => token'[1] # 0
    BY DEF Mild, Lets
  <2>4. QED
    BY <1>2, <2>1, <2>2, <2>3 DEF Mild
<1>3. QED
  BY <1>1, <1>2 DEF Noticed

\* It is enough to look at the process that moved.
LEMMA CalmFrame ==
  ASSUME NEW p, NEW l, NEW j, NEW changed, NEW kills,
         Moves(p, l, j, changed, kills), ~kills, Lets, OneHome',
         \A q \in Proc : Mild(pc[q], job[q]), Mild(l, j)'
  PROVE  CalmInv'
<1>1. pc'[p] = l /\ job'[p] = j
  BY DEF Moves
<1>2. Mild(pc[p], job[p])'
  BY <1>1 DEF Mild
<1>3. ASSUME NEW q \in Proc \ {p} PROVE Mild(pc[q], job[q])'
  <2>1. pc'[q] = pc[q] /\ Noticed(q, changed, kills)
    BY DEF Moves
  <2>2. QED
    BY <2>1, NoticedMild
<1>4. QED
  BY <1>2, <1>3 DEF CalmInv

\* What was calm before a step that is calm.
LEMMA CalmBefore ==
  ASSUME TypeInv, Calm', faults <= faults', moves <= moves', asked => asked',
         misread => misread'
  PROVE  Calm
BY DEF TypeInv, CountsOK, Calm

LEMMA DockerCalm ==
  ASSUME TypeInv, CalmInv, NEW p, NEW l, NEW j, NEW changed, NEW kills,
         Docker(p, l, j, changed, kills), Calm'
  PROVE  /\ Calm /\ OneHome /\ (\A q \in Proc : Mild(pc[q], job[q])) /\ faults' = faults
         /\ p \in Proc /\ Mild(pc[p], job[p]) /\ ~j.killed
<1>1. /\ faults <= faults' /\ moves' = moves /\ asked' = asked /\ misread' \in {misread, TRUE}
      /\ p \in Proc /\ j.killed = job[p].killed
  BY DEF Docker, Tallied, Moves, Goes, Keeps
<1>2. moves <= moves' /\ misread \in BOOLEAN
  BY <1>1 DEF TypeInv, CountsOK
<1>3. Calm
  BY <1>1, <1>2, CalmBefore
<1>4. OneHome /\ \A q \in Proc : Mild(pc[q], job[q])
  BY <1>3 DEF CalmInv
<1>5. faults' = faults
  BY <1>3 DEF Calm
<1>6. Mild(pc[p], job[p])
  BY <1>1, <1>4
<1>7. ~j.killed
  BY <1>1, <1>6 DEF Mild
<1>8. QED
  BY <1>1, <1>3, <1>4, <1>5, <1>6, <1>7

LEMMA LooksCalm ==
  ASSUME TypeInv, CalmInv, NEW p, NEW l, NEW j, Looks(p, l, j), Calm',
         Calm /\ OneHome /\ Mild(pc[p], job[p]) /\ faults' = faults
           /\ ~j.killed /\ dir' = dir /\ token' = token /\ box' = box => Mild(l, j)'
  PROVE  CalmInv'
<1>1. /\ dir' = dir /\ token' = token /\ box' = box
      /\ Docker(p, l, j, FALSE, FALSE) /\ Moves(p, l, j, FALSE, FALSE)
  BY DEF Looks, Docker, host
<1>2. /\ Calm /\ OneHome /\ (\A q \in Proc : Mild(pc[q], job[q])) /\ faults' = faults
      /\ Mild(pc[p], job[p]) /\ ~j.killed
  BY <1>1, DockerCalm
<1>3. Lets /\ OneHome'
  BY <1>1, <1>2 DEF Lets, OneHome, Present, Up
<1>4. Mild(l, j)'
  BY <1>1, <1>2
<1>5. QED
  BY <1>1, <1>2, <1>3, <1>4, CalmFrame

\* A process that works at the sentinel leaves the container alone.
LEMMA MarksCalm ==
  ASSUME TypeInv, CalmInv, NEW p, NEW l, NEW j, NEW changed, Marks(p, l, j, changed), Calm',
         dir' = 1, dir = 1 /\ token[1] # 0 => token'[1] # 0, Mild(l, j)'
  PROVE  CalmInv'
<1>1. Docker(p, l, j, changed, FALSE) /\ Moves(p, l, j, changed, FALSE) /\ box' = box
  BY DEF Marks, Docker
<1>2. OneHome /\ (\A q \in Proc : Mild(pc[q], job[q]))
  BY <1>1, DockerCalm
<1>3. Lets /\ OneHome'
  BY <1>1, <1>2 DEF Lets, OneHome, Present, Up
<1>4. QED
  BY <1>1, <1>2, <1>3, CalmFrame

\* Stopping and faults are not calm.
LEMMA BrokenCalm ==
  ASSUME TypeInv, NEW p, NEW l, NEW j, Looks(p, l, j), faults' = faults + 1
  PROVE  ~Calm'
BY DEF TypeInv, CountsOK, Calm

LEMMA StopCalm ==
  ASSUME TypeInv, NEW p \in Proc, pc[p] \in Stopping, UNCHANGED counts
  PROVE  ~Calm'
BY DEF TypeInv, Fits, Calm, counts

LEMMA DirsCalm ==
  ASSUME TypeInv, CalmInv, NEW p \in Proc, Dirs(p), Calm'
  PROVE  CalmInv'
<1>1. PICK j : /\ Marks(p, "stamp", j, dir' # dir) /\ dir' = Len(token')
               /\ dir # 0 => dir' = dir /\ token' = token
               /\ dir = 0 => Len(token') = Len(token) + 1
  BY DirsStep
<1>2. PICK changed : changed = (dir' # dir)
  OBVIOUS
<1>3. Marks(p, "stamp", j, changed)
  BY <1>1, <1>2
<1>4. Docker(p, "stamp", j, changed, FALSE)
  BY <1>3 DEF Marks
<1>5. OneHome /\ ~j.killed
  BY <1>4, DockerCalm
<1>6. dir' = 1 /\ (dir = 1 => token' = token)
  BY <1>1, <1>5 DEF OneHome
<1>7. "stamp" \notin Past
  BY DEF Past, Ensuring, Next3
<1>8. Mild("stamp", j)'
  BY <1>5, <1>6, <1>7 DEF Mild
<1>9. QED
  BY <1>3, <1>6, <1>8, MarksCalm

LEMMA StampCalm ==
  ASSUME TypeInv, CalmInv, NEW p \in Proc, Stamp(p), Calm'
  PROVE  CalmInv'
<1>1. PICK l, j : /\ Marks(p, l, j, FALSE) /\ dir' = dir
                  /\ \/ l = "failed" /\ dir = 0
                     \/ l = "write" /\ token' = [token EXCEPT ![dir] = Empty]
  BY StampStep
<1>2. Docker(p, l, j, FALSE, FALSE)
  BY <1>1 DEF Marks
<1>3. Mild("stamp", job[p]) /\ ~j.killed
  BY <1>2, DockerCalm DEF Stamp
<1>4. dir = 1
  BY <1>3 DEF Mild
<1>5. token \in Seq(Int) /\ 1 \in 1..Len(token)
  BY <1>4 DEF TypeInv, HostOK
<1>6. l = "write" /\ token'[1] = Empty
  BY <1>1, <1>4, <1>5
<1>7. token'[1] # 0 /\ dir' = 1 /\ Marks(p, "write", j, FALSE)
  <2>1. token'[1] # 0
    BY <1>6 DEF Empty
  <2>2. dir' = 1
    BY <1>1, <1>4
  <2>3. Marks(p, "write", j, FALSE)
    BY <1>1, <1>6
  <2>4. QED
    BY <2>1, <2>2, <2>3
<1>8. Mild("write", j)'
  BY <1>3, <1>7 DEF Mild
<1>9. QED
  BY <1>7, <1>8, MarksCalm

LEMMA WriteCalm ==
  ASSUME TypeInv, CalmInv, NEW p \in Proc, Write(p), Calm'
  PROVE  CalmInv'
<1>1. PICK j : /\ Marks(p, "inspect", j, Rewrites(p)) /\ dir' = dir
               /\ token' = IF token[job[p].file] # 0
                           THEN [token EXCEPT ![job[p].file] = job[p].inode] ELSE token
  BY WriteStep
<1>2. PICK changed : changed = Rewrites(p)
  OBVIOUS
<1>3. Marks(p, "inspect", j, changed)
  BY <1>1, <1>2
<1>4. Docker(p, "inspect", j, changed, FALSE)
  BY <1>3 DEF Marks
<1>5. Mild("write", job[p]) /\ ~j.killed
  BY <1>4, DockerCalm DEF Write, Stamped
<1>6. "write" \in Past
  BY DEF Past, Ensuring
<1>7. dir = 1 /\ token[1] # 0
  BY <1>5, <1>6 DEF Mild
<1>8. token \in Seq(Int) /\ Len(token) = 1
  BY <1>7 DEF TypeInv, HostOK
<1>9. job[p].file = 1 /\ job[p].inode = 1
  <2>1. Fits("write", job[p])
    BY DEF TypeInv, Write, Stamped
  <2>2. job[p].file \in 1..Len(token) /\ job[p].inode \in 1..Len(token)
    BY <2>1 DEF Fits, Marking
  <2>3. QED
    BY <1>8, <2>2
<1>10. token'[1] = 1
  BY <1>1, <1>7, <1>8, <1>9
<1>11. Mild("inspect", j)'
  BY <1>1, <1>5, <1>7, <1>10 DEF Mild
<1>12. QED
  BY <1>1, <1>3, <1>7, <1>10, <1>11, MarksCalm

LEMMA InspectCalm ==
  ASSUME TypeInv, CalmInv, NEW p \in Proc, Inspect(p), Calm'
  PROVE  CalmInv'
<1>1. PICK l, j :
         /\ Looks(p, l, j)
         /\ \/ Broken(p, l, j)
            \/ /\ l = IF j.state = "absent" THEN "create" ELSE "mount"
               /\ j.state # Status => faults' = faults + 1
  BY InspectStep
<1>2. faults' # faults + 1
  BY <1>1, BrokenCalm
<1>3. j.state = Status /\ l = IF j.state = "absent" THEN "create" ELSE "mount"
  BY <1>1, <1>2 DEF Broken
<1>4. SUFFICES ASSUME OneHome, Mild("inspect", job[p]), ~j.killed, dir' = dir, box' = box,
                      token' = token
               PROVE  Mild(l, j)'
  BY <1>1, LooksCalm DEF Inspect
<1>5. "inspect" \in Past
  BY DEF Past, Ensuring
<1>6. dir' = 1 /\ token'[1] # 0 /\ (Present' <=> Present) /\ (Up' <=> Up)
  BY <1>4, <1>5 DEF Mild, Present, Up
<1>7. (Status = "absent") = ~Present /\ (Status = "running") = Up
  BY DEF Status, Up
<1>8. QED
  BY <1>3, <1>4, <1>6, <1>7 DEF Mild

LEMMA MountCalm ==
  ASSUME TypeInv, CalmInv, NEW p \in Proc, Mount(p), Calm'
  PROVE  CalmInv'
<1>1. PICK l, j :
         /\ Looks(p, l, j)
         /\ \/ Broken(p, l, j)
            \/ /\ Present
               /\ l = IF job[p].state = "running" THEN "probe" ELSE "start"
            \/ ~Present \/ faults' = faults + 1
  BY MountStep
<1>2. faults' # faults + 1
  BY <1>1, BrokenCalm
<1>3. \/ Present /\ l = IF job[p].state = "running" THEN "probe" ELSE "start"
      \/ ~Present
  BY <1>1, <1>2 DEF Broken
<1>4. SUFFICES ASSUME OneHome, Mild("mount", job[p]), ~j.killed, dir' = dir, box' = box,
                      token' = token
               PROVE  Mild(l, j)'
  BY <1>1, LooksCalm DEF Mount
<1>5. "mount" \in Past
  BY DEF Past, Ensuring
<1>6. dir' = 1 /\ token'[1] # 0 /\ (Present' <=> Present) /\ (Up' <=> Up)
  BY <1>4, <1>5 DEF Mild, Present, Up
<1>7. QED
  BY <1>3, <1>4, <1>6 DEF Mild

LEMMA ProbeCalm ==
  ASSUME TypeInv, CalmInv, NEW p \in Proc, Probe(p), Calm'
  PROVE  CalmInv'
<1>1. PICK l, j :
         /\ Looks(p, l, j)
         /\ \/ Broken(p, l, j)
            \/ l = "compare" /\ (j.seen = Token \/ faults' = faults + 1)
  BY ProbeStep
<1>2. faults' # faults + 1
  BY <1>1, BrokenCalm
<1>3. l = "compare" /\ j.seen = Token
  BY <1>1, <1>2 DEF Broken
<1>4. SUFFICES ASSUME OneHome, Mild(pc[p], job[p]), ~j.killed, dir' = dir, box' = box,
                      token' = token
               PROVE  Mild(l, j)'
  BY <1>1, LooksCalm
<1>5. pc[p] \in {"probe", "created"} /\ pc[p] \in Past
  BY DEF Probe, Past, Ensuring
<1>6. dir' = 1 /\ token'[1] # 0 /\ Up /\ (Up' <=> Up)
  BY <1>4, <1>5 DEF Mild, Present, Up
<1>7. Token \in {1, Empty}
  <2>1. Token = token[1] /\ token[1] # 0
    BY <1>4, <1>6 DEF Token, OneHome, Up
  <2>2. 1 \in 1..Len(token) /\ \A d \in 1..Len(token) : token[d] \in {Empty} \cup 0..d
    BY <1>4, <1>6 DEF TypeInv, HostOK
  <2>3. token[1] \in {Empty} \cup 0..1
    BY <2>2
  <2>4. QED
    BY <2>1, <2>3
<1>8. QED
  BY <1>3, <1>4, <1>6, <1>7 DEF Mild

LEMMA CompareCalm ==
  ASSUME TypeInv, CalmInv, NEW p \in Proc, Compare(p), Calm'
  PROVE  CalmInv'
<1>1. PICK l, j :
         /\ Looks(p, l, j) /\ misread' = (misread \/ Torn(p))
         /\ l = IF Healthy(p) THEN job[p].next ELSE IF job[p].fresh THEN "discard" ELSE "drop"
  BY CompareStep
<1>2. pc[p] = "compare" /\ job[p].next \in Next3
  BY DEF Compare, TypeInv, Fits, Ensuring
<1>3. SUFFICES ASSUME OneHome, Mild("compare", job[p]), ~j.killed, dir' = dir, box' = box,
                      token' = token
               PROVE  Mild(l, j)'
  BY <1>1, <1>2, LooksCalm
<1>4. "compare" \in Past
  BY DEF Past, Ensuring
<1>5. dir = 1 /\ job[p].seen \in {1, Empty} /\ token[1] # 0
  BY <1>3, <1>4 DEF Mild
<1>6. Healthy(p)
  <2>1. ~Torn(p)
    BY <1>1 DEF Calm
  <2>2. job[p].seen = 1 /\ token[1] # Empty
    BY <1>5, <2>1 DEF Torn, Empty
  <2>3. 1 \in 1..Len(token) /\ \A d \in 1..Len(token) : token[d] \in {Empty} \cup 0..d
    BY <1>5 DEF TypeInv, HostOK
  <2>4. token[1] \in {Empty} \cup 0..1
    BY <2>3
  <2>5. QED
    BY <1>5, <2>2, <2>4 DEF Healthy
<1>7. l \in Next3
  BY <1>1, <1>2, <1>6
<1>8. QED
  BY <1>3, <1>5, <1>7 DEF Mild, Next3

LEMMA ReplaceCalm ==
  ASSUME TypeInv, CalmInv, NEW p \in Proc, Replace(p), Calm'
  PROVE  CalmInv'
<1>1. PICK none, fit : none = (~Present /\ dir # 0) /\ fit = (Present /\ (Up \/ dir # 0))
  OBVIOUS
<1>2. PICK fresh, same : fresh = Fresh /\ same = IF Up THEN box ELSE Fresh
  OBVIOUS
<1>3. \/ pc[p] \in {"evict", "remove", "drop", "dropped", "discard"}
      \/ pc[p] = "start" /\ Does(p, fit, same, "probe", TRUE)
      \/ pc[p] = "create" /\ Does(p, none, fresh, "created", TRUE)
  BY <1>1, <1>2, ReplaceStep
<1>4. ASSUME NEW can, NEW b, NEW next, Does(p, can, b, next, TRUE),
             next \in {"probe", "created"}, pc[p] \in {"start", "create"},
             OneHome /\ dir = 1 /\ (pc[p] = "start" => Present) /\ box' = b /\ can
               => Up' /\ box'.on = 1 /\ (Up => box' = box),
             pc[p] \in {"evict", "remove", "drop", "dropped", "discard"} => FALSE
      PROVE  CalmInv'
  <2>1. PICK l, j : /\ Docker(p, l, j, box' # box, Up /\ ~Up') /\ host' = host
                    /\ Outcome(p, can, b, next, TRUE, l, j)
    BY <1>4 DEF Does
  <2>2. dir' = dir /\ token' = token
    BY <2>1 DEF host
  <2>3. PICK changed, kills : changed = (box' # box) /\ kills = (Up /\ ~Up')
    OBVIOUS
  <2>4. /\ OneHome /\ (\A q \in Proc : Mild(pc[q], job[q])) /\ faults' # faults + 1
        /\ Mild(pc[p], job[p]) /\ ~j.killed /\ Moves(p, l, j, changed, kills)
    <3>1. Docker(p, l, j, changed, kills)
      BY <2>1, <2>3
    <3>2. Moves(p, l, j, changed, kills)
      BY <3>1 DEF Docker
    <3>3. faults' = faults /\ faults \in Nat
      BY <3>1, DockerCalm DEF TypeInv, CountsOK
    <3>4. QED
      BY <3>1, <3>2, <3>3, DockerCalm
  <2>5. dir = 1 /\ token[1] # 0 /\ (pc[p] = "start" => Present)
    <3>1. pc[p] \in Past
      BY <1>4 DEF Past, Ensuring
    <3>2. QED
      BY <2>4, <3>1 DEF Mild
  <2>6. IF can THEN box' = b /\ l = next ELSE box' = box /\ l = "failed"
    BY <2>1, <2>4 DEF Outcome
  <2>7. CASE can
    <3>1. Up' /\ box'.on = 1 /\ l \in {"probe", "created"}
      BY <1>4, <2>4, <2>5, <2>6, <2>7
    <3>2. Lets /\ OneHome'
      BY <2>2, <2>4, <2>5, <3>1 DEF Lets, OneHome, Up
    <3>3. Mild(l, j)'
      BY <2>2, <2>4, <2>5, <3>1 DEF Mild
    <3>4. ~kills
      BY <2>3, <3>1
    <3>5. QED
      BY <2>4, <3>2, <3>3, <3>4, CalmFrame
  <2>8. CASE ~can
    <3>1. box' = box /\ l = "failed"
      BY <2>6, <2>8
    <3>2. Lets /\ OneHome'
      BY <2>2, <2>4, <3>1 DEF Lets, OneHome, Present, Up
    <3>3. Mild(l, j)'
      BY <2>4, <3>1 DEF Mild, Past, Ensuring, Next3
    <3>4. ~kills
      BY <2>3, <3>2 DEF Lets
    <3>5. QED
      BY <2>4, <3>2, <3>3, <3>4, CalmFrame
  <2>9. QED
    BY <2>7, <2>8
<1>5. CASE pc[p] = "start" /\ Does(p, fit, same, "probe", TRUE)
  <2>1. OneHome /\ dir = 1 /\ Present /\ box' = same => Up' /\ box'.on = 1 /\ (Up => box' = box)
    BY <1>2, BoxType DEF OneHome, Present, Up
  <2>2. QED
    BY <1>4, <1>5, <2>1
<1>6. CASE pc[p] = "create" /\ Does(p, none, fresh, "created", TRUE)
  <2>1. dir = 1 /\ box' = fresh /\ none => Up' /\ box'.on = 1 /\ (Up => box' = box)
    BY <1>1, <1>2, BoxType DEF Present, Up
  <2>2. QED
    BY <1>4, <1>6, <2>1
<1>7. CASE pc[p] \in {"evict", "remove", "drop", "dropped", "discard"}
  <2>1. PICK l, j, changed, kills : Docker(p, l, j, changed, kills)
    BY ReplaceStep DEF Does
  <2>2. Mild(pc[p], job[p])
    BY <2>1, DockerCalm
  <2>3. QED
    BY <1>7, <2>2 DEF Mild
<1>8. QED
  BY <1>3, <1>5, <1>6, <1>7

\* Commands and runs leave the container and the directory alone.
LEMMA AwayCalm ==
  ASSUME TypeInv, CalmInv, NEW p, NEW l, NEW j, Moves(p, l, j, FALSE, FALSE),
         UNCHANGED <<host, box>>, faults <= faults', moves <= moves', asked => asked',
         misread => misread', Calm', l \notin Past \cup {"stamp"}, ~j.killed \/ j.killed = job[p].killed
  PROVE  CalmInv'
<1>1. dir' = dir /\ token' = token /\ box' = box /\ p \in Proc
  BY DEF host, Moves
<1>2. Calm
  BY CalmBefore
<1>3. OneHome /\ \A q \in Proc : Mild(pc[q], job[q])
  BY <1>2 DEF CalmInv
<1>4. Lets /\ OneHome'
  BY <1>1, <1>3 DEF Lets, OneHome, Present, Up
<1>5. ~j.killed
  BY <1>1, <1>3 DEF Mild
<1>6. l \notin {"evict", "remove", "drop", "dropped", "discard", "mount", "start", "probe",
                "created", "compare", "stamp"}
  BY DEF Past, Ensuring
<1>7. Mild(l, j)'
  BY <1>5, <1>6 DEF Mild
<1>8. QED
  BY <1>3, <1>4, <1>7, CalmFrame

LEMMA CommandCalm ==
  ASSUME TypeInv, CalmInv, Calm', NEW p \in Proc,
         \/ Begin(p) \/ Return(p) \/ Implement(p) \/ Judge(p)
         \/ Exec(p) \/ Ends(p) \/ Collect(p)
  PROVE  CalmInv'
<1> DEFINE Off == {"idle", "dirs", "implement", "stopping", "running", "collect", "judge",
                   "failed"}
<1>0. faults <= faults /\ moves <= moves /\ ~Blank.killed
  BY DEF TypeInv, CountsOK, Blank
<1>1. \A l \in Off : l \notin Past \cup {"stamp"}
  BY DEF Past, Ensuring, Next3
<1>2. ASSUME NEW l \in Off, NEW j, Moves(p, l, j, FALSE, FALSE), UNCHANGED <<host, box>>,
             faults <= faults', moves' = moves, asked => asked', misread => misread',
             ~j.killed \/ j.killed = job[p].killed
      PROVE  CalmInv'
  <2>1. moves <= moves'
    BY <1>0, <1>2
  <2>2. QED
    BY <1>1, <1>2, <2>1, AwayCalm
<1>3. CASE Begin(p)
  <2>1. PICK l, j : Begins(p, l, j)
    BY <1>3, BeginStep
  <2>2. l \in Off /\ Moves(p, l, j, FALSE, FALSE) /\ UNCHANGED <<host, box>>
    BY <2>1 DEF Begins
  <2>3. faults <= faults' /\ moves' = moves /\ (asked => asked') /\ (misread => misread')
    BY <1>0, <2>1 DEF Begins
  <2>4. ~j.killed \/ j.killed = job[p].killed
    BY <1>0, <2>1 DEF Begins
  <2>5. QED
    BY <1>2, <2>2, <2>3, <2>4
<1>4. CASE Return(p) \/ Judge(p)
  <2>1. Forgets(p) /\ UNCHANGED <<host, box>> /\ UNCHANGED <<faults, moves, asked, misread>>
    BY <1>4, ForgetStep DEF Return, Judge, counts
  <2>2. PICK j : j = Blank
    OBVIOUS
  <2>3. Moves(p, "idle", j, FALSE, FALSE) /\ ~j.killed
    BY <1>0, <2>1, <2>2 DEF Forgets, Moves
  <2>4. QED
    BY <1>0, <1>2, <2>1, <2>3
<1>5. CASE Implement(p)
  <2>1. PICK l, j : Implements(p, l, j)
    BY <1>5, ImplementStep
  <2>2. l \in Off /\ Moves(p, l, j, FALSE, FALSE) /\ UNCHANGED <<host, box>>
    BY <2>1 DEF Implements
  <2>3. faults <= faults' /\ moves' = moves /\ (asked => asked') /\ (misread => misread')
    BY <1>0, <2>1 DEF Implements, counts
  <2>4. ~j.killed \/ j.killed = job[p].killed
    BY <1>0, <2>1 DEF Implements
  <2>5. QED
    BY <1>2, <2>2, <2>3, <2>4
<1>6. CASE Exec(p)
  <2>1. PICK l, j : Execs(p, l, j)
    BY <1>6, ExecStep
  <2>2. l \in Off /\ Moves(p, l, j, FALSE, FALSE) /\ UNCHANGED <<host, box>>
    BY <2>1 DEF Execs
  <2>3. faults <= faults' /\ moves' = moves /\ (asked => asked') /\ (misread => misread')
    BY <1>0, <2>1 DEF Execs, counts
  <2>4. ~j.killed \/ j.killed = job[p].killed
    BY <1>0, <2>1 DEF Execs
  <2>5. QED
    BY <1>2, <2>2, <2>3, <2>4
<1>7. CASE Ends(p)
  <2>1. PICK j : EndsWith(p, j)
    BY <1>7, EndsStep
  <2>2. "collect" \in Off /\ Moves(p, "collect", j, FALSE, FALSE) /\ UNCHANGED <<host, box>>
    BY <2>1 DEF EndsWith
  <2>3. faults <= faults' /\ moves' = moves /\ (asked => asked') /\ (misread => misread')
    BY <1>0, <2>1 DEF EndsWith, counts
  <2>4. ~j.killed \/ j.killed = job[p].killed
    BY <1>0, <2>1 DEF EndsWith
  <2>5. QED
    BY <1>2, <2>2, <2>3, <2>4
<1>8. CASE Collect(p)
  <2>1. PICK l, j : Collects(p, l, j)
    BY <1>8, CollectStep
  <2>2. l \in Off /\ Moves(p, l, j, FALSE, FALSE) /\ UNCHANGED <<host, box>>
    BY <2>1 DEF Collects
  <2>3. faults <= faults' /\ moves' = moves /\ (asked => asked') /\ (misread => misread')
    BY <1>0, <2>1 DEF Collects, counts
  <2>4. ~j.killed \/ j.killed = job[p].killed
    BY <1>0, <2>1 DEF Collects
  <2>5. QED
    BY <1>2, <2>2, <2>3, <2>4
<1>9. QED
  BY <1>3, <1>4, <1>5, <1>6, <1>7, <1>8

LEMMA PrepareCalm ==
  ASSUME TypeInv, CalmInv, NEW p \in Proc, Prepare(p), Calm'
  PROVE  CalmInv'
<1>1. PICK j : Prepares(p, j)
  BY PrepareStep
<1>2. /\ pc[p] = "prepare" /\ Moves(p, "dirs", j, FALSE, FALSE) /\ j.killed = job[p].killed
      /\ dir # 0 => UNCHANGED host
      /\ box' = box /\ faults' = faults /\ moves' = moves /\ asked' = asked
      /\ misread' = misread
  BY <1>1 DEF Prepares, counts
<1>3. Calm /\ faults <= faults' /\ moves <= moves'
  BY <1>2 DEF Calm, TypeInv, CountsOK
<1>4. Mild("prepare", job[p])
  BY <1>2, <1>3 DEF CalmInv
<1>5. "prepare" \in Past /\ "dirs" \notin Past \cup {"stamp"}
  BY DEF Past, Next3
<1>6. dir = 1
  BY <1>4, <1>5 DEF Mild
<1>7. UNCHANGED <<host, box>>
  BY <1>2, <1>6
<1>8. QED
  BY <1>2, <1>3, <1>5, <1>7, AwayCalm

\* Only the stages of stop and reset are left, and the world.
LEMMA AskedCalm ==
  ASSUME TypeInv, NEW p \in Proc, StopRunning(p) \/ Rmtree(p)
  PROVE  ~Calm'
<1>1. pc[p] \in Stopping /\ UNCHANGED counts
  <2>1. CASE Rmtree(p)
    BY <2>1 DEF Rmtree, Stopping
  <2>2. CASE StopRunning(p)
    <3>1. pc[p] \in Stopping
      BY <2>2 DEF StopRunning, Stopping
    <3>2. UNCHANGED counts
      BY <2>2 DEF StopRunning, Ask, Stop, Remove, Command
    <3>3. QED
      BY <3>1, <3>2
  <2>3. QED
    BY <2>1, <2>2
<1>2. QED
  BY <1>1, StopCalm

LEMMA WorldCalm ==
  ASSUME TypeInv, Dies \/ Archive \/ \E p \in Proc : DirsFail(p)
  PROVE  ~Calm'
<1>1. faults \in Nat /\ moves \in Nat
  BY DEF TypeInv, CountsOK
<1>2. faults' = faults + 1 \/ moves' = moves + 1
  BY DEF Dies, Archive, DirsFail, Fault
<1>3. QED
  BY <1>1, <1>2 DEF Calm

LEMMA CalmInvInductive ==
  ASSUME TypeInv, CalmInv, [ExperimentNext]_vars
  PROVE  CalmInv'
<1>0. SUFFICES ASSUME Calm' PROVE CalmInv'
  BY DEF CalmInv
<1>1. ASSUME NEW p \in Proc, Step(p) PROVE CalmInv'
  <2>1. ~(StopRunning(p) \/ Rmtree(p) \/ DirsFail(p))
    BY <1>0, AskedCalm, WorldCalm
  <2>2. CASE EnsureRunning(p)
    BY <1>0, <2>1, <2>2, DirsCalm, StampCalm, WriteCalm, InspectCalm, MountCalm, ProbeCalm,
       CompareCalm, ReplaceCalm
       DEF EnsureRunning
  <2>3. QED
    BY <1>0, <1>1, <2>1, <2>2, CommandCalm, PrepareCalm DEF Step
<1>2. CASE Dies \/ Archive
  BY <1>0, <1>2, WorldCalm
<1>3. CASE UNCHANGED vars
  <2>1. UNCHANGED <<dir, token, box, pc, job, faults, moves, asked, misread>>
    BY <1>3 DEF vars, host, counts
  <2>2. QED
    BY <2>1 DEF CalmInv, Calm, OneHome, Mild, Present, Up
<1>4. QED
  BY <1>1, <1>2, <1>3 DEF ExperimentNext

LEMMA InitCalmInv == ExperimentInit => CalmInv
<1> SUFFICES ASSUME ExperimentInit, Calm PROVE OneHome /\ \A p \in Proc : Mild(pc[p], job[p])
  BY DEF CalmInv
<1>1. OneHome
  <2>1. CASE dir = 0 /\ token = << >> /\ box = None
    BY <2>1 DEF OneHome, Present
  <2>2. CASE \E up \in BOOLEAN : dir = 1 /\ token = <<1>> /\ box = [on |-> 1, up |-> up]
    <3>1. box.on = 1
      BY <2>2
    <3>2. QED
      BY <2>2, <3>1 DEF OneHome
  <2>3. QED
    BY <2>1, <2>2 DEF ExperimentInit, Calm
<1>2. ASSUME NEW p \in Proc PROVE Mild(pc[p], job[p])
  <2>1. pc[p] = "idle" /\ job[p] = Blank
    BY DEF ExperimentInit
  <2>2. "idle" \notin Past \cup {"stamp"} /\ ~Blank.killed
    BY DEF Past, Ensuring, Next3, Blank
  <2>3. QED
    BY <2>1, <2>2 DEF Mild
<1>3. QED
  BY <1>1, <1>2

\* While nobody asks to stop the container, docker works and the directory stays, the
\* commands that share it never take it from under each other's programs - until one of
\* them has read a sentinel that another was rewriting.
THEOREM NoProgramKilledHolds == ExperimentSpec => []NoProgramKilled
<1>1. CalmInv => NoProgramKilled
  BY DEF CalmInv, Calm, Mild, NoProgramKilled
<1>2. TypeInv /\ CalmInv /\ [ExperimentNext]_vars => TypeInv' /\ CalmInv'
  BY TypeInvInductive, CalmInvInductive
<1>3. QED
  BY <1>1, <1>2, InitTypeInv, InitCalmInv, PTL DEF ExperimentSpec
=============================================================================
