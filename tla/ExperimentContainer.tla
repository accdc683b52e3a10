------------------------ MODULE ExperimentContainer ------------------------
(***************************************************************************)
(* The experiment runner (experimenter/docker_project.py, runner.py) and   *)
(* the experiment subsystem on top of it (core/builtins/experiment.py).    *)
(*                                                                         *)
(* A workspace has one container, into which a host directory is mounted.  *)
(* The kernel's action and the commands of the CLI use it from processes   *)
(* of their own, without a lock between them.  A step is one docker        *)
(* command, or what the code does on the host between two of them.         *)
(*                                                                         *)
(* A directory is named by its inode, which outlives its path: a running   *)
(* container keeps the directory it was started with.  Docker commands may *)
(* fail or time out, a container may stop by itself, and `doctor           *)
(* --archive-legacy` moves the directory away.  The sentinel in the        *)
(* directory is rewritten by every command: emptied first, then written.   *)
(*                                                                         *)
(* Left out: building the image, the manifest, copies into and out of the  *)
(* container, the logs and reports of a run, and the class of a failure,   *)
(* which nothing decides by.  A process that dies is a command that fails. *)
(* A container is absent, running or exited: none is paused or restarting. *)
(***************************************************************************)
EXTENDS EvidencePolicy, Sequences, Integers

CONSTANTS
  Kernel, Cli,    \* the processes: the kernel's action, commands of the CLI
  Program,
  Outputs,        \* program -> the valid outputs it may write
  MaxCommands, MaxFaults, MaxMoves,
  None

Proc == {Kernel} \cup Cli

ASSUME ExperimentAssumption ==
  /\ Kernel \notin Cli
  /\ DOMAIN Outputs = Program /\ None \notin UNION {Outputs[p] : p \in Program}
  /\ None \notin Program /\ None \notin [on : Nat, up : BOOLEAN]
  /\ MaxCommands \in Nat /\ MaxFaults \in Nat /\ MaxMoves \in Nat

VARIABLES
  dir,      \* the inode of .experimenter/workspace, 0 if there is none
  token,    \* inode -> the inode its .mount-sentinel names, Empty, or 0 if it has none
  box,      \* the container: None, or the inode mounted (on) and whether it runs (up)
  runs,     \* runs so far: [at, program, out, wrote, kept]
  records,  \* experiments the evidence policy has admitted
  pc, job,  \* process -> where it is, what it has read
  commands, faults, moves,
  asked,    \* whether somebody has asked to stop the container
  misread   \* whether a command has read a sentinel that another was rewriting

host == <<dir, token>>
counts == <<commands, moves, asked, misread>>
vars == <<host, box, runs, records, pc, job, counts, faults>>

Empty == -1

Ensuring == {"dirs", "stamp", "write", "inspect", "mount", "evict", "remove", "start",
             "probe", "compare", "drop", "dropped", "create", "created", "discard"}
Stopping == {"stopping", "halt", "look", "erase", "rmtree"}
Stage == Ensuring \cup Stopping
         \cup {"idle", "implement", "prepare", "exec", "running", "collect", "judge",
               "returned", "failed"}

\* next is where a successful ensure_running goes on; touched says that another
\* process or the world has changed the container or the directory meanwhile.
Blank ==
  [op |-> "idle", next |-> "idle", inode |-> 0, file |-> 0,
   state |-> "absent", seen |-> 0, fresh |-> FALSE, torn |-> FALSE,
   program |-> None, mine |-> << >>, ok |-> FALSE, killed |-> FALSE,
   touched |-> FALSE, faulted |-> FALSE]

Goto(p, stage) == pc' = [pc EXCEPT ![p] = stage]

\* Where a process depends on neither container nor directory before it ensures them again.
Outside == {"implement", "running", "collect", "judge"}

\* Process p goes on with j; the others notice that something has changed.
Turn(p, j, changed, kills) ==
  job' = [q \in Proc |->
            IF q = p THEN j ELSE IF pc[q] = "idle" THEN Blank
            ELSE [job[q] EXCEPT !.touched = @ \/ (changed /\ pc[q] \notin Outside),
                                !.killed = @ \/ (kills /\ pc[q] = "running")]]

Local(p, j) == Turn(p, j, FALSE, FALSE)

-----------------------------------------------------------------------------
(***************************************************************************)
(* The docker daemon                                                       *)
(***************************************************************************)
Present == box # None
Up == Present /\ box.up
Status == IF ~Present THEN "absent" ELSE IF box.up THEN "running" ELSE "exited"

Becomes(p, b, faulted) ==
  /\ box' = b
  /\ Turn(p, [job[p] EXCEPT !.faulted = @ \/ faulted], b # box, Up /\ (b = None \/ ~b.up))

Fault == faults < MaxFaults /\ faults' = faults + 1

\* A command that turns the container into b when it can.  It may be refused, fail,
\* or time out before or after it has had its effect; a timeout always raises.
Command(p, can, b, next, check) ==
  /\ \/ can /\ Becomes(p, b, FALSE) /\ Goto(p, next) /\ UNCHANGED faults
     \/ ~can /\ Becomes(p, box, FALSE) /\ Goto(p, IF check THEN "failed" ELSE next)
        /\ UNCHANGED faults
     \/ ~check /\ Fault /\ Becomes(p, box, TRUE) /\ Goto(p, next)
     \/ Fault /\ Goto(p, "failed")
        /\ \E after \in {box} \cup (IF can THEN {b} ELSE {}) : Becomes(p, after, TRUE)
  /\ UNCHANGED <<host, runs, records, counts>>

Stop(p, next, check) == Command(p, Present, [box EXCEPT !.up = FALSE], next, check)
Remove(p, next, check) == Command(p, Present /\ ~Up, None, next, check)
Start(p, next) ==
  Command(p, Present /\ (Up \/ dir # 0),
          IF Up THEN box ELSE [on |-> dir, up |-> TRUE], next, TRUE)
Create(p, next) == Command(p, ~Present /\ dir # 0, [on |-> dir, up |-> TRUE], next, TRUE)
Discard(p, next) == Command(p, Present, None, next, FALSE)

\* A command that only reads: what it says when it works, and when it fails.
Ask(p, answers, otherwise) ==
  /\ \/ answers /\ UNCHANGED faults
     \/ Fault /\ otherwise
     \/ Fault /\ Goto(p, "failed") /\ Local(p, [job[p] EXCEPT !.faulted = TRUE])
  /\ UNCHANGED <<host, box, runs, records, counts>>

-----------------------------------------------------------------------------
(***************************************************************************)
(* ensure_running                                                          *)
(***************************************************************************)
Ensure(p, j, next) ==
  /\ Goto(p, "dirs")
  /\ Local(p, [j EXCEPT !.next = next, !.touched = FALSE, !.faulted = FALSE,
                             !.torn = FALSE])

\* _ensure_workspace_dirs makes the directories and looks the one at the path up, ...
Dirs(p) ==
  /\ pc[p] = "dirs"
  /\ IF dir = 0 THEN dir' = Len(token) + 1 /\ token' = Append(token, 0)
     ELSE UNCHANGED host
  /\ Goto(p, "stamp")
  /\ Turn(p, [job[p] EXCEPT !.inode = dir'], dir' # dir, FALSE)
  /\ UNCHANGED <<box, runs, records, counts, faults>>

\* ... opens the sentinel under its path, which empties it, ...
Stamp(p) ==
  /\ pc[p] = "stamp"
  /\ IF dir = 0 THEN Goto(p, "failed") /\ Local(p, job[p]) /\ UNCHANGED token
     ELSE /\ token' = [token EXCEPT ![dir] = Empty]
          /\ Goto(p, "write") /\ Local(p, [job[p] EXCEPT !.file = dir])
  /\ UNCHANGED <<dir, box, runs, records, counts, faults>>

\* Writes a token into the sentinel p has open, unless it has been unlinked; the others
\* notice when it is not the token of the directory the sentinel is in.
Stamped(p, inode) ==
  LET file == job[p].file
      linked == token[file] # 0
  IN /\ pc[p] = "write"
     /\ token' = IF linked THEN [token EXCEPT ![file] = inode] ELSE token
     /\ Goto(p, "inspect")
     /\ Turn(p, [job[p] EXCEPT !.inode = 0, !.file = 0], linked /\ inode # file, FALSE)
     /\ UNCHANGED <<dir, box, runs, records, counts, faults>>

\* Mutant: the directory at the path is looked up when the sentinel is open.
WriteLate(p) == Stamped(p, dir)

\* ... and writes which directory was at the path.
Write(p) == Stamped(p, job[p].inode)

\* Docker does not answer, or the process dies; an opened sentinel stays empty.
DirsFail(p) ==
  /\ pc[p] \in {"dirs", "stamp", "write"} /\ Fault
  /\ Goto(p, "failed") /\ Local(p, [job[p] EXCEPT !.faulted = TRUE])
  /\ UNCHANGED <<host, box, runs, records, counts>>

\* _container_state: a failed inspect means that there is no container.
Inspect(p) ==
  /\ pc[p] = "inspect"
  /\ LET saw(state) == /\ Goto(p, IF state = "absent" THEN "create" ELSE "mount")
                       /\ Local(p, [job[p] EXCEPT !.state = state,
                                                  !.faulted = @ \/ state # Status])
     IN Ask(p, saw(Status), saw("absent"))

\* _container_has_expected_workspace_mount compares paths, and so says yes to every
\* container that can be inspected.
Mount(p) ==
  /\ pc[p] = "mount"
  /\ LET running == job[p].state = "running"
         expected(answer, faulted) ==
           /\ Goto(p, IF answer THEN IF running THEN "probe" ELSE "start"
                      ELSE IF running THEN "evict" ELSE "remove")
           /\ Local(p, [job[p] EXCEPT !.faulted = @ \/ faulted])
     IN Ask(p, expected(Present, FALSE), expected(FALSE, TRUE))

\* Mutant: any answer of the container will do.
HealthyAtAll(p) == job[p].seen # 0

\* The token read in the container is that of the directory at the path.
Healthy(p) == job[p].seen # 0 /\ dir # 0 /\ job[p].seen = token[dir]

Probe(p) ==
  /\ pc[p] \in {"probe", "created"}
  /\ LET saw(what, faulted) == /\ Goto(p, "compare")
                               /\ Local(p, [job[p] EXCEPT !.seen = what,
                                                          !.fresh = pc[p] = "created",
                                                          !.faulted = @ \/ faulted])
     IN Ask(p, saw(IF Up THEN token[box.on] ELSE 0, FALSE), saw(0, TRUE))

\* One of the two tokens compared was read while the sentinel was empty.
Torn(p) == job[p].seen # 0 /\ dir # 0 /\ Empty \in {job[p].seen, token[dir]}

\* A container that was just made is not given a second chance.
Compare(p) ==
  /\ pc[p] = "compare"
  /\ Goto(p, IF Healthy(p) THEN job[p].next ELSE IF job[p].fresh THEN "discard" ELSE "drop")
  /\ Local(p, [job[p] EXCEPT !.seen = 0, !.state = "absent", !.fresh = FALSE, !.torn = Torn(p)])
  /\ misread' = (misread \/ Torn(p))
  /\ UNCHANGED <<host, box, runs, records, commands, moves, asked, faults>>

\* Mutant: the unhealthy container is stopped and not removed.
DropOnly(p) == Stop(p, "create", FALSE)

Drop(p) == Stop(p, "dropped", FALSE)

\* Mutant: a container in the way is replaced (docker rm -f, docker run).
CreateAnyway(p) == Command(p, dir # 0, [on |-> dir, up |-> FALSE], "start", TRUE)

CreateNew(p) == Create(p, "created")

\* What ensure_running does with a container it cannot use, and without one.
Replace(p) ==
  \/ pc[p] = "evict" /\ Stop(p, "remove", TRUE)
  \/ pc[p] = "remove" /\ Remove(p, "create", TRUE)
  \/ pc[p] = "start" /\ Start(p, "probe")
  \/ pc[p] = "drop" /\ Drop(p)
  \/ pc[p] = "dropped" /\ Remove(p, "create", FALSE)
  \/ pc[p] = "create" /\ CreateNew(p)
  \/ pc[p] = "discard" /\ Discard(p, "failed")

EnsureRunning(p) ==
  Dirs(p) \/ Stamp(p) \/ Write(p) \/ DirsFail(p) \/ Inspect(p) \/ Mount(p)
  \/ Probe(p) \/ Compare(p) \/ Replace(p)

-----------------------------------------------------------------------------
(***************************************************************************)
(* stop and reset                                                          *)
(***************************************************************************)
\* The state is asked before stopping and again before removing.
StopRunning(p) ==
  \/ /\ pc[p] \in {"stopping", "look"}
     /\ LET first == pc[p] = "stopping"
            more == IF job[p].op = "stop" THEN "idle" ELSE "look"
            done == IF job[p].op = "reset" THEN "rmtree" ELSE "idle"
            saw(state) ==
              /\ Goto(p, IF first THEN IF state = "running" THEN "halt" ELSE more
                         ELSE IF state = "absent" THEN done ELSE "erase")
              /\ Local(p, [job[p] EXCEPT !.faulted = @ \/ state # Status])
        IN Ask(p, saw(Status), saw("absent"))
  \/ pc[p] = "halt" /\ Stop(p, IF job[p].op = "stop" THEN "idle" ELSE "look", TRUE)
  \/ pc[p] = "erase" /\ Remove(p, IF job[p].op = "reset" THEN "rmtree" ELSE "idle", TRUE)

\* shutil.rmtree: what is in the directory is gone, for the container as well.
Rmtree(p) ==
  /\ pc[p] = "rmtree"
  /\ dir' = 0
  /\ token' = IF dir = 0 THEN token ELSE [token EXCEPT ![dir] = 0]
  /\ runs' = [r \in DOMAIN runs |-> IF runs[r].at = dir THEN [runs[r] EXCEPT !.at = 0] ELSE runs[r]]
  /\ Goto(p, "idle")
  /\ Turn(p, Blank, dir # 0, FALSE)
  /\ UNCHANGED <<box, records, counts, faults>>

-----------------------------------------------------------------------------
(***************************************************************************)
(* One run of a program                                                    *)
(***************************************************************************)
\* Mutant: the runs of a study share their directory.
PrepareInPlace(p) ==
  /\ pc[p] = "prepare"
  /\ IF dir = 0 THEN dir' = Len(token) + 1 /\ token' = Append(token, 0)
     ELSE UNCHANGED host
  /\ LET mine == job[p].mine
     IN runs' = Append(runs,
          [at |-> dir', program |-> job[p].program, wrote |-> FALSE, kept |-> None,
           out |-> IF mine = << >> THEN None ELSE runs[mine[Len(mine)]].out])
  /\ Ensure(p, [job[p] EXCEPT !.mine = Append(@, Len(runs) + 1)], "exec")
  /\ UNCHANGED <<box, records, counts, faults>>

\* A directory with a fresh name, which mkdir(parents=True) makes in any case.
Prepare(p) ==
  /\ pc[p] = "prepare"
  /\ IF dir = 0 THEN dir' = Len(token) + 1 /\ token' = Append(token, 0)
     ELSE UNCHANGED host
  /\ runs' = Append(runs, [at |-> dir', program |-> job[p].program, out |-> None,
                           wrote |-> FALSE, kept |-> None])
  /\ Ensure(p, [job[p] EXCEPT !.mine = Append(@, Len(runs) + 1)], "exec")
  /\ UNCHANGED <<box, records, counts, faults>>

Mine(p) == job[p].mine[Len(job[p].mine)]

\* docker exec starts the program when the mounted directory has the one of the run.
Exec(p) ==
  /\ pc[p] = "exec"
  /\ LET starts == Up /\ runs[Mine(p)].at = box.on
         did(stage) == /\ Goto(p, stage)
                       /\ Local(p, [job[p] EXCEPT !.ok = FALSE, !.killed = FALSE,
                                                   !.touched = FALSE, !.faulted = FALSE,
                                                   !.torn = FALSE])
     IN Ask(p, did(IF starts THEN "running" ELSE "collect"), did("collect"))

\* The program ends; writing the results is the last thing it does.  They may be missing
\* or invalid.
Ends(p) ==
  /\ pc[p] = "running"
  /\ IF job[p].killed THEN Local(p, job[p]) /\ UNCHANGED runs
     ELSE \E out \in Outputs[job[p].program] \cup {None}, exits \in BOOLEAN :
            /\ out # None => exits
            /\ Local(p, [job[p] EXCEPT !.ok = exits])
            /\ runs' = IF out = None THEN runs
                       ELSE [runs EXCEPT ![Mine(p)].out = out, ![Mine(p)].wrote = TRUE]
  /\ Goto(p, "collect")
  /\ UNCHANGED <<host, box, records, counts, faults>>

\* The results are read under the path of the directory.  A study runs its program
\* twice whatever the first run came to.
Collect(p) ==
  /\ pc[p] = "collect"
  /\ IF dir = 0 \/ runs[Mine(p)].at # dir
     THEN Goto(p, "idle") /\ Local(p, Blank) /\ UNCHANGED runs
     ELSE /\ runs' = [runs EXCEPT ![Mine(p)].kept = IF job[p].ok THEN runs[Mine(p)].out ELSE None]
          /\ IF job[p].op = "run" THEN Goto(p, "idle") /\ Local(p, Blank)
             ELSE LET j == [job[p] EXCEPT !.ok = FALSE, !.killed = FALSE]
                  IN IF Len(j.mine) < 2 THEN Ensure(p, j, "prepare")
                     ELSE Goto(p, "judge") /\ Local(p, j)
  /\ UNCHANGED <<host, box, records, counts, faults>>

-----------------------------------------------------------------------------
(***************************************************************************)
(* The experiment subsystem                                                *)
(***************************************************************************)
\* The model implements the protocol; seeds that differ and programs that validation
\* refuses fail the action.
Implement(p) ==
  /\ pc[p] = "implement"
  /\ \/ \E prog \in Program : Ensure(p, [job[p] EXCEPT !.program = prog], "prepare")
     \/ Goto(p, "idle") /\ Local(p, Blank)
  /\ UNCHANGED <<host, box, runs, records, counts, faults>>

\* The artifacts: the program, and the results.json of every run.
Disk == [path \in ((DOMAIN runs) \X {"results"}) \cup (Program \X {"program"}) |->
           IF path[2] = "program" THEN path[1] ELSE runs[path[1]].kept]

Receipt(program, mine, output) ==
  [success |-> TRUE, replicated |-> TRUE, program |-> program, output |-> output,
   programs |-> {[path |-> <<program, "program">>, sha |-> program]},
   results |-> {[path |-> <<mine[i], "results">>, sha |-> runs[mine[i]].kept] :
                i \in DOMAIN mine}]

\* Two equal outputs are evidence, once; anything else becomes an obstruction, which
\* the model leaves out.
Judge(p) ==
  /\ pc[p] = "judge"
  /\ LET mine == job[p].mine
         output == runs[mine[1]].kept
         replicated == \A i \in DOMAIN mine : runs[mine[i]].kept = output
         receipt == Receipt(job[p].program, mine, output)
         known == {ExecutionIdentity(r) : r \in records}
     IN records' = IF /\ output # None /\ replicated
                      /\ ExecutionStatus(receipt, Disk) # Refused
                      /\ ExecutionIdentity(receipt) \notin known
                   THEN records \cup {[program |-> job[p].program, output |-> output,
                                       runs |-> mine]}
                   ELSE records
  /\ Goto(p, "idle") /\ Local(p, Blank)
  /\ UNCHANGED <<host, box, runs, counts, faults>>

-----------------------------------------------------------------------------
(***************************************************************************)
(* Commands and the world                                                  *)
(***************************************************************************)
Begin(p) ==
  /\ pc[p] = "idle" /\ commands < MaxCommands
  /\ commands' = commands + 1
  /\ IF p = Kernel
     THEN /\ Goto(p, "implement") /\ Local(p, [Blank EXCEPT !.op = "study"])
          /\ UNCHANGED asked
     ELSE \/ Ensure(p, [Blank EXCEPT !.op = "start"], "returned") /\ UNCHANGED asked
          \/ \E prog \in Program :
               /\ Ensure(p, [Blank EXCEPT !.op = "run", !.program = prog], "prepare")
               /\ UNCHANGED asked
          \/ \E op \in {"stop", "remove", "reset"} :
               /\ Goto(p, "stopping") /\ Local(p, [Blank EXCEPT !.op = op])
               /\ asked' = TRUE
  /\ UNCHANGED <<host, box, runs, records, faults, moves, misread>>

\* The result, or the exception, reaches the caller.
Return(p) ==
  /\ pc[p] \in {"returned", "failed"}
  /\ Goto(p, "idle") /\ Local(p, Blank)
  /\ UNCHANGED <<host, box, runs, records, counts, faults>>

Step(p) ==
  \/ Begin(p) \/ Return(p) \/ EnsureRunning(p) \/ StopRunning(p) \/ Rmtree(p)
  \/ Prepare(p) \/ Exec(p) \/ Ends(p) \/ Collect(p) \/ Implement(p) \/ Judge(p)

Everyone(kills) ==
  job' = [q \in Proc |-> IF pc[q] = "idle" THEN Blank
                         ELSE [job[q] EXCEPT !.touched = @ \/ pc[q] \notin Outside,
                                             !.killed = @ \/ (kills /\ pc[q] = "running")]]

\* The container stops by itself.
Dies ==
  /\ Up /\ Fault
  /\ box' = [box EXCEPT !.up = FALSE]
  /\ Everyone(TRUE)
  /\ UNCHANGED <<host, runs, records, pc, counts>>

\* doctor --archive-legacy
Archive ==
  /\ dir # 0 /\ moves < MaxMoves
  /\ dir' = 0 /\ moves' = moves + 1
  /\ Everyone(FALSE)
  /\ UNCHANGED <<token, box, runs, records, pc, commands, faults, asked,
                 misread>>

\* Nothing yet, or what earlier commands left: a container on the directory or on one
\* that has been archived since.
ExperimentInit ==
  /\ \/ dir = 0 /\ token = << >> /\ box = None /\ moves = 0
     \/ \E up \in BOOLEAN : dir = 1 /\ token = <<1>> /\ box = [on |-> 1, up |-> up] /\ moves = 0
     \/ /\ MaxMoves > 0 /\ moves = 1
        /\ dir = 0 /\ token = <<1>> /\ box = [on |-> 1, up |-> TRUE]
  /\ runs = << >> /\ records = {}
  /\ pc = [p \in Proc |-> "idle"] /\ job = [p \in Proc |-> Blank]
  /\ commands = 0 /\ faults = 0 /\ asked = FALSE /\ misread = FALSE

ExperimentNext == (\E p \in Proc : Step(p)) \/ Dies \/ Archive

ExperimentSpec == ExperimentInit /\ [][ExperimentNext]_vars

-----------------------------------------------------------------------------
(***************************************************************************)
(* Properties                                                              *)
(***************************************************************************)
\* Every variable has its type; the directory at the path is the last one made, and no
\* sentinel names one that was made later than its own.
ExperimentTypeOK ==
  /\ dir \in {0, Len(token)} /\ token \in Seq(Int)
  /\ \A d \in DOMAIN token : token[d] \in {Empty} \cup 0..d
  /\ Present => box.on \in DOMAIN token
  /\ \A r \in DOMAIN runs : runs[r].at \in 0..Len(token) /\ runs[r].program \in Program
  /\ pc \in [Proc -> Stage]
  /\ \A p \in Proc : \A i \in DOMAIN job[p].mine : job[p].mine[i] \in DOMAIN runs
  /\ commands <= MaxCommands /\ faults <= MaxFaults /\ moves <= MaxMoves

\* When ensure_running has returned, and nobody else has changed the container, the
\* directory or what its sentinel names since it began, the container runs on the
\* directory that is at the path, whatever docker failed at meanwhile
\* (docker_project.py:191: a running container keeps the directory it was started with) -
\* unless both tokens were read empty, which compare equal.
EnsuredIsCurrent ==
  \A p \in Proc :
    pc[p] \in {"returned", "prepare", "exec"} /\ ~job[p].touched /\ ~job[p].torn =>
      Up /\ box.on = dir

\* A docker command that works and is not disturbed never leaves a command without its
\* result: whether the container was absent, running or exited, ensure_running repairs it
\* and stop and reset go through.  Besides a change under its hands, what makes it give a
\* new container up is a sentinel that another command was rewriting (docker_project.py:196
\* empties it without a lock, lines 63-67 give no second chance).
UndisturbedSucceeds ==
  \A p \in Proc : pc[p] = "failed" => job[p].touched \/ job[p].faulted \/ job[p].torn

\* While nobody asks to stop the container, docker works and the directory stays, no
\* process takes the container from under the program of another - until one has read a
\* sentinel that was being rewritten and so found a healthy container unhealthy.
NoProgramKilled ==
  ~asked /\ faults = 0 /\ moves = 0 /\ ~misread => \A p \in Proc : ~job[p].killed

\* An observed experiment has been executed twice: two runs of its program, each of which
\* wrote the output the record names (README.md:15, exactly replicated execution).
ObservedTwice ==
  \A rec \in records : \E r, s \in DOMAIN runs :
    /\ r # s
    /\ \A x \in {r, s} : runs[x].program = rec.program /\ runs[x].wrote
                         /\ runs[x].out = rec.output
=============================================================================
