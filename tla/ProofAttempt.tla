---------------------------- MODULE ProofAttempt ----------------------------
(***************************************************************************)
(* What one invocation of the prover does for one goal: the proposal of    *)
(* the proof subsystem (core/builtins/proof.py), bounded model calls       *)
(* (llm.py), Lean checks (leap/lean.py, leap/sorry.py), the attempts of    *)
(* the controller (leap/controller.py) and the admission of the theorem.   *)
(*                                                                         *)
(* An invocation is an action of the kernel or the command `prove`.  A     *)
(* step is one model call, one use of Lean, or what the code does between  *)
(* them; the process may die between any two.  The graph keeps the         *)
(* attempts and the proof of the goal.  Goals are found again under the    *)
(* environment in which they were registered.                              *)
(*                                                                         *)
(* Left out: the order among branches and the search below the children    *)
(* of a decomposition (LeapSearch), prompts, retrieval, the clock, and     *)
(* statements that do not elaborate.  The root has one invocation at a     *)
(* time, which the lease of its goal sees to.                              *)
(***************************************************************************)
EXTENDS EvidencePolicy, Sequences, Integers

CONSTANTS
  Body,             \* proof bodies, of the goal or of the parent of a sketch
  Sound,            \* those Lean accepts without a placeholder
  Visible,          \* those with a placeholder the scanner finds
  Veiled,           \* those with one that only Lean finds
  Portfolio,        \* the deterministic tactics, a sequence of bodies
  Plan,             \* blueprints
  MaxDirect, MaxRevisions, MaxBlueprints,
  MaxCalls,         \* model calls of one step
  MaxInvocations, MaxFaults, MaxCrashes,
  None

ASSUME AttemptAssumption ==
  /\ Sound \cup Visible \cup Veiled \subseteq Body
  /\ Sound \cap (Visible \cup Veiled) = {} /\ Visible \cap Veiled = {}
  /\ Portfolio \in Seq(Body) /\ None \notin Body \cup Nat
  /\ {MaxDirect, MaxRevisions, MaxBlueprints, MaxInvocations, MaxFaults, MaxCrashes} \subseteq Nat
  /\ MaxCalls \in Nat \ {0}

VARIABLES
  pc, f,        \* the running invocation
  left,         \* calls left in the step, None outside one
  built,        \* this process has built the project
  manifest,     \* lake-manifest.json exists
  rows,         \* attempts of the graph: environment, mode, candidate
  proof,        \* environment -> the committed proof
  final,        \* the final module
  attempted,    \* the subsystem state has the goal
  records,      \* the theorems admitted
  posted,       \* calls sent in this step
  compiled,     \* what Lean has been asked about
  again,        \* how often it was asked about something again
  environments, \* those the goal has been registered in
  invocations, faults, crashes

graph == <<rows, proof, environments>>
lake == <<built, manifest>>
asked == <<compiled, again>>
calls == <<left, posted>>
kept == <<final, attempted, records>>
counts == <<invocations, faults, crashes>>
vars == <<pc, f, lake, graph, asked, calls, kept, counts>>

\* tries and revs count the attempts and the revisions so far; a model call goes on
\* at good, bad or escape, a Lean check at after.
Blank ==
  [by |-> None, env |-> FALSE, tries |-> 0, revs |-> 0, mode |-> None, body |-> None,
   repair |-> FALSE, good |-> "idle", bad |-> "idle", escape |-> "failed",
   after |-> "idle", verdict |-> None]

Go(stage) == pc' = stage /\ UNCHANGED f
GoWith(stage, frame) == pc' = stage /\ f' = frame

-----------------------------------------------------------------------------
(***************************************************************************)
(* Model calls                                                             *)
(***************************************************************************)
Request(frame, repair, good, bad) ==
  GoWith("ask", [frame EXCEPT !.repair = repair, !.good = good, !.bad = bad])

\* Mutant: a repair is not counted.
ConsumeOnce == left' = IF f.repair THEN left - 1 ELSE left

Consume == left' = left - 1

\* The request is sent; the answer may be an error.
Post == posted' = posted + 1

\* complete_structured: an answer that does not validate is repaired once, a refused
\* input costs a call, and what the transport raises leaves the search.
Ask ==
  /\ pc = "ask"
  /\ IF left <= 0
     THEN Go(f.escape) /\ UNCHANGED calls
     ELSE /\ Consume
          /\ \/ Post /\ Go(f.good)
             \/ Post /\ IF f.repair THEN GoWith("ask", [f EXCEPT !.repair = FALSE]) ELSE Go(f.bad)
             \/ Post /\ Go(f.escape)
             \/ UNCHANGED posted /\ Go(f.bad)
  /\ UNCHANGED <<lake, graph, asked, kept, counts>>

-----------------------------------------------------------------------------
(***************************************************************************)
(* Lean                                                                    *)
(***************************************************************************)
Fault == faults < MaxFaults /\ faults' = faults + 1

\* Mutant: only errors of the compiler count.
CleanRun(body) == body \in Sound \cup Veiled

\* Lean exits with 0, without an error and without a warning about a placeholder.
Accepts(body) == body \in Sound

Check(frame, mode, body, after) ==
  GoWith("lean", [frame EXCEPT !.mode = mode, !.body = body, !.after = after])

Verdict(v) == GoWith(f.after, [f EXCEPT !.verdict = v])

\* A visible placeholder is refused without Lean.
Refuse ==
  /\ pc = "lean" /\ f.body \in Visible
  /\ Verdict("rejected")
  /\ UNCHANGED <<lake, graph, asked, calls, kept, counts>>

\* The project is built once per process, then the module is compiled.
Compile ==
  /\ pc = "lean" /\ f.body \notin Visible
  /\ built' = TRUE /\ manifest' = TRUE
  /\ Verdict(IF f.mode = "statement" \/ Accepts(f.body) THEN "accepted" ELSE "rejected")
  /\ IF f.mode \in {"statement", "final"} THEN UNCHANGED asked
     ELSE LET question == [env |-> f.env, mode |-> f.mode, body |-> f.body]
          IN /\ compiled' = compiled \cup {question}
             /\ again' = IF question \in compiled THEN again + 1 ELSE again
  /\ UNCHANGED <<graph, calls, kept, counts>>

\* The build or the compiler fails, is killed by the timeout (124) or cannot be started
\* (127).
LeanFails ==
  /\ pc = "lean" /\ f.body \notin Visible /\ Fault
  /\ \/ built' = TRUE /\ manifest' = TRUE
     \/ ~built /\ built' = FALSE /\ manifest' \in {manifest, TRUE}
  /\ \E v \in {"rejected", "unavailable"} : Verdict(v)
  /\ UNCHANGED <<graph, asked, calls, kept, invocations, crashes>>

\* Mutant: the environment is read before the project is built.
FingerprintFirst ==
  /\ pc = "fingerprint"
  /\ built' = TRUE /\ manifest' = TRUE
  /\ GoWith("lean", [f EXCEPT !.env = manifest, !.mode = "statement", !.body = None,
                              !.after = "register"])
  /\ UNCHANGED <<graph, asked, calls, kept, counts>>

\* environment_fingerprint builds first, so that the manifest is there; a failure of
\* that build is not looked at.  Then the statement is elaborated.
Fingerprint ==
  /\ pc = "fingerprint"
  /\ \/ built' = TRUE /\ manifest' = TRUE /\ UNCHANGED faults
     \/ ~built /\ Fault /\ built' = FALSE /\ manifest' \in {manifest, TRUE}
  /\ GoWith("lean", [f EXCEPT !.env = manifest', !.mode = "statement", !.body = None,
                              !.after = "register"])
  /\ UNCHANGED <<graph, asked, calls, kept, invocations, crashes>>

-----------------------------------------------------------------------------
(***************************************************************************)
(* The search                                                              *)
(***************************************************************************)
Register ==
  /\ pc = "register"
  /\ IF f.verdict # "accepted" THEN Go("unproved") /\ UNCHANGED environments
     ELSE /\ environments' = environments \cup {f.env}
          /\ IF proof[f.env] # None THEN Go("over")
             ELSE GoWith("tactics", [f EXCEPT !.escape = "over", !.tries = 0])
  /\ UNCHANGED <<lake, rows, proof, asked, calls, kept, counts>>

Row(mode, body) == [env |-> f.env, mode |-> mode, body |-> body]

\* Mutant: only proofs that were committed are known.
SeenProved(mode, body) == Row(mode, body) \in rows /\ proof[f.env] = body

\* candidate_seen, whatever came of the attempt.
Seen(mode, body) == Row(mode, body) \in rows

Tactics ==
  /\ pc = "tactics"
  /\ IF f.tries = Len(Portfolio) THEN GoWith("direct", [f EXCEPT !.tries = 0])
     ELSE LET body == Portfolio[f.tries + 1]
              next == [f EXCEPT !.tries = @ + 1]
          IN IF Seen("deterministic", body) THEN GoWith("tactics", next)
             ELSE Check(next, "deterministic", body, "verdict")
  /\ UNCHANGED <<lake, graph, asked, calls, kept, counts>>

\* Each direct attempt starts from a new plan in words.
Direct ==
  /\ pc = "direct"
  /\ IF f.tries = MaxDirect THEN GoWith("blueprints", [f EXCEPT !.tries = 0])
     ELSE Request([f EXCEPT !.tries = @ + 1, !.revs = 0, !.mode = "direct"], TRUE,
                  "formal", "direct")
  /\ UNCHANGED <<lake, graph, asked, calls, kept, counts>>

Formal ==
  /\ pc = "formal"
  /\ Request(f, FALSE, "candidate", "direct")
  /\ UNCHANGED <<lake, graph, asked, calls, kept, counts>>

NextTry == IF f.mode = "sketch" THEN "blueprints" ELSE "direct"

\* Mutant: one revision too many.
ReviseOnceMore(bad) ==
  IF f.revs > MaxRevisions THEN Go(NextTry)
  ELSE Request([f EXCEPT !.revs = @ + 1], FALSE, "candidate", bad)

\* A revision, or the next attempt when there are none left.
Revise(bad) ==
  IF f.revs = MaxRevisions THEN Go(NextTry)
  ELSE Request([f EXCEPT !.revs = @ + 1], FALSE, "candidate", bad)

\* The model has answered with a proof.  A revision of a direct proof that was a
\* duplicate is asked for outside the handler of model errors; a sketch that does not
\* use its children as declared is rejected without Lean.
Candidate ==
  /\ pc = "candidate"
  /\ \E body \in Body :
       IF Seen(f.mode, body)
       THEN Revise(IF f.mode = "direct" THEN f.escape ELSE "blueprints")
       ELSE \/ Check(f, f.mode, body, "verdict")
            \/ f.mode = "sketch"
               /\ GoWith("verdict", [f EXCEPT !.body = body, !.verdict = "rejected"])
  /\ UNCHANGED <<lake, graph, asked, calls, kept, counts>>

\* The attempt is recorded, then acted on.
Judge ==
  /\ pc = "verdict"
  /\ rows' = rows \cup {Row(f.mode, f.body)}
  /\ IF f.verdict = "accepted"
     THEN IF f.mode = "sketch" THEN Request(f, TRUE, "review", "blueprints") ELSE Go("commit")
     ELSE IF f.mode = "deterministic"
     THEN IF f.verdict = "unavailable" THEN GoWith("direct", [f EXCEPT !.tries = 0])
          ELSE Go("tactics")
     ELSE IF f.verdict = "unavailable"
     THEN IF f.mode = "direct" THEN GoWith("blueprints", [f EXCEPT !.tries = 0])
          ELSE Go("blueprints")
     ELSE Revise(NextTry)
  /\ UNCHANGED <<lake, proof, environments, asked, calls, kept, counts>>

Commit ==
  /\ pc = "commit"
  /\ proof' = [proof EXCEPT ![f.env] = f.body]
  /\ Go("over")
  /\ UNCHANGED <<lake, rows, environments, asked, calls, kept, counts>>

Blueprints ==
  /\ pc = "blueprints"
  /\ IF f.tries = MaxBlueprints THEN Go("over")
     ELSE Request([f EXCEPT !.tries = @ + 1, !.revs = 0], TRUE, "plan", "blueprints")
  /\ UNCHANGED <<lake, graph, asked, calls, kept, counts>>

\* A blueprint is recorded whether it is sketched or refused.
Sketch ==
  /\ pc = "plan"
  /\ \E plan \in Plan :
       IF Seen("blueprint", plan) THEN Go("blueprints") /\ UNCHANGED rows
       ELSE /\ rows' = rows \cup {Row("blueprint", plan)}
            /\ \/ Go("blueprints")
               \/ Request([f EXCEPT !.mode = "sketch"], FALSE, "candidate", "blueprints")
  /\ UNCHANGED <<lake, proof, environments, asked, calls, kept, counts>>

\* The reviewer refuses, or the children are searched for and then prove the goal or not.
Review ==
  /\ pc = "review"
  /\ Go("blueprints") \/ Go("commit")
  /\ UNCHANGED <<lake, graph, asked, calls, kept, counts>>

-----------------------------------------------------------------------------
(***************************************************************************)
(* The end of an invocation                                                *)
(***************************************************************************)
\* However the search ended, a proved root is put together and checked again.
Assemble ==
  /\ pc = "over"
  /\ IF proof[f.env] = None THEN Go("unproved") /\ UNCHANGED final
     ELSE /\ final' = proof[f.env]
          /\ Check(f, "final", proof[f.env], "assembled")
  /\ UNCHANGED <<lake, graph, asked, calls, attempted, records, counts>>

Return == GoWith("idle", Blank) /\ left' = None /\ posted' = 0 /\ built' = FALSE

Disk == [path \in {"final"} |-> final]
FinalRef == [path |-> "final", sha |-> final]
\* What the scanner for placeholders lets pass.
Scanned == Body \ Visible

\* The outcome of the action: a theorem, or an obstruction, and the goal is done with.
Finish ==
  /\ pc \in {"assembled", "unproved"}
  /\ LET proved == pc = "assembled" /\ f.verdict = "accepted" /\ final \in Scanned
         receipt == [accepted |-> TRUE, placeholderFree |-> TRUE, refs |-> {FinalRef},
                     declared |-> {"final"}]
     IN /\ records' = IF f.by = "action" /\ proved
                         /\ LeanStatus(receipt, Disk, Scanned) # Refused
                      THEN records \cup {final} ELSE records
        /\ attempted' = (attempted \/ f.by = "action")
  /\ Return
  /\ UNCHANGED <<manifest, graph, asked, final, counts>>

\* The exception fails the action; no step is left behind.
Fail ==
  /\ pc = "failed"
  /\ Return
  /\ UNCHANGED <<manifest, graph, asked, kept, counts>>

-----------------------------------------------------------------------------
(***************************************************************************)
(* Invocations                                                             *)
(***************************************************************************)
Begin ==
  /\ pc = "idle" /\ invocations < MaxInvocations
  /\ invocations' = invocations + 1
  /\ left' = MaxCalls /\ posted' = 0
  /\ \/ Request([Blank EXCEPT !.by = "action"], TRUE, "chosen", "failed")
     \/ GoWith("fingerprint", [Blank EXCEPT !.by = "command"])
  /\ UNCHANGED <<lake, graph, asked, kept, faults, crashes>>

\* propose: the subsystem yields, or chooses a goal it has not attempted.
Choose ==
  /\ pc = "chosen"
  /\ \/ Return
     \/ ~attempted /\ Go("fingerprint") /\ UNCHANGED <<calls, built>>
  /\ UNCHANGED <<manifest, graph, asked, kept, counts>>

Crash ==
  /\ pc # "idle" /\ crashes < MaxCrashes
  /\ crashes' = crashes + 1
  /\ Return
  /\ UNCHANGED <<manifest, graph, asked, kept, invocations, faults>>

AttemptInit ==
  /\ pc = "idle" /\ f = Blank /\ left = None /\ posted = 0
  /\ built = FALSE /\ manifest = FALSE
  /\ rows = {} /\ proof = [e \in BOOLEAN |-> None] /\ environments = {}
  /\ compiled = {} /\ again = 0
  /\ final = None /\ attempted = FALSE /\ records = {}
  /\ invocations = 0 /\ faults = 0 /\ crashes = 0

AttemptNext ==
  \/ Begin \/ Choose \/ Crash \/ Fail \/ Ask
  \/ Fingerprint \/ Refuse \/ Compile \/ LeanFails \/ Register
  \/ Tactics \/ Direct \/ Formal \/ Candidate \/ Judge \/ Commit
  \/ Blueprints \/ Sketch \/ Review \/ Assemble \/ Finish

AttemptSpec == AttemptInit /\ [][AttemptNext]_vars

-----------------------------------------------------------------------------
(***************************************************************************)
(* Properties                                                              *)
(***************************************************************************)
Stage ==
  {"idle", "chosen", "ask", "fingerprint", "lean", "register", "tactics", "direct", "formal",
   "candidate", "verdict", "commit", "blueprints", "plan", "review", "over", "assembled",
   "unproved", "failed"}

\* Every variable has its type.
AttemptTypeOK ==
  /\ pc \in Stage /\ f.by \in {None, "action", "command"} /\ f.env \in BOOLEAN
  /\ f.body \in Body \cup {None} /\ f.verdict \in {None, "accepted", "rejected", "unavailable"}
  /\ f.tries \in 0..(MaxDirect + MaxBlueprints + Len(Portfolio)) /\ f.revs \in 0..MaxRevisions
  /\ left \in 0..MaxCalls \cup {None} /\ (pc = "idle" <=> left = None)
  /\ rows \subseteq [env : BOOLEAN, mode : {"deterministic", "direct", "sketch", "blueprint"},
                     body : Body \cup Plan]
  /\ proof \in [BOOLEAN -> Body \cup {None}] /\ final \in Body \cup {None}

\* No step sends more calls than it may, repairs included (llm.py:131, a hard cap), and
\* no budget outlives its step.
CallsWithinBudget == posted <= MaxCalls /\ (pc = "idle" => left = None)

\* A committed proof, the root of every final module and every admitted theorem are ones
\* Lean accepts without a placeholder, whatever a run of Lean failed at.
ProvedIsChecked ==
  records \cup ({proof[e] : e \in BOOLEAN} \ {None}) \subseteq Sound

\* Lean is asked about a candidate once per mode and environment, over all invocations,
\* except when a process dies before it has recorded the answer (controller.py:277).
CheckedOnce == again <= crashes

\* As long as Lean and Lake work, every invocation finds the goal under the environment of
\* the first (lean.py:98-99).
OneEnvironment == faults = 0 => Cardinality(environments) <= 1
=============================================================================
