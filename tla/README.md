# A TLA+ development of TCS Agentic Research

This directory holds TLA+ models of the program under `src/`, TLC configurations that check them on
small instances, and proofs, checked by TLAPS, of the properties that matter most. The program is an
autonomous research runner: a deterministic *kernel* offers turns to model-driven *subsystems*
(literature, theory, proof, experiment), admits what they return as *records* under an evidence
policy, and keeps everything in the files of one *workspace*.

Paths below are relative to `src/src/tcs_agentic_research/` unless they name a document.

## 1. Inventory

| Component | State it keeps | Operations | What is hard about it | What makes it correct |
|---|---|---|---|---|
| Research kernel `core/kernel.py`, `engine.py` | `KernelState.json` (task digest and revision, cursor, active action, idle count), the same in memory | `initialize`, `run`, `_step`, `_recover_interrupted`, `status` | several durable writes per step with crashes and exceptions between them; a second process; edits of the task | nothing is committed twice, ledgers and state agree, ends are final, every begun action is settled, runs end |
| Workspace store `artifact_store.py` | append-only `Actions`, `Records`, `TaskVersions`, `Events`, `ModelCalls` ledgers; `Subsystems/*.json`; `.research.lock` | atomic replace, append with fsync, read, lock | append is atomic only while the process lives; a ledger is re-read from the start by every decision | a write has happened or not; rows come back as written |
| Evidence policy `core/policy.py`, `core/models.py` | none (a function of ledger, artifacts and drafts) | `admit` | the status of a record depends on hashes of files that may have changed | `verified`/`observed` only with a current receipt; no duplicates; parents known |
| Context view `core/context.py` | none | `build_view` | character budgets; task text is read later than its digest | required records are shown |
| Built-in subsystems `core/builtins/*.py` | one JSON object each: what was handled, continuation cursors | `propose`, `execute` | the patch is computed from an older view | no action is forgotten or repeated for ever |
| Model router `llm.py` | remaining calls of the current step budget | `step_budget`, `complete_structured`, `_repair`, `_call` | a repair needs a second call; nested budgets; exceptions | the number of calls is bounded, the budget is reset |
| LEAP proof graph `leap/graph.py` | SQLite tables: OR nodes, AND nodes and children, proof dependencies, leases, attempts, runs | register, lease, commit a direct proof, commit a decomposition, pause, activate, propagate | several workers, expired leases, stale results, crashes | no cycles, proved stays proved, a proved goal rests on proved goals, propagation is complete |
| LEAP search `leap/controller.py` | per worker: the stack of goals, budgets, support pool | `prove`, `_solve_or`, `_solve_and`, direct, decomposition | depth-first search over a graph others change; exceptions unwind through leases | it ends, returns every lease, never recurses into a goal on its stack, reports `proved` only with a final module |
| LEAP materializer `leap/render.py` | none | topological order, rendering | the selected proofs may have changed since they were verified | dependencies first, no cycle |
| Lean verifier `leap/lean.py`, `leap/sorry.py` | none durable | `check_code`, `check_sketch` | time limits, placeholders in comments and strings | accepted means complete and placeholder-free |
| Experimenter `experimenter/*.py`, `agents/experiment.py` | a Docker container, its manifest and mount sentinel, run directories | `ensure_running`, `exec`, `run`, replication | stale mounts, containers that disappear | a result is observed only if two runs agree byte for byte |
| Literature library `literature/index.py`, `agents/literature.py` | ledgers of papers and statements, SQLite index with aliases | import, alias resolution, rebuild, extraction | two stores for one fact; merge of aliases; crash between them | a paper has one identity; the index follows the ledgers |
| Literature I/O, retrieval, command line, schemas, prompts | the files of a paper | HTTP, PDF text, ranking, parsing | what is written before it is known to fit | a file belongs to the paper of its directory |

**Interaction.** `engine.py` builds one kernel with its store, router and subsystems. `kernel.run` holds
the workspace lock, and calls `propose` and `execute` of one subsystem per step inside a model-call
budget of the router. The proof subsystem runs LEAP's `SearchController`, whose graph lives in its own
SQLite database with its own transactions and leases (it can also be started by `tcs-research prove`,
without the kernel's lock); the experiment subsystem drives a Docker container; the literature
subsystem imports into its own ledgers and index. Records are the only channel between subsystems.

## 2. Plan

1. **Kernel** (`ResearchKernel`, `ResearchJournal`, `ResearchKernelInvariant` and two proof modules): done.
2. **LEAP proof graph** (`ProofGraph`, `ProofGraphProofs`): the tables as variables, one action per
   transaction, for a most general client: done.
3. **LEAP search** (`LeapSearch`, `LeapSearchProofs`, `LeapLeaseProofs`): the controller's depth-first
   search for several workers over `ProofGraph`: done.
4. **One proof attempt** (`ProofAttempt`, `ProofAttemptProofs`): what `LeapSearch` takes as a verdict or
   an answer, with the model budget, the repair call, Lean's failures and the proof subsystem: done.
5. **Evidence policy** (`EvidencePolicy`): the verdicts on receipts, as operators of the three modules that
   admit evidence: done for quotes, Lean artifacts and executions.
6. **Literature library** (`LiteratureLibrary`, `LiteratureLibraryProofs`): ledgers, files and index, one
   step per write: done.
7. **Experimenter** (`ExperimentContainer`, `ExperimentContainerProofs`): container, directory, sentinel and
   two processes, one step per docker command or write of the sentinel: done.
8. Left: receipts of source metadata, the theory subsystem, the literature subsystem's continuation
   cursors, torn ledger rows, and concurrent commands on one library (section 9).

Abstract specifications: `ResearchJournal` for the kernel and `ProofGraph` for the search.

## 3. The kernel model

`ResearchKernel.tla` has a variable for each durable file (`task`, `stateFile`, `versions`, `actions`,
`records`, `actorState`), one for the lock, and for each process a program counter `pc`, its in-memory
`KernelState` `mem` and the local variables of its step `job`. Every statement of the code that writes
a file is an action of its own; everything the code computes between two writes is part of the action
that follows. `Runners` execute `ResearchKernel.run`; `Viewers` execute `ResearchEngine.status`. `Spec` is
the specification of runs alone; `StatusSpec` adds the steps of the viewers.

| Code | Actions |
|---|---|
| `run` 101-120 | `StartRun`, `Wake`, `EndStep`, `EndRun` |
| `initialize` 50-99 | `Load`, `Create`, `AppendVersion`, `Adopt` |
| `_recover_interrupted` 252-269 | `Recover`, `Interrupt`, `Clear` |
| `_step` 122-222 | `OfferTurn`, `Yield`, `Propose`, `Activate`, `SkipDuplicate`, `SaveDuplicate`, `Begin`, `Execute`, `Screen`, `EndScreen`, `AppendRecord`, `SaveActor`, `CommitAction`, `SaveCommit` |
| the handler 223-243 | `Raise`, `FailAction`, `SaveFailure` |
| `status` | `StartStatus`, `Report` |
| environment | `Crash`, `EditTask` |

Subsystems are external: `propose` returns nothing or an action of any fingerprint, `execute` any
sequence of drafts from `Drafts`, with or without a state patch and an error. `Raise` may happen at
any program counter of the `try` block, with every in-memory state the code can have reached by then.

**Assumptions.** A write that raises has not happened; an append or a replacement that returned is
durable; rows are never torn (two of them are hazards listed for a later module). Identifiers are
fresh. An exception outside the `try` block leaves `run` and is a `Crash`. A record is identified by
its position in the ledger. What a subsystem keeps in its file (`actorState`) is the list of what it has
handled, cut to the newest `MaxRemembered` entries as the code cuts it (`Recent`: `[-100:]` in experiment.py
and proof.py, `[-50:]` in literature.py, `[-30:]` in theory.py). The cycle counter, events, telemetry, reports and run directories are left
out: no decision reads them.

**Fairness.** `FairSpec` has weak fairness for every process: its next statement is executed in the
end, which the code justifies because subsystems and model calls run under time limits and nothing
waits for another process (the lock is tried, not awaited). Users are assumed to start a run now and
then (`WF(StartRun)`); crashes and edits are not fair.

### Runs

| Run | Instance | Shows |
|---|---|---|
| `kernel_safety` | 2 runs, 1 subsystem that keeps 2 entries, 3 actions of the same work, batches of up to 2 drafts, a crash | the typing, `CommittedOnce`, `RecordsUnique`, `OutcomeNamesRecords`, `OnlyDeadInterrupted`, `NoLostUpdate` and the refinement of `ResearchJournal` |
| `kernel_progress` | 1 run, selections of 2 and 1 subsystems, a crash, an edit | runs end, begun actions settle, edits are noticed (liveness), and `CursorDurable` |
| `kernel_status` | a run and a status command, no crash | the fourth disagreement below: `OnlyDeadInterrupted` is violated |

Why the bounds are enough: three actions of one fingerprint are needed for "interrupted, repeated,
duplicate"; two drafts for a batch that is half written, that duplicates itself or that has a parent
within reach; two steps so that a run meets the leftovers of its own first step; one crash so that the
second run meets the leftovers of the first. Two crashes add nothing but the repetition of recovery,
which is idempotent in the invariant. One subsystem suffices for safety because nothing in a step
depends on how many there are; the cursor is exercised with two and with a change of the selection. Three
actions also overrun the 2 entries a subsystem keeps, so that an old one is forgotten.

### What is proved

`ResearchKernelProofs` proves `Spec => []TypeOK` for all constants. `KernelSafetyProofs` proves that
`KernelInv` is inductive for runs alone (`Spec`), from which follow `CommittedOnce`, `RecordsUnique`,
`ParentsEarlier`, `RecordsOwned`, `OutcomeNamesRecords` and `RunningIsActive` for any number of
processes, actions, drafts, crashes and edits. It also proves `TerminalForever` and
that the kernel implements `ResearchJournal`. `KernelInv`, `ParentsEarlier`, `RecordsOwned`,
`RunningIsActive` and `TerminalForever` are proved and no longer part of a run; the refinement, which
`kernel_safety` checks, implies the second and the last.

The properties themselves are not inductive: that an outcome is committed once follows only because
nothing else can be committed between the duplicate check and the outcome row. `KernelInv` therefore
says, for each program counter, what the state file, the memory of the process and the ledgers have in
common (`Phase`), what is known of the batch under way (`Batch`), that whoever runs holds the lock
(`LockInv`) and that an action without an end has no verdict (`OpenUndecided`).

Three properties of a step need less or something else:

* `CursorDurable`: `SyncInv` lists the program counters at which the memory of a process and the state file
  agree (`Synced`); the ends of steps are among them.
* `OnlyStatusInterruptsTheLiving` is about `StatusSpec`, with status commands beside the runs: if the verdict
  "interrupted" falls on an action some process is executing, the one that writes it is a status command.
  A run recovers under the lock, which every executing process holds (`Serial`); so
  `OnlyDeadInterrupted` holds among runs alone, and `kernel_status` shows that it does not hold beside status.
* `NoLostUpdate`, also for `StatusSpec`: a subsystem's patch is computed from a view that was read before
  its action was proposed. While it works, the file is still what the view showed (`ViewInv`), as there is
  one runner past the lock; so the list that is written is the one in the file with the new entry, cut to
  the newest. That old entries fall off the end is what the code intends; that a concurrent one would be
  overwritten is what could go wrong.

`KernelInv` itself does not survive a status command, which is why the other theorems are about `Spec`:
they say nothing of a workspace that is first initialized by `status` while a run starts. The theorems
assume only the named assumptions of `ResearchKernel`.

Only model-checked: the liveness properties (`RunEnds`, `RunningSettles`, `EditNoticed`), as temporal
proofs with fairness are out of the prover's reach.

### Disagreements with the documentation

Four were met while modelling the kernel; the run `kernel_status` shows the last.

* A run stops as idle after failed, duplicate or recordless actions too (kernel.py:112, 233), not only
  when "every enabled subsystem yields once" (src/README.md:65).
* An action can be marked failed "before a research record was committed" (kernel.py:230) after its
  records were appended, since the handler also covers the writes that follow them.
* After a crash between the row of a new task revision (kernel.py:76) and the state that counts it
  (kernel.py:96), a further edit gives one revision number two texts.
* `ResearchEngine.status` initializes a workspace without a state file outside the lock (engine.py:90)
  and then marks the action of a live run interrupted, though ARCHITECTURE.md says that this happens
  when a process dies and that a lock protects the state.

## 4. The LEAP models

### The proof graph

`ProofGraph.tla` models `leap/graph.py`: `orStatus` and `andStatus` are the status columns ("absent"
for no row), `proof` is `proof_kind` with `selected_and_id`, `deps` the dependencies of direct proofs,
`lease` and `expired` the lease table and its clock. Decompositions are records that carry what their
row would: parent, required children in order, anticipatory children and cited lemmas. Goals are
identified, as in the code, by the fingerprint of their proposition.

| Code (`leap/graph.py`) | Action |
|---|---|
| `register_goal` 192-249 | `RegisterGoal` |
| `acquire_lease` 315-336 | `AcquireLease`, `RefuseLease` |
| `release_lease` 338-347 | `ReleaseLease` |
| `commit_direct_proof` 352-390 | `CommitDirect` |
| `commit_decomposition` 392-511 | `CommitDecomposition`, guarded by `Acceptable` |
| `pause_and`, `activate_and`, `propagate` 513-567 | `PauseAnd`, `ActivateAnd`, `PropagateAll` |

Every call is one SQLite transaction, so one action; a call that raises is rolled back and is no step.
The rounds of `_propagate` are the least fixed point `Saturation`, defined without recursion so that
theorems can speak of it; which of several complete decompositions a goal selects depends on their age,
and the model takes any. The caller is the most general one, so what holds here holds for every caller.

### The search

`LeapSearch.tla` models `leap/controller.py` over the graph. A worker is one call of `prove`; its
`stack` holds one frame per activation of `_solve_or`, whose field `at` is the program counter.

| Code (`leap/controller.py`) | Actions |
|---|---|
| `prove` 110-179 | `Start`, `Assemble`, and `Raise`/`Unwind` for exceptions |
| `_solve_or` 181-241 | `Enter`, `Lease`, `Partition`, `Priority`, `Deferred`, `Status`, `Leave` |
| `_solve_and` 260-270 | `Activate` (and the second half of `Priority`, `Deferred`), `Child`, `Judge`, `Pause` |
| `_attempt_deterministic` 272-315 | `Tactics`, `Close` |
| `_attempt_direct` 317-432 | `Prove`, `Commit` |
| `_attempt_decomposition` 434-645 | `Blueprint`, `CountNodes`, `Expand` |
| environment | `Crash`, `LeaseEnds` |

Model answers, reviews and Lean's verdicts are nondeterministic, with one exception that matters: Lean
refuses a module that declares a name twice, so a proof of `g` cannot cite a lemma whose own
declarations include `g` (`Citable`, with `Cone` and `Materializes` for `leap/render.py`). Wherever the
code asks the time or depth budget, the model may find it spent. Leases are longer than the wall-clock
budget, so only dead workers see theirs expire; a step that hangs in a compilation may outlast one all the
same, and `Slow` has the workers to which that may happen. A worker in `Slow` can come back to a goal that
another has leased since, and its release must then not take the other's lease. The node budget is compared
with a count taken before the transaction that adds the children (controller.py:619), so counting
(`CountNodes`) and committing (`Expand`) are two steps.

**Fairness.** `FairLeapSpec`: a worker takes its next step in the end. Model calls and compilations
have timeouts, a refused lease is not awaited, and transactions wait for each other for at most the
busy timeout; crashed workers are not restarted by fairness, and starting a search is not fair.

### Runs

| Run | Instance | Shows |
|---|---|---|
| `graph_safety` | 3 goals, 2 lease owners, 6 decompositions of which 3 must be refused in some or all states | the invariants and action properties of the graph for any order of calls |
| `search_pair` | 2 workers side by side on goals sharing a lemma, one of which may die or outlive its leases, 3 nodes allowed | the search works under leases, returns its own and no other, exceeds the node budget by one decomposition at most, ends |
| `search_alone` | 2 searches one after the other for one goal, 5 goals, 4 nodes allowed | selected proofs stay in order, no successful tactic is skipped |
| `mutual_citation`, `verified_tactic_lost` | | the two disagreements below |

Why the bounds are enough: three goals make the shortest chain, a shared lemma and a cycle that closes
through an anticipatory child; two lease owners, which no property of `graph_safety` tells apart (hence
the symmetry), make a holder and a rival. Depth 2 makes a child of a child, the first place
where a goal may return to the stack. In `search_pair` one blueprint per goal and depth 1 suffice to make
and leave a branch; three nodes are the two roots and one child, so that each search finds room before the
other's child is there and the budget is exceeded. In `search_alone` two let a goal pause one branch and open another, and the second
search resumes what the first left paused or, after an exception, solving. The node budget of 4 is met
exactly by the longer branch and exceeded by the anticipatory child.

### What is proved

`ProofGraphProofs` proves for every set of goals, workers and decompositions:
`NoDecompositionCycle`, `ProofsSupported`, `PropagationComplete`, `ProvedForever`, `NoLeaseStolen`,
`FoundedUnlessReplaced` and the typing. The inductive invariant `GraphInv` joins the typing,
`NoDecompositionCycle`, `ProofsSupported` and `PropagationComplete` with one fact they lack: the lemmas
that a present decomposition cites are proved, so that it may be selected at any later time. The
argument about cycles (`AcyclicExtends`): what the children of an accepted decomposition reach is
closed under all edges and avoids its parent, so a set of goals without a minimal member would have
one already inside, or already outside, that closed set in the old graph. `Saturation` is shown
once to be the least settled set; every transaction that propagates then has the same outcome, stated
in the lemma `PropagateOutcome`.

`FoundedUnlessReplaced` says exactly how far the code's promise of acyclic proofs goes: only replacing
the proof of a goal that is already proved can close a cycle. `FoundedReplaced` adds when even that is
harmless: if the proof of the goal rests on lemmas none of which rests on the goal (its `Cone` avoids it),
the proofs stay in order. A single search at a time always does so (`SequentialFounded` below);
`mutual_citation` shows that two side by side do not.

`LeapSearchProofs` proves about any number of searches that the variables have their types and
`NoRuntimeRecursion`. Since the steps of the search that change the graph are written with the actions of
`ProofGraph`, what is proved of the graph holds for the search; that is used here as a lemma and is not a
result about the code.
(`NoRuntimeRecursion`, `ProvedForever` and `NoLeaseStolen` are proved and not part of a run.)
The inductive invariant `StackInv` says of each stack what the transactions need and the guard against
recursion looks for: a frame has in hand a branch of its own goal, which the graph holds from `activate`
on; each outer frame waits for a required child of its branch; no two frames that are past `enter`
share a goal. It needs `Present` to grow only, which `GraphInv` and the refinement give. That no goal
is ever on a stack twice then follows from `NoDecompositionCycle`: the goals between the two frames
would be a set without a minimal member.

`LeapLeaseProofs` proves `WorksUnderLease` and `LeasesReturned` from `LeaseInv`, which ties the two ways:
a worker outside `Slow` has the lease of every goal it is in the middle of, a lease belongs to a worker
in the middle of the goal or to a dead one, and only the late and the dead have expired leases. Each
transaction on leases is followed once (`LeasesKept`, `LeaseAcquired`, `LeaseRefused`, `LeaseReleased`);
the stages of the search are then sorted by what they do to `Held`, the goals of the leased frames.

`WithinNodeBudgetHolds` is about any number of searches side by side. The code's comment says that the
expansion limit is enforced "transactionally" (controller.py:68-69); it is not: the count (controller.py:619)
and the commit (controller.py:623) are two transactions and no lock is taken, so the plain bound is violated
by two searches. What the code does guarantee, and `WithinNodeBudget` says, is that the excess is what the
other searches put in after a count of theirs: if from the rows one takes away, for every worker but one, one
root or the children of one decomposition, the rest is within the budget. `BudgetInv` is the argument: of all
workers between count and commit, the last one to count had room for its own children and saw everything but
what the others had counted before. The theorem needs `FiniteBeginning`: a graph with finitely many goals, and
blueprints that name finitely many.

The last two properties are about searches of which one starts after the other has ended
(`OneAfterAnother`: of two workers one is the other's `Earlier`, as in `search_alone`; side by side they are
violated, by the runs below). `TurnInv` says that nobody starts before the earlier ones have ended (`Turns`), and that what a
search has found out about the graph and relies on is still so (`Foresight`):

* `SequentialFounded` (`SelectedFounded`): at the commit of a direct proof the lemmas it cites are proved and
  none rests on the goal, as when they were chosen, so that `FoundedReplaced` applies.
* `SequentialSkips` (`OnlyFailedSkipped`): the row of an attempt that closed its goal is followed by the
  proof before another search looks (`SkipInv`). It needs `Mortal = {}`: the search that dies between the
  two is the run `verified_tactic_lost`.

Only model-checked: `SearchEnds`, as liveness is out of the prover's reach.

### Disagreements with the documentation

* `mutual_citation`: two concurrent searches (`tcs-research prove` takes no workspace lock) make two
  proved goals cite each other; their final modules cannot be ordered any more, although the LEAP
  README says that graph commits reject cycles.
* `verified_tactic_lost`: a deterministic tactic is skipped because its attempt is recorded, although
  it closed the goal and the search died before the proof was committed; the code's comment speaks of
  failed tactics only.
* Without a run of its own: the node budget is not enforced "transactionally" (controller.py:68-69), as said
  above; in the instance of `search_pair` two searches that count before either commits bring the graph to
  four nodes where three are allowed.

## 5. One proof attempt

`LeapSearch` takes the answers of the model and the verdicts of Lean as given. `ProofAttempt.tla` models
what lies below: one invocation of the prover for one goal, from the proposal of the proof subsystem (or
the command `prove`) to the admission of the theorem. `f` holds the local variables of the attempt under
way; `left` is the budget of the router, `built` and `manifest` the Lake project, `rows`, `proof` and
`environments` what the graph keeps of the goal, `final` the final module, `attempted` the subsystem's
state. `posted`, `compiled` and `again` count what the properties are about.

| Code | Actions |
|---|---|
| `ProofSubsystem.propose`, `execute` (`core/builtins/proof.py`) | `Begin`, `Choose`, `Finish`, `Fail` |
| `complete_structured`, `_repair`, `_consume_call_budget`, `step_budget` (`llm.py`) | `Ask` (with `Consume`, `Post`), `Begin`, `Return` |
| `environment_fingerprint`, `_build_once`, `check_code`, `_run` (`leap/lean.py`), placeholders (`leap/sorry.py`) | `Fingerprint`, `Refuse`, `Compile`, `LeanFails` |
| `prove`, `_attempt_deterministic`, `_attempt_direct`, `_attempt_decomposition`, `_materialize_and_verify` (`leap/controller.py`) | `Register`, `Tactics`, `Direct`, `Formal`, `Candidate`, `Judge`, `Commit`, `Blueprints`, `Sketch`, `Review`, `Assemble` |
| environment | `Crash` |

A body is sound, wrong, or has a placeholder that the scanner finds (`Visible`) or that only Lean warns
about (`Veiled`). An answer of the model validates, does not, or is an error of the transport; every
control-flow consequence of each is a disjunct of `Ask`. The one place where the code asks for a revision
outside its handler of model errors (controller.py:364) goes to `f.escape`.

Run `attempt`: one tactic, a body of each kind, one attempt of each kind with one revision, six calls,
two invocations, a fault of Lean and a crash. Two invocations are what it takes to resume; the six calls
run out in the middle of every kind of attempt, in a repair as well. It shows `CallsWithinBudget`,
`ProvedIsChecked`, `CheckedOnce` (Lean is asked again only where a crash came before the row) and
`OneEnvironment` (the build that makes the manifest comes before the hash is taken).

`ProofAttemptProofs` proves all five of its properties for any bodies, limits, faults and crashes. The
invariant `AttemptInv` says what holds of the frame wherever control may arrive (`At`, `Control`), so
that a candidate that is committed has been accepted in the same frame; that what was sent and what is
left make up the budget (`Budget`); and, for `CheckedOnce`, that the questions put to Lean without a row
in the graph, and not on their way to one, are at most as many as the crashes that asking again has not
used up yet (`Asked`): repeating one takes it from that set, a crash adds one.

## 6. The literature library

`LiteratureLibrary.tla` models the literature service: the ledgers `papers`, `candidates` and
`statements`, the files `pdf` and `txt` of each citation key, and the four tables of the index, `ixPaper`,
`ixAlias`, `ixText`, `ixStmt`. One call runs at a time, in a process that may die between any two
writes; `call` holds its local variables. A PDF is named by the source that served it, a text by the PDF
it comes from, so that a text under the wrong paper shows.

| Code (`agents/literature.py` unless named) | Actions |
|---|---|
| constructor, `rebuild` (`literature/index.py`) | `Begin`, `Clear`, `ReplayPaper`, `ReplayText`, `ReplayStatements`, `Rebuilt` |
| `import_url`, `import_arxiv`, `import_doi` and the fetchers | `Lookup`, `Fetch`, `FetchFails` |
| `import_paper`, `_merge_duplicate_paper_metadata`, `_update_paper_record` | `Register` (with `Existing`, `Merge`), `AppendPaper`, `Upsert`, `Passages` |
| `extract_pdf_text` | `PdfText`, `PdfTextFails` |
| `_queue_candidates`, `import_candidate` | `Queue`, `Queued`, `ImportCandidate`, `CloseCandidate` |
| `extract_paper`, `extract_from_text`, `_append_flat_statement_rows` | `Read`, `Extract`, `WriteStatements` |
| `search_papers` and the admission of quotes | `Query`, with `QuoteStatus` of `EvidencePolicy` |
| environment | `Crash` |

Run `library`: a preprint, its journal version and a third paper whose citation key collides with the
second's, one served from a URL; titles of which two are alike; three calls and a crash. Three calls are
what it takes to import, import something that overlaps, and read or query the result; a call may itself
import two candidates. It shows that papers with a common identifier are one (`OneRecordPerIdentity`, as
long as no call has died), that the index has what a rebuild would put there (`IndexMirrorsLedger`), that
what it answers with is in the ledger, crash or not (`IndexFromLedger`), that merging loses nothing
(`NothingForgotten`) and which statements can become evidence (`CitableUnlessWrapped`).

The last one rests on three ways of comparing a quote with a text. Extraction collapses the white space of
what it finds (agents/literature.py:1050; `Collapsed`), the index validates a statement by comparing with
white space collapsed on both sides (literature/index.py:665; `Located`), and the evidence policy needs the
quote as it stands in the file (core/policy.py:119; `QuoteStatus`). `Wrapped` are the sources whose
statement goes over a line break; the collapsed quote is then another string than the text. Every statement
that has just been indexed, by an extraction or by a rebuild, and is of the current text is validated; it is
admitted as evidence exactly when its source is not in `Wrapped`. A statement over a line break is thus
offered as validated and always refused, which the run has in one of its three sources. At other moments
between calls even this is false: after a call that died between ledger and index, or after a text that
changed from one PDF to another and back, an old row of the index has the right words and the hash of the
wrong text. The hypotheses of these properties are where the code makes no promise: a
call that died between the ledger and the index leaves an index that is behind until it is rebuilt.

Proved (`LiteratureLibraryProofs`), for any sources, works, requests and number of crashes: all six
properties of the run, from `SourceAssumption` (no identifier is both an arXiv id and a DOI, and `None` is
none), `WorkAssumption`, `RequestAssumption`, `NoRowIsNone` and `WrappedAssumption` (a collapsed quote is no
other text). `LibraryTyping`, `IndexNeverAhead`
(`IndexFromLedger`) and `PapersOnlyGrow` (`NothingForgotten`) follow from the invariant
`LibraryInvariant`, which says what the properties leave open:

* `Ledger`: paper ids are `1..n`, rows of one paper have one key, every paper and every key has a last row.
  `AllBacked`: a text is that of the paper's own PDF; without this, extraction could replace one text by
  another and a paper would lose a file.
* `Mirrored`: up to row `n`, the index has each paper's last row, with `n` the whole ledger between
  writes, all but the new row at "upsert", and the rows read so far during a rebuild. Only this makes the
  row a merge starts from the latest one.
* `At`: the row in hand at each label. At "append" it `Fits`: it has a known id or the next one, the key of
  its paper, and while the index mirrors the ledger everything the paper's last row has.

A step appends in one place, so that `PapersOnlyGrow` is `Fits` at that place; `IndexNeverAhead` needs that
the row at "upsert" is the one just appended.

`IndexMirrors` (`IndexMirrorsLedger`), `OneRecord` (`OneRecordPerIdentity`) and `CitableUnlessWrappedHolds`
(`CitableUnlessWrapped`) are about the history of all imports. They follow from `LibraryInvariant` and
`IndexInvariant`, inductive together (`IndexInductive`), with one part for each table:

* `AliasInv`: as far as the index has the ledger (`Reach`, which counts through a rebuild and lags by one
  row at "upsert"), every identifier of a row is an alias and leads to the first paper that named it; other
  aliases are citation keys of merged papers, and the row about to be written has none of those.
* `UniqueInv`: as long as no call has died, rows that share an identifier or a discovered work are of one
  paper (`Unique`), the row about to be appended shares with its own paper only (`Alone`), and the work of
  the candidate being imported has no paper (`Unopened`). `AliasInv` is what makes `Existing` find the paper.
  A merge needs most: what is fetched has a DOI or an arXiv id but never both, so the identifier that `Fill`
  may add is one that was looked up first and that no paper has.
* `TextInv`: the passages of a paper are those of its text, except while they are on their way, and unless
  another paper has the same PDF, whose extraction would replace the text.
* `StatementInv`: statements are of recorded papers, a rebuild has indexed some of them and has the rest to
  do, and an extraction is one paper ahead of the ledger. Two papers with one citation key would make
  `_append_flat_statement_rows` and the index drop different rows; `UniqueInv` excludes them. That two texts
  have different quotes (`CollapsedTellsApart`) makes the text a statement was found in the only one it is
  validated against.

The steps that touch neither papers nor texts nor statements are sorted once by where they lead
(`OrdinaryGoes`), so that each part has a lemma about them and one for every other write.

Disagreement with the documentation, `misattributed_quote`: the fetcher writes `paper.pdf` under the
citation key it has made before the library finds that another paper has that key; a sentence of the
second paper is then quoted as one of the first. Met as well, without a run: a rebuild forgets the
citation keys of merged papers (index.py:54, only `add_alias` knows them), although the index calls
itself rebuildable from canonical artifacts (index.py:23).

Left out: `metadata.json`, authors, years, venues and abstracts, sources served as plain text, full-text
ranking, extraction by the model, the aliases nothing looks up, and methods that nothing calls. Two
commands at once on one library are not modelled: the CLI takes no lock, and the code promises nothing.

## 7. The experimenter

`ExperimentContainer.tla` models the container of a workspace and what two processes without a lock
between them, the kernel's experiment action and a command of the CLI, do with it. `dir` is the inode of
`.experimenter/workspace`, `token` what the mount sentinel in each directory says (its inode, nothing yet,
or `Empty`), `box` the container with the inode it has mounted; `runs` are the run directories, `job` the
local variables of each process. A container is absent, running or exited; nothing in the code pauses one.

Every `ensure_running` rewrites the sentinel, and without a lock (docker_project.py:184-196): the directory
is made and looked up (`Dirs`), the file opened, which empties it (`Stamp`), and the token written (`Write`).
Another process may read it in between, in the container or under its path. An open file outlives a
directory that is removed or archived meanwhile, so `Write` goes to the file that was opened.

| Code | Actions |
|---|---|
| `ensure_running`, `_container_state`, `_container_healthy` (`experimenter/docker_project.py`) | `Dirs`, `Stamp`, `Write`, `DirsFail`, `Inspect`, `Mount`, `Probe`, `Compare`, `Replace` |
| `stop`, `reset` | `StopRunning`, `Rmtree` |
| `ExperimentRunner.run` (`experimenter/runner.py`) | `Prepare`, `Exec`, `Ends`, `Collect` |
| `ExperimentSubsystem.execute` (`core/builtins/experiment.py`) | `Implement`, `Judge`, with `ExecutionStatus` of `EvidencePolicy` |
| the CLI | `Begin`, `Return`, `Archive` (`doctor --archive-legacy`) |
| environment | `Dies`, and every docker command may be refused, fail, or time out before or after its effect |

Run `experiments`: the kernel and one CLI process, one program that may answer differently each time, two
commands, one fault and one archiving. Two commands put two processes into `ensure_running` at
the same time; a fault and a move are enough for a container that mounts what is no longer there. It shows
that a container that is handed out mounts the current directory (`EnsuredIsCurrent`), that undisturbed
commands succeed (`UndisturbedSucceeds`), that processes do not kill each other's programs unless asked to
(`NoProgramKilled`) and that an observed experiment has been executed twice (`ObservedTwice`).

The first three hold but for the sentinel. A process that compares while one of the two tokens is empty is
`torn` (for that `ensure_running`), and `misread` says that this has happened to anyone. Without these
exceptions TLC finds, with docker working and nobody asking for anything:

* a process that has just made a container reads the sentinel while another is rewriting it, finds the
  container unhealthy, discards it and raises (lines 63-67) - against `UndisturbedSucceeds`;
* a process finds the container unhealthy in the same way and stops it (line 52) after another has found it
  healthy and started its program - against `NoProgramKilled`.

The properties with the exceptions say that nothing else leads there. The exception in `EnsuredIsCurrent` is
for two tokens that are both read empty, which compare equal, whatever the container has mounted: a process
reads the old directory's sentinel, left empty by one that died between the two writes, and another is
rewriting the new one. That takes more processes or commands than the run has, so the run does not need this
exception; the proof does.

Proved (`ExperimentContainerProofs`), for any number of processes, programs, commands, faults and moves: all
five properties, each from the part of the invariant it needs:

* `TypeInv`: what a process holds at each of its stages.
* `RunsInv`: the runs of an experiment are different ones of its own program and of nobody else's, a kept
  result is what the run wrote, and an admitted record has two runs that kept its output (`ObservedTwice`).
* `BoxInv`: what an undisturbed process knows of the directory, its sentinel and the container, and at which
  stages it can be when docker has done all it was told (`EnsuredIsCurrent`, `UndisturbedSucceeds`). A sentinel
  never names a directory made later than its own, so equal tokens that are not empty mean the same directory.
* `CalmInv`: while nobody asks to stop, docker works, the directory stays and nobody has read a sentinel that
  was being rewritten, there is one directory, the container is on it, and no process is on its way to remove
  it (`NoProgramKilled`).

They assume that `None` is neither a program nor a container. A workspace that has been moved before the
first command is an initial state only if the instance has moves (`MaxMoves > 0`).

Left out: building the image, the manifest, file copies, logs, and the class of a failure.

## 8. Fairness, proofs and what only TLC shows

Fairness is assumed only of the kernel and of the search (sections 3 and 4). The models of sections 5 to 7
state safety only: their loops are bounded by counters, and what they wait for (model, Lean, docker,
network) has timeouts, which are failures of the command in the model.

Proved for all values of the constants: every invariant, action property and refinement of the passing
runs, under the hypotheses that sections 3 and 4 name. Model-checked only: the liveness properties
`RunEnds`, `RunningSettles`, `EditNoticed` and `SearchEnds`, since the prover has no rules for fairness and
ENABLED. Assumptions are the named ones of each module.

## 9. Not modelled

* `core/context.py` and `core/report.py` project the ledgers into text; the theory subsystem asks the
  model and returns drafts, which the kernel model takes in any form.
* `literature/openalex.py`, ranking and retrieval, PDF parsing, prompts, argument parsing and the record
  types keep no state, or state no decision reads.
* Receipts of source metadata and the status of model-authored records, a table without steps.
* Torn rows and the encoding of ledgers; telemetry; run directories; the `proof_runs` row of a search.
