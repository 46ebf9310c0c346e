# Verification of graph-indexed-development

TLA+ models of `gid` (crates `gid-core`, `gid-cli`, `gid-mcp`), the TLC runs
that check them on small instances, and TLAPS proofs of what holds for every
instance. Paths below are relative to `src/`; `engine.rs`, `state_machine.rs`,
`v2_executor.rs` are under `crates/gid-core/src/ritual/`, `scheduler.rs`,
`topology.rs`, `replanner.rs` under `crates/gid-core/src/harness/`, `main.rs` is
`crates/gid-cli/src/main.rs`.

    tlc -config RitualEngine_one.cfg MCRitualEngine      # one run
    tlapm RitualEngineProofs.tla                         # one proof module

## 1. The system

`gid` keeps a project's features, tasks and code in one graph on disk and offers
three things on top of it: *rituals* (a development process cut into phases, most
of them carried out by an LLM), *execution* of the task graph by LLM sub-agents in
git worktrees, and *extraction* of a code graph that is queried, searched and
analysed. Every command is a process of its own. The processes share files under
`.gid/` and the git repository, and there are no locks between them.

### Components, the state they keep, what they do

| Component | State | Operations | Correct when |
|---|---|---|---|
| Ritual engine v1 (`engine.rs`, `definition.rs`, `approval.rs`, `artifact.rs`) | `.gid/ritual-state.json`: status, current phase, a state, a retry count and artifacts per phase; in memory the artifact manager | `new`, `resume`, `run`, `approve`, `skip_current`, `cancel` | phases are settled in order and stay settled; no work behind a gate that nobody approved; a killed command is picked up where it was; every command ends |
| Ritual state machine v2 (`state_machine.rs`) | `RitualState` | `transition(state, event)` | exactly one action under way unless the ritual is over or waits; retries bounded; reviews go to the document at hand; Done only after a verification |
| v2 executor (`v2_executor.rs`, `scope.rs`, `gating.rs`, `composer.rs`) | none of its own | one event for each event-producing action; `run_ritual`, the loop | the events fit the action; the loop ends by itself |
| Planning (`topology.rs`, `planner.rs`) | a plan | `compute_layers`, `critical_path`, `create_plan` | layers respect dependencies, are the earliest possible; fails only on tasks that cannot be ordered |
| Scheduler (`scheduler.rs`, `replanner.rs`, `verifier.rs`, `worktree.rs`, `execution_state.rs`) | task statuses in the graph, `.gid/execution-state.json`, worktrees and branches, counters | `execute_plan`, `analyze_failure`, `verify_task`, `create`/`merge`/`cleanup`/`cleanup_stale`, `gid stop` | tasks start on top of what they depend on; done means merged; an execution ends, leaves no task behind in progress, and stops when it is asked to |
| Graph store (`storage/`, `graph.rs`, `parser.rs`, `history.rs`) | `graph.db` or `graph.yml`, history snapshots | load, save, migrate, snapshot, restore, and the graph edits of the CLI | an edit neither loses nor mixes what others wrote; a migration fails without a trace or succeeds whole |
| Code graph (`code_graph/`, `unify.rs`, `watch`) | code nodes and edges, `extract-meta.json`, the LSP cache | full and incremental extraction, reference resolution, merge with the project layer, LSP daemon | an incremental extraction is as good as a full one; code and project layer do not disturb each other |
| Inference (`infer/`) | components and features in the graph | `gid infer`: cluster the files, name the clusters by an LLM, merge the result | each file in one component; the budget kept; the user's work untouched; no run feeds on the one before |
| Queries, advice, contexts (`query.rs`, `validator.rs`, `advise.rs`, `complexity.rs`, `harness/context.rs`) | none | pure functions over the graph | agree with each other and with their definitions |
| `gid-mcp` | none | runs `gid` and returns what it prints | |

### How they interact

* A `gid ritual` command loads the ritual state, drives a `RitualEngine` in memory
  and writes the *whole* state back at each save: two commands overwrite each other.
* The v2 state machine returns an action, the executor answers with an event, and
  the consumer (the loop `run_ritual`, or a program with a user in front of it,
  which DESIGN-ritual-v2.md section 7 describes and `src/` does not hold) feeds the event
  back. An action is not stopped when an event supersedes it; its answer comes late.
* `gid execute` plans from the graph, then the scheduler saves the graph after each
  change and shares `execution-state.json` with `gid stop`: both load it, change it
  and write it back. Sub-agents run concurrently within a chunk, each in its worktree;
  their results are worked off in the order they come in.
* The watcher, `gid extract`, `gid infer` and every editing command load the graph, change it and
  save it whole, in `graph.yml` or in `graph.db`, whichever is found.
* An extraction with `--lsp` asks language servers through a daemon: a thread of the
  first such extraction, over a Unix socket.

### What is hard

The list with its lines is in `PROJECT.json` under `hazards`. In short: unlocked
read-modify-write of three shared files; commands that are killed between two
saves; answers that arrive after the state moved on; three retry budgets that feed
each other; counters that are unsigned; work that is skipped, retried or replanned
in the middle of a plan made before; results of an earlier extraction, inference or migration
that the next one takes for facts; servers that are late, cold or gone with another process.

## 2. The modules

**Rituals**

| Module | Models | Code |
|---|---|---|
| `RitualEngine` | the v1 engine and the four commands on it; each command is a process; a step is what happens between two saves, or one execution of a phase | `engine.rs`, `main.rs` |
| `RitualStateMachine` | `transition`, one action for each match arm | `state_machine.rs` |
| `V2Executor` | which events may answer which action, and the documents a skill may write | `v2_executor.rs` |
| `RunRitual` | the loop `run_ritual`: state machine and executor, no user | `v2_executor.rs` |
| `RitualSession` | state machine and executor with a user who types anything at any time, and late answers | `state_machine.rs`, DESIGN-ritual-v2.md |
| `RitualPhases` | what a phase may read, write and run, when its executor reports success, the shipped rituals and the composed one | `scope.rs`, `gating.rs`, `executor.rs`, `template.rs`, `composer.rs` |

**Execution of tasks**

| Module | Models | Code |
|---|---|---|
| `Topology` | planning, one step for each turn of Kahn's loop; `critical_path` as a recursive function | `topology.rs`, `planner.rs` |
| `Scheduler` | `gid execute` with its planning, crashes at any step, `gid stop` next to it | `scheduler.rs`, `replanner.rs`, `worktree.rs`, `execution_state.rs`, `main.rs` |
| `TaskLifecycle` | the abstract specification: what the life of a task on the board may look like | |
| `ContextAssembly` | what an agent is given to read: a task's context, and `gid context` under its budget | `harness/context.rs` |

**The graph and its store**

| Module | Models | Code |
|---|---|---|
| `ProjectGraph` | operators from graphs to graphs: nodes, edges, features and tasks, references, refactorings | `graph.rs`, `refactor.rs` |
| `GraphCommands` | what each editing command saves, given what it loaded: `Outcomes(g, c)` | `main.rs` |
| `GraphStore` | processes that load, edit and save `graph.yml` or `graph.db`, and the history | `storage/`, `parser.rs`, `history.rs` |
| `Migration` | `gid migrate` beside those commands | `storage/migration.rs`, `main.rs` |
| `Traversal` | the queries that follow edges: impact, dependencies, paths, the topological sort, and whether an edge would close a cycle | `query.rs`, `validator.rs` |
| `GraphQueries` | the cycles of the validator, validation, advice, drawing, and the query commands | `validator.rs`, `advise.rs`, `visual.rs`, `main.rs` |
| `TaskViews` | the graph of a plan as the queries, the assembly of contexts and the phases of a ritual find it | |

**Code**

| Module | Models | Code |
|---|---|---|
| `CodeGraph` | operators: what a file defines, what its calls and references resolve to, full and incremental extraction, bridges to the project layer | `code_graph/extract.rs`, `code_graph/lang/`, `unify.rs` |
| `CodeSync` | the watcher, `gid extract`, a developer and a user's command over one store | `watch.rs`, `main.rs`, `extract.rs` |
| `LspClient` | one client of a language server: numbered requests, answers that come late | `lsp_client.rs` |
| `LspRefinement` | `gid extract --lsp` in several processes, and the daemon in one of them | `code_graph/build.rs`, `lsp_daemon.rs` |
| `CodeQueries` | impact, related tests, causal chains, failures, relevance, complexity | `code_graph/query.rs`, `analysis.rs`, `test_analysis.rs`, `complexity.rs`, `working_mem.rs` |
| `FileClusters` | the network of files, and components from any division of it | `infer/clustering.rs` |
| `Inference` | `gid infer` from load to save, with an LLM and with others who change the graph meanwhile | `infer/` |

`MC*` hold the constants of the runs, `*Proofs` the theorems of the module they
extend: `StoreProofs` those of `GraphStore` and `Migration`, `SchedulerProofs` those of `Topology`
and `Scheduler`, `LspProofs` those of `LspClient` and `LspRefinement`, `RitualV2Proofs` those of the
state machine, `RitualSession` and `RunRitual`, `InferenceProofs` those of `FileClusters` and `Inference`.
`SequenceLemmas` has the facts about sequences and finite sets that three of them need.

Composition: `RunRitual` and `RitualSession` extend `V2Executor`, which extends
`RitualStateMachine`. `Scheduler` extends `Topology` and instantiates
`TaskLifecycle` under a refinement mapping. `GraphCommands` extends `ProjectGraph`,
`GraphStore` extends `GraphCommands`, `Migration` extends `GraphStore`; `Traversal`,
`ContextAssembly` and `FileClusters` extend `ProjectGraph` too. `CodeSync` extends
`CodeGraph`, `LspRefinement` extends `LspClient`, `Inference` extends `FileClusters`.
`Traversal`, `GraphQueries`, `CodeQueries`, `ContextAssembly` and `RitualPhases` keep no state.
`TaskViews` extends `Topology` with `Traversal` and `ContextAssembly`, instantiates `RitualPhases` (as `Rituals`) and states
what they must answer of the graphs that planning runs on, so that theorems can be about it;
`MCTopology` instantiates `GraphQueries` and `CodeQueries` (as `Q` and `C`), which use recursive operators, and
evaluates them on the same graphs.

### How state and actions correspond to the code

**RitualEngine.** `disk` is the file, `eng[p]` the `RitualEngine.state` of process
`p`, `manager[p]` its artifact manager, `files` the output files in the project.
`pc[p]` says where the process is: `top` is the head of the loop in `run()`,
`phase` the point after the gate check, `executing`/`executed` around
`execute_phase`, `returned` back in the command, `prompt` at a yes/no question.
`nested` tells the `run()` that `approve()` calls from the one the command calls.
A step that saves sets `disk'` to what it puts into `eng'`. `Crash` drops a process
between any two steps, or, where the next step may save (`MaySave`), between the truncation and the
write of that save, which leaves a file that no command can read (`Torn`). Resuming (`Resumed`) does
what `resume` does to a Running phase; a command that finds no state, or one it cannot read, ends (`RefuseCommand`). `done` and `approved` are history: what really ran and what somebody approved.

**RitualStateMachine.** The fields of `RitualState` that an arm reads are variables;
texts, tokens and the log of transitions are left out. `action` is the
event-producing action that was returned; notifications and saves are left out
since nothing reads them back. Arms are taken in the code's order: a catch-all arm
has the negation of those above it as its guard.

**RunRitual, RitualSession.** `Executed(a, e)` says that the executor may end action
`a` with event `e`. The loop applies it at once. The session may be interrupted by
the user, and keeps the superseded action until it answers. At the loop's limit `GiveUp` applies a
SkillFailed and `FinalActions` executes what it led to, whose event is dropped.

**Topology and Scheduler.** A graph is the status and the `depends_on` of every id,
`absent` for one that is not there. `pc` of the scheduler names the place between
two effects: `layer` (head of the loop), `chunk`, `prepare`/`create` (in progress,
saved, then the worktree), `process` (a result is awaited), `merged` (merged, not yet saved
as done). `exec_state` is the copy in the scheduler's memory, `exec_disk` the file,
`stop` the copy in a `gid stop` between its load and its save. `merged` is history:
what is on the main branch.

**GraphStore, Migration.** A graph is the function from its ids to their nodes, and a
set of edges. `yml` is what `graph.yml` parses to: while it is written it is empty, and an empty file
parses to an empty graph. A kill may leave it so, or with a beginning of what was to be written, which parses to
a part of the graph (`Cuts`) or does not parse (`yml_file` = "torn"). `db` is what a reader of `graph.db` sees. `pc[p]` names the place of process `p`: `load` (the backend is
detected), `ids`/`nodes`/`edges` (the reads of `load_graph_from_sqlite`, one for each
statement, between which others may commit), `edit` (one of the `Outcomes` of its
command), `save` (the ids to delete are asked for), `commit` (the transaction, which
foreign keys may refuse), `name` and `description` (the project's metadata, saved after it), `write` (YAML).
History and `migrate` have places of their own. `base` and `clean` are history: what the store held
when a command began, and whether anybody else has written since.

**CodeSync.** `meta` is what `extract-meta.json` remembers, `store` the graph in
either file. A sync reads the metadata, then the files, extracts, writes the metadata, loads the
graph, puts its code layer in and saves it, and any of the other processes may act
between two of these. An empty `graph.yml` is an empty graph to a command; a sync takes one it cannot read for
empty, too. A directory's modules are `Above` it. `entered`, `overlapped` and `missed` are history.

**LspRefinement.** Each process is one `gid extract --lsp`: for each language it connects
to the daemon, starts it as a thread of its own, or starts a server itself; then
it goes through the call edges (`pass`, `todo`), asks, waits, and applies what
it learnt. A connection is a sequence of requests that were sent and of answers on their way: over
the daemon they carry no number. `late` bounds the time-outs, those of the daemon itself included. The look for a
daemon is three steps, exists, connect and remove (`IsDaemonRunning`), between which another may bind the socket.
`cut` is history: which edges were removed for which language.

**Inference.** `mem` is the graph that was loaded, `graph` the one on disk. The steps
follow the code: network, Infomap's division (any), orphans, splits, the hubs'
component, names, features, merge and save. The LLM's answer is one of those `Answers`
and `Named` allow, which contain the unreadable and the invented. `spent` counts what the
prompts that were really sent cost.

**Pure parts.** The queries, contexts and phases are operators with the names of the
code's functions. Where the code returns a list whose order or choice depends on a hash
table or on the order of the edges, the operator returns the set, or uses CHOOSE.

## 3. The runs

Ten runs that pass and two that do not; the sizes are distinct states.

| Run | States | Question and result |
|---|---|---|
| `engine_one_command` | 68 K | One command at a time, any of the six, killed at any step, in the middle of a save too, and typed again. Copies are coherent, gates hold, phases that were finished stay so while the file is not torn, every command ends or waits at its prompt. |
| `ritual_loop` | 154 K | `run_ritual` from every project with every answer, under the code's limit of 50 and one of 12 that cuts it. The action fits the phase, Done means verified after the last change, and the loop needs at most 25 turns. |
| `ritual_session` | 802 K | A user types up to three events anywhere; two failures; two late answers. The ritual never stalls silently, reviews are aimed at a document, the project is known past detection, and no document gets more than two rounds. |
| `topology` | 71 K | Planning over every graph of three tasks and another node: layers in order and as many as the critical path has tasks (`LayersFit`), planning fails only on a real obstacle. On the same graphs: the traversals agree with each other and with their definitions (`TraversalsFit`), validator, advice, drawings and commands with each other, and the code queries with each other (`QueriesAgree`), contexts find all they should and keep to their budget as far as the code does (`ContextsFit`), and of the shipped rituals the phases can pass when their work is done, but for those named in section 6, and a ritual that gets through hides no plan that could not be made, no failed task and no unsaved graph (`PhasesFit`). |
| `scheduler` | 487 K | Two executions, one killed anywhere, a `gid stop` anywhere, every outcome of sub-agents, checks, git and replanning. Work starts on what it needs, done means merged, nothing left in progress by an execution that is over, no cancel that nobody asked for, the board implements `TaskLifecycle`, and an execution ends. |
| `store_editors` | 3.3 M | Two processes type three commands on one `graph.db`, every statement interleaved, one killed at any step. No dangling edge gets in, and a save that nobody disturbed is exactly its command on one of the graphs a load may return. Lost updates between the two are allowed: the code has no lock. |
| `store_migration` | 4.5 M | One process, edits, history, `init` and `migrate`, on either backend, from hand-written graphs, one crash at any step, which may leave `graph.yml` empty, cut or unreadable. A save is exactly its command on what the load gave; a migration that reports success has everything that `graph.yml` parses to in the database, and a backup; a restore has what it replaces in the history first. |
| `code_sync` | 219 K | The watcher, an extraction by hand, a developer and a user's command, with a crash. Tasks and links survive as long as nobody saves in the middle of another's work, no code edge dangles, the metadata tells what was extracted, and the watcher catches up with the files. |
| `lsp_refinement` | 336 K | Two extractions, the second over the first's daemon or on its own; servers that do not start, are not ready or are late. Without a time-out on its connection nobody gets the answer to another's question, and both extractions end. |
| `infer` | 88 K | `gid infer` twice over four files, flat and hierarchical. Every file ends in one component, the budget is kept, what is inferred is not fed on by the next run, the user's nodes and edges stay, and an edge dangles only when the code was extracted into a copy. |
| `migration_failed` | | Violation: a refused migration is not without a trace. Section 6. |
| `infer_hierarchy` | | Violation: a split renumbers clusters that others refer to. Section 6. |

Three further configurations are kept beside the runs, two to reproduce what section 6 says of them and one
for the theorem on the edges that are spared (`LspOnlyCallsRefined`), with two languages:

    tlc -config LspRefinement_calls.cfg MCLspRefinement  # NoOtherEdgeTouched is violated
    tlc -config LspRefinement_two.cfg MCLspRefinement    # OnlyCallsRefined holds
    tlc -config CodeSync_guard.cfg MCCodeSync            # ExtractKeepsTasks is violated

### Bounds, and why they are enough

* Engine: three phases are a phase before a gate, the gate and a phase behind it; the
  constants give three of the four failure strategies (the fourth, abort, does what escalate
  does), the three approval requirements and the skip conditions a phase. Four commands and two crashes allow start, crash,
  resume, crash, resume, approve. `MaxCommands` and `MaxCrashes` are only there
  to make the state space finite, and the theorems hold for any values and any number of processes.
* Loop: unbounded but for the limit of the code. Session: three user events reach
  every pair of interruptions of one action, e.g. skip, then retry; `MaxFailures`
  and `MaxLate` bound the executor's side.
* Topology: three tasks make a chain of three layers, a diamond without its end, every
  cycle and the mixed cases; the fourth name is a node of another type. Queries run once on each
  shape. Contexts: targets {t1} and {t1, t3}, budgets of 100, 135 and 170 tokens, so that
  pieces are taken whole, cut and dropped, and documents of up to four headings. Phases:
  projects with any of seven files, templates in either of two directories.
* Scheduler: three tasks with two boards (a fan-out; a chain whose middle was left in
  progress by an earlier execution), one task that replanning may add, chunks of two.
  One replan and one retry reach each limit and go past it.
* Store: with two processes (`store_editors`) one graph, with two edges that a load makes one of, and four commands, which delete, add, link
  and rename the same nodes; three of them let one process commit twice within a load or a save of the
  other. `store_migration` has one process, with graphs as people write
  them: a node without a type, an edge to nowhere, an unknown relation, an edge twice. A history of two
  is pruned by the third snapshot. One crash, and commands typed after it.
* Code: a Rust file with two contents (with and without a type) and a Python file with a subclass,
  each of which may be deleted; `MaxEvents` = 4 allows two changes and an extraction by hand, or a command, or a kill.
* LSP: two processes are the one that starts the daemon and one that finds it, or both
  starting one. One change of the files, one time-out.
* Inference: four files in three directories and two functions make clusters of every
  size, orphans, a hub and a split; two runs and one change by others let a result
  be read again. The budget of 30 tokens ends in the middle of the naming.

### Fairness

* `RitualEngine!Fairness`: each process is weakly fair in the steps it takes by
  itself. This says that the operating system runs the process and that an
  execution of a phase ends: phases are shell commands, `gid` commands and LLM
  sessions the engine awaits. The user at the prompt is not assumed to answer,
  so `CommandsEnd` lets a command wait there.
* `Scheduler!FairSpec`: the scheduler is weakly fair, which includes that the
  sub-agents and git commands it awaits end. The code has no overall timeout for a
  sub-agent (only for the shell commands of its tools, and 30 s for the analysis of
  a failure), so a sub-agent that hangs hangs the execution: that is assumed away.
  `gid stop`, new executions and kills are not assumed to happen.
* `CodeSync`: only the watcher's own steps are weakly fair (`WatchStep`): it is a
  running process whose syncs end. Commands and extractions by hand are not assumed to go on.
* `LspRefinement!Fairness`: a process and a daemon thread that can go on do; requests
  have a time-out in the code, which the model lets happen `MaxLate` times, and are else answered. Nobody is
  assumed to start an extraction.
* The store and inference modules state no liveness: their commands are straight lines,
  and what they await (LLM, Infomap) is external.
* The two state machine modules state no liveness: `EndsByItself` bounds the
  number of turns, which is stronger, and needs no fairness.

## 4. What is proved

All theorems are proved for every value of the constants that satisfies the module's
`ASSUME`s, any number of processes, phases, tasks, retries and crashes included, but for the
hypotheses collected under *What the proofs assume*.
They are listed in `PROJECT.json` under `theorems`.

**Engine** (`RitualEngineProofs`). `TypeOK`, `EveryCopyCoherent`,
`NoWorkPastAnUnapprovedGate` and `LocalPhasesReallyRan`, for any number of processes
over the unlocked file. None of the four is inductive. The invariant `IInv` says of
*each* copy, the file and every process's memory, that it is `Good`: coherent by
itself, past no gate that is not in `approved`, with no completed local phase that is not in
`done`. Since the histories only grow, a copy that was good stays good
(`GoodMonotone`), whatever others write. That is why a lost update does no harm
here: a process writes back a copy that was good when it was read. What remains is
that each step makes a good copy out of a good one, which has a lemma for each action.
`SettledStaysSettled` needs that one command runs at a time, which is its theorem's hypothesis: two
of them overwrite each other, and the run has one process too. The rest of its invariant
(`KnowsSettled`) is that whoever runs knows what the file has settled; it ends where a kill tears the file.

**State machine** (`RitualV2Proofs`). `MachineInv` (types, never a silent stall, reviews aimed,
project known) is kept by every transition on every event (`TransitionKeeps`), so it
holds in the loop and in the session alike. The session adds `TwoRoundsAtMost`,
which needs that `rounds`, what was really reviewed, is never ahead of
`review_round` (`RoundsFollow`). The loop adds `ActionFitsPhase`, `DoneMeansVerified`
and `EndsByItself`. The last rests on a budget: iteration <= 11 - `StepsLeft` +
`RetriesUsed`, where each phase has a number of steps to the end and a failed
verification costs two; every turn either comes nearer to the end or uses up a
retry (`TurnSpends`), and at most 14 can be used. 25 is reached in the run, so
the bound is tight; `LimitNeverReached` concludes that the code's limit of 50
never cuts a ritual short.

**Planning** (`SchedulerProofs`, first part). `PlanTypeOK`, `LayersInOrder` with
`EarliestLayer`, `PlannedHasNoCycle`, `FailsOnlyIfStuck`, for every finite set of
names. The loop invariant `LoopInv` says what is placed is placed after what it
waits for and what is in the queue is ready and not yet placed. For acyclicity: a set of tasks that all
wait for each other has a member in the lowest layer, which then waits for nothing in the set. `PlanTypeOK`
contains that there are no more layers than names, hence that the loop ends.
`LayersFit` adds that the critical path, a recursion along the edges, has one task in each layer (`CriticalIs`): no task
reaches farther than the layers after its own, and from the last layer down there is one in each that reaches so far.

**Queries** (`SchedulerProofs`). `QueriesFit` is about every finite graph of `ProjectGraph`, dangling
edges and cycles included, and has nothing to do with planning; `PlanTraversals` applies it to `TraversalsFit`.
The invariant of a search (`SearchInv`, over its turns) says that what it has found are paths, those of the last turn
the longest, and that it has found more ids than it made turns unless the found are closed under the neighbours; so as
many turns as there are ids suffice. From what this leaves (`Searched`): impact and dependencies are converse,
a path found from either end has the same length, none is shorter. The sort's (`SortInv`) says that each sorted id comes once and
after all it needs, and that nothing that is stuck (`StuckIn`) is ever sorted; what is left at the end is stuck. So the sort fails just when there is one.
`CyclesForeseen` puts both together: a new edge makes such a set exactly when its end already leads to its beginning.
The two parts about sorting have the hypothesis that dependencies begin at nodes: `topological_sort` counts
ids against nodes (`query.rs:195`), and with an id that has none they do not mean what they say (section 6).

**Contexts** (`SchedulerProofs`). `EveryContextFits`: for every finite graph of nodes that have their texts (`Textual`), every set of
targets, budget and depth. What is gathered at a hop is what a walk of that length reaches, and no shorter one
(`HopIs`, `GatheredIs`); an order by score or by hop exists and has everything once (`SortingExists`). The budget is a fold of
`Fit` whose invariant says that what is left and what is taken are the budget, and that a dropped candidate was larger than
what was left (`FitKeepsInv`); that a piece is never larger than what is left (`TruncatedIs`) needs that the
least useful piece is larger than the mark of a cut (`MinUsefulAssumption`). `EverySectionIsWhole` is about every sequence of
headings: in a document in order, what lies between a heading and the next that is not below it are the headings whose numbers begin
with its own (`BetweenBegins`). `PlanContexts` concludes `ContextsFit`.

**Scheduler** (`SchedulerProofs`). `SchedInv` is the conjunction of types,
`PlanPart` (the plan is layered and stays so while it is worked off),
`WorkPart` (which tasks the cursor may hold at each `pc`), `ReadyPart` (a task
taken up has its planned dependencies done and merged), `FilePart` (what the file
may say while nobody executes, and while a stop is half made) and `ProgressPart`
(tasks in progress are exactly those in hand). From it follow types, `WorkStartsReady`,
`DoneMeansMerged`, `NoOrphanInProgress`, `NoUnrequestedCancel`. `CountersFit` needs
on top that each counted task is a different one, which `CountPart` says with
the set of tasks settled so far. `SchedulerImplementsLifecycle` is the
refinement: under the mapping status <- `graph.status`, needs <- the planned dependencies,
every step of the scheduler is a step of `TaskLifecycle` or a stutter (`LifeSteps`).

**Phases of a ritual** (in `SchedulerProofs` too, since `TaskViews` states what they do with a plan). `PlanPhases` states `PhasesFit`
for any graph, any files of a project, any paths and names of templates, and whatever the patterns with stars stand for.
The recursion of `GlobMatch` runs down the pattern: `GlobIs` names its rows, sets of places in the path, and each form of
pattern that is in use (`d/**`, a file, `**/*.x`) gets a lemma that says what path it matches, beside one for the gates' matcher
(`GatedBelow`, `GatedFile`, `GatedAnywhere`). `MatchersAlwaysAgree` compares the two, pattern by pattern (`UngatedAre`,
`GatedAre`); `GatesAlwaysFit` rests on scopes that are not full lying below `.gid` and `docs` (`NarrowScopes`), which no language gates
(`NarrowIsUngated`). `FailuresShow`, a part of `PhasesFit`, goes through the shipped rituals: each has a phase that
plans or executes, and what it must not hide keeps that phase from succeeding. `PhasesAlwaysCanPass` goes through the phases of the shipped rituals (`FullAre`, `ShortAre`) and of any composed
one (`ComposedAre`): what a phase wrote has no star and no `<feature>` left in it (`WrittenIs`), so that a required output that has one is
never found, though resolving it finds the file (`WrittenResolves`).

**Store and migration** (`StoreProofs`). `EdgesHaveEnds`, for any number of processes: a load is
many statements with others' commits between them, so that what a process holds may be a mixture of two
graphs, and an edge of it may dangle. No invariant about memory helps. What does is that the
transaction of a save is refused when it would leave a dangling edge; the steps around it
(the deletes, name and description) leave none either. `OnlyWholeEdits` is about a process that nobody
disturbed (`clean`), and there memory does matter: `LoadedInv` says at each
`pc` what has been read so far, e.g. that the edges are those of the ids asked for. A load keeps the first of the edges that
share ends and relation, and any may come first: so there is a *set* of graphs that it may return
(`Loads`), and the theorem says that what is saved is the command on one of them. What the store held when the
command began may be what a kill has left of `graph.yml`, an empty graph included: the theorem is about the command, not about that loss. `GraphsInv` says that what
is stored, loaded and remembered are graphs with all their fields, after every command
(`StoreHoldsGraphs`, with a lemma for each operator of `ProjectGraph`). For the migration,
`MigrationInv` says at each step what has been put into the new database. `MigratedIsWhole`,
`RestoreKeepsWhatItReplaces` and `EdgesHaveEnds` among migrations assume one process (`AloneAssumption`, which
`Migration` states): `gid migrate` takes no lock, and a command next to it may write the
database that is being filled.

**Code synchronisation** (`CodeSyncProofs`). `IncrementalIsFull`: when the metadata tell the truth about
the graph, the nodes that an incremental extraction leaves of the files are those of a full one, whatever was
changed, added and deleted. `NoDanglingCode` holds whoever overwrites whom, since every graph
that is held anywhere is closed (`GraphsInv`). `TasksStay` and `MetadataTellsTheTruth` exclude by
their own hypotheses that somebody saves in the middle of another's sync; their invariants (`TasksInv`, `MetaInv`)
say what a sync holds at each `pc`, and that a truncated `graph.yml`, which is read as an empty graph,
has a writer who is still there or was killed. What is left of a cut file is closed like the graph it was cut from (`CutIsSound`).

**LSP** (`LspProofs`). `OwnAnswers`, for any number of extractions, languages and daemons. A client of a server
finds its answer by its number: the answers on their way are numbered below the next request
(`IsClient`). Over the daemon there are no numbers: `ConnPart` says that on a connection on
which no answer was given up (`tardy`) there is at most the request or the answer that is waited for. `LearntPart`
carries this to everything learnt in a pass. `LspOnlyCallsRefined` is for any number of languages: the indices of the calls
are collected once, before the loop over the languages, and removing an edge moves those behind it. `GraphPart` says
where each extracted edge can be found as long as nothing before it was removed for an earlier language (`cut`), so that the indices up
to there still fit. Edges behind one that was removed are what the comment claims and the theorem leaves out (section 6).

**Inference** (`InferenceProofs`). `BudgetKept`: each prompt is counted before it is compared and
sent, so what was spent is at most what was counted (`TokensPart`). That costs are naturals at all needs that
what a run finds stays finite: clusters and trees have only files of the network in them (`FoundPart`),
components and features are finitely many (`PhasesPart`). `UserWorkKept` rests on `MergedIs`, which says what
a merge makes of *any* graph, and on `IsResult`: the phases make only nodes that are inferred
(source, type, no file) and edges that begin at one. `NoFeedback` takes one invariant more,
`IdsInv`: what is found has an id of a reserved form, which no file, nor anything in a file, has in the graph.
Then a merge leaves the files, the file of each node, the links between files and the words of their symbols as
they were (`SameFiles`), and the network is a function of these (`SameNetwork`). Without that hypothesis an
inferred feature would take over the title, and with it the words, of a symbol whose id is the same.
`EachFileOnce` and `DanglesOnlyFromCopy` rest on `FilesInv`: the clusters and what is in none of them
`Divide` the files of the network, at every step of the placement of orphans; a row of clusters has each file `Once`, and
its tree refers only to clusters of the row (`IsForest`). Splitting keeps both, for any numbers the
children get (`SplitKeeps`, on `FlattenPieces` of `SequenceLemmas`: where the pieces of a concatenation lie), so the
renumbering that breaks the hierarchy (section 6) loses no file. `ComponentsHold` carries this to components, also where two
clusters have the same id, and `PhasesEnd` to features: an edge of the result leads to a component or a
file that was worked on, and a merge adds no end that was not there (`MergedDangles`). TLC checked `FilesInv` on the states of
`infer` before it was proved. For `EachFileOnce` no file may have a reserved id, in the graph at first or in what is extracted.

**What the proofs assume.** The `ASSUME`s are on constants: finite sets of names, bounds that are naturals, graphs
and commands that have their fields (`StoreAssumption`), texts and files with a length
(`TextsAssumption`, `LinesAssumption`), questions with numbers (`AskedAssumption`), segments with stars that stand for
some names, none of them with a star or one of the directories in the patterns (`NamesAssumption`), paths without stars
(`PathsAssumption`), languages that differ (`LspAssumption`), and
each run evaluates those of its modules. Beyond them only the hypotheses named above: one command at a
time, one process, and no file with an id reserved for inferred nodes at first
(for `EachFileOnce` nor in what `--source` extracts).

**Only model-checked.** Liveness (`CommandsEnd`, `ExecutionEnds`, `WatchCatchesUp`,
`ExtractsEnd`) and `ENABLED` are out of the prover's reach. `QueriesAgree` is about recursive operators: Tarjan's
components, the depths of chains, drawings and causal chains recur on lists and stacks that grow, and their
definitions in `GraphQueries` and `CodeQueries` are declared with RECURSIVE.

## 5. What is not modelled, and why

`PROJECT.json` lists each component with its reason. Not modelled at all: LLM
conversations and their tools, LLM clients and notifiers (external; their outcomes are
choices of the models); telemetry, logs, settings and the knowledge kept for prompts (no
decision reads them back); parsing of design documents, `semantify`, the parser and ignore
patterns (functions of texts); `identity.rs` (forms of e-mail addresses and keys, used by
no command); the MCP server (runs `gid` and returns what it prints). Git, Infomap, SQLite's own
machinery, language servers and the notification of file changes are external.

Only in part: the v2 executor's effects on files (its events are there), the execution state's
list of active tasks (only shown), worktrees and verification as far as the scheduler sees
them, the sessions of the phase executors, the daemon's requests that no command sends.
The v2 state is saved but nothing in `src/` loads it again, so the session is not restarted
in the model.

Simplifications inside the modelled parts:

* **Engine, scheduler.** Saves between two blocked tasks of one layer are one step; a second
  `gid execute` at the same time is not modelled; `cleanup` of single files is per phase,
  not per path; the engine's hooks only succeed or fail.
* **Phases.** Paths by segments and commands by words, so that a prefix or a regular expression is
  the beginning of a sequence; a leading `./` and the gates' `dir/*` form are left out.
* **Store.** A node's row, tags, metadata and knowledge are read in one step; repeated ids, tags
  and edges in the YAML and the order of vectors are left out; a snapshot is written in one step;
  a busy database is a failure at the commit, like a crash there. The single-row operations and the
  SQLite snapshots are called by no command. A kill cuts `graph.yml` between nodes or edges, or where it
  no longer parses; that a node may lose its last fields, or a name its end, is left out, and so is what two writers of
  `graph.yml` that overlap leave of each other's text.
* **Queries.** Multiplicity and order of edges, repeated nodes, wording, the suggested modules of the
  advice (Infomap) and the weights of causal chains are left out, and what is cut off at a number of
  characters or chains. `would_create_cycle`, `analyze_code_graph`, `detect_code_modules`,
  `merge_relevant_code`, `build_unified_graph`, `analyze_test_failures` and the working memory
  are called by no command.
* **Contexts.** A text is its length in bytes and the lines of a file are equally long;
  characters of several bytes, glob patterns and the layout are left out.
* **Code.** A file's content is what the parser finds in it, with one function of a name;
  a package has one directory; weights, lines and layers are left out, as are the fallback on
  `code-graph.json` and ids that begin with `code_`. The metadata and `graph.yml`, and all files, are read in one step
  each; `graph.db` is loaded and saved in one step (`GraphStore` has its statements).
* **LSP.** One file per language, a version for its contents; the probes that only log, the 60 s
  hang-up and statistics are left out; a time-out may happen at any moment, `MaxLate` times,
  and other requests are answered; the daemon binds in one step.
* **Inference.** Titles are words of one piece; the second call, the change by others and the LLM's
  answers are chosen from few; the cap on features and files above 200 words are not exercised;
  `rollback` (called by nothing) and `--dry-run` are left out. A change by others
  in the middle of a run is made at its beginning, since no step before the save looks at the disk.

## 6. Where the code differs from what it says

The two violation runs:

* `migration_failed`: `gid migrate` removes the old `graph.db` before it parses and
  creates the new one before its transaction, so that a refused migration leaves no database or an empty one, which
  hides `graph.yml` (`storage/migration.rs:240`; design-migration.md:626 says "Untouched").
* `infer_hierarchy`: splitting a leaf renumbers the clusters behind it, and those above keep the old
  numbers (`infer/clustering.rs:988` against its comment on line 987): a cluster gets other parts, or is its
  own part, on which the count of its descendants does not end.

Others, met while modelling; the first two have a configuration beside the runs:

* LSP: the indices of the call edges are collected before the loop over the languages and used
  after edges were removed (`code_graph/build.rs:294`, against the comments on lines 297 and 4): the
  second language changes edges that are no calls.
* `gid watch` and `gid extract` take a `graph.yml` they cannot read for an empty one
  (`unwrap_or_default`, `watch.rs:160`, `main.rs:2142`) and save the code layer over it: the tasks are gone,
  against GUARD-1 (unified-graph/requirements.md:138).
* A `graph.yml` whose writer was killed between truncating and writing it (`parser.rs:21`, `fs::write`) is empty, and an empty
  file parses to an empty graph (`graph.rs:7-14`): the next edit succeeds and saves over it. The same kill in a
  save of `ritual-state.json` (`engine.rs:707`) leaves a file that every `gid ritual` command refuses, until it is removed by hand:
  nothing calls `clear_state`, and "Resume from persisted state (crash recovery)" (`engine.rs:169`) does not get to it.

**Rituals.**
* A failure inside `approve()` does not end `gid ritual run`, which executes the aborted phase
  again (`main.rs:3810`, `definition.rs:216`); `gid ritual approve` completes the LLM phases behind
  the gate without executing them (`main.rs:4021`, `engine.rs:103`).
* Escalated may have an action under way (`state_machine.rs:1074`, `:406`); a failed review leaves
  its round count to the next document, which gets one review only (`:779`, `:125`); retrying
  Initializing, WritingRequirements or Reviewing runs `implement` (`:1074`, DESIGN-ritual-v2.md:651).
* `gid ritual cancel` is described as cleaning up; only recorded artifacts are
  removed, and not those of a phase that was interrupted (`engine.rs:517`).
* `artifact_exists` answers from memory that is empty after a restart (`definition.rs:154`).
* `gid ritual run` on a cancelled ritual goes on to resume it and ends at once (`main.rs:4124`).
* `--auto-approve` approves only the gate the command sees, not the ones `approve()`
  meets on its way (`main.rs:3810`, RITUAL_RUN_IMPLEMENTATION.md:50); a skip typed
  meanwhile is lost (`engine.rs:701`, RITUAL_RUN_IMPLEMENTATION.md:161).
* `run_ritual` returns at paused phases, so nobody answers a clarification
  (`v2_executor.rs:968`); `skip_graph` is not honoured (`state_machine.rs:317`, `:456`);
  a skipped or failed review moves on without an approval (`:1129`, `:1170`);
  the retries of WritingRequirements are not reset (`:1040`).
* The shipped `full-dev-cycle` can never pass `research`, `draft-requirements` and `draft-design`:
  the executor looks required outputs up literally (`executor.rs:386`), while they are given as
  patterns and with `{feature}` (`definition.rs:166` says both are supported; the artifact manager
  that resolves them is not asked). The `verify` phase of every composed ritual fails too: its command
  is not in the scope's list (`scope.rs:125`, `composer.rs:195`). `PhasesFit` excepts exactly these.
* `is_path_writable` is called by nothing, and the draft-design prompts write a DESIGN.md that their scope does
  not allow; reviews and unknown phases have the full scope. A missing or malformed gating file means
  no gates. A `gid` command phase ignores its arguments; an execution phase reads only `graph.yml`, so that in
  an SQLite project it succeeds with nothing done; it succeeds when no task failed (`executor.rs:722`), though a stop may
  have cancelled some or left them undone; a failing commit of an LLM task is a success. The gates'
  `src/**` also matches `src-gen/`.

**Execution.**
* A stop made while a chunk is prepared is overwritten (`scheduler.rs:223`, `main.rs:3222`).
* `compute_layers` reports "Cycle detected" also for tasks behind a cancelled task.
* A replan decision *Retry* puts the task back to todo, but the same execution never
  meets it again, and `retry_counts` is therefore 0 whenever it is read; the same holds for
  a task that waits for tasks the replanner added.
* `gid approve` has nothing to approve: no code requests an approval.
* Worktrees of merged tasks and of tasks with conflicts are removed by the next
  execution's `cleanup_stale`, the second together with the work in them.
* `max_concurrent: 0` panics in `chunks(0)`; the model assumes at least one.
* The budget of `gid context` may be exceeded by the targets alone; signatures, documents of a piece that is cut, and
  headers are not counted (context-partitioning/requirements.md:15); a small far item
  may get in after a nearer larger one was dropped; the tests come after the callers.

**Store.**
* Foreign keys are believed off during a save and are on (`sqlite.rs:183`; the test at `:1956` confirms it): a
  graph with a dangling edge cannot be saved or migrated, against GOAL-2.9. A failed validation does not
  remove the database nor keep the description, against GOAL-2.6. Name and description are saved after the
  transaction (`storage/mod.rs:160`).
* `--backend sqlite` on a YAML project whose save is refused leaves an empty `graph.db`, which is
  preferred from then on. Two snapshots of one second overwrite each other; `history save` reads
  `graph.yml` also in an SQLite project.

**Code.**
* Incremental extraction loses the calls from unchanged files into changed ones, gives new files no
  module and no tests, and resolves without preferring the same file
  (`extract.rs:1337`; `rust_lang.rs`: "Prioritize: same file > imported > same package > global").
* A kill, or a refused save, between the metadata and the graph leaves metadata that are ahead of it (`extract.rs:1416`): later runs
  find nothing changed.
* In an SQLite project every sync is a full extraction, and one that finds no files leaves the old code
  layer; a link to code that is gone makes the database refuse every later sync. A change between the watcher's
  first sync and its registration is missed until the next (`main.rs:4226-4239`).
* The daemon never waits for a server to be ready (`wait_ready` is called by nothing), so a cold server's empty answers remove true
  calls; after a time-out over the daemon every later answer belongs to the question before; the daemon is a thread of an
  extraction and dies with it (`lsp_daemon.rs:3` says it outlives it); it answers from the contents it
  opened first; lines from 0 are compared with lines from 1.

**Queries.**
* `get_impact` stops at missing ids, `QueryEngine.impact` passes through them; `topological_sort` fails
  on dangling and self dependencies as "Cycle detected"; in an SQLite project `gid query` does not resolve references
  though `main.rs:1479` says it uses the same logic, and `topo` does not fail. A validation may exit with 1 while
  its score is 100. Causal chains: a node first met on a longer chain is not expanded on a shorter one.
  Truncating at `max_chars` may panic inside a character of several bytes.

**Inference.**
* The title and description of a user's node with an inferred id are overwritten (`integration.rs:172`, GUARD-2); user edges to
  inferred nodes vanish with each new run; hubs count every edge, though the comment says unique importers;
  fewer than two files besides hubs, and nothing is inferred; clusters below the minimum may remain after a split.
* With `--source` the code is extracted into a copy (design.md:469 says it is merged): inferred edges to it
  dangle, and an SQLite project refuses to be saved.
* `gid infer` loads, asks an LLM for minutes and saves whole (`main.rs:4314`, `:4418`): what
  was changed in between is lost.

## 7. Plan

Done: A ritual engine, B ritual v2 with its phases, C planning and scheduler, D store,
migration and code synchronisation, E LSP, F extraction and resolution, G queries, contexts and
inference. To come:

* The effects of the v2 executor on files, and design documents (`design.rs`) with the graph
  they generate.
