----------------------------- MODULE Scheduler -----------------------------
(***************************************************************************)
(* `gid execute` (crates/gid-core/src/harness/scheduler.rs, called by      *)
(* cmd_execute of crates/gid-cli/src/main.rs): plan, then work off the     *)
(* layers, each in chunks of max_concurrent sub-agents with a git worktree *)
(* each; verify, merge or replan.  `gid stop` is a process of its own that *)
(* shares .gid/execution-state.json with it, unlocked.                     *)
(*                                                                         *)
(* The scheduler saves the graph after every change of it, so `graph` is   *)
(* the saved graph and the one in memory alike.  One step of the model is  *)
(* what happens between two effects that others can see or that survive a  *)
(* kill: a saved graph, a saved execution state, a worktree, a merge.      *)
(***************************************************************************)
EXTENDS Topology

CONSTANTS
  Offers,          \* new tasks the LLM may propose: [id, depends_on]
  MaxConcurrent,   \* config.max_concurrent
  MaxReplans,      \* config.max_replans
  MaxRetries,      \* config.max_retries
  HasPool,         \* whether there is an auth pool when a failure is analysed
  HasGuards,       \* config.invariant_checks is not empty
  MaxExecutions,   \* bound: `gid execute` commands in one behaviour
  MaxStops,        \* bound: `gid stop` commands in one behaviour
  MaxCrashes,      \* bound: executions killed in one behaviour
  NoTask, NoStop

ExecStates ==
  [status : {"idle", "running", "completed", "cancelled"}, cancel_requested : BOOLEAN]

ASSUME SchedulerAssumption ==
  /\ Offers \subseteq [id : TaskIds, depends_on : SUBSET Ids] /\ IsFiniteSet(Offers)
  /\ MaxConcurrent \in Nat \ {0} /\ MaxReplans \in Nat /\ MaxRetries \in Nat
  /\ HasPool \subseteq BOOLEAN /\ HasGuards \in BOOLEAN
  /\ MaxExecutions \in Nat /\ MaxStops \in Nat /\ MaxCrashes \in Nat
  /\ NoTask \notin Ids /\ NoStop \notin ExecStates

VARIABLES
  pc,               \* what the scheduler is about to do
  plan_deps,        \* TaskInfo.depends_on of the planned tasks
  cur,              \* the layer being worked on
  eligible,         \* tasks of the layer that no chunk has taken yet
  chunk,            \* tasks of the chunk to be prepared
  task,             \* the task whose worktree is being created, or merged
  prepared,         \* tasks whose sub-agents were spawned, results to come
  tasks_completed,
  tasks_failed,
  replan_count,     \* Replanner.replan_count
  retries,          \* retry_counts
  exec_state,       \* the scheduler's ExecutionState
  exec_disk,        \* .gid/execution-state.json
  stop,             \* the ExecutionState that a `gid stop` has loaded, or NoStop
  worktrees,        \* tasks that have a worktree and a branch
  executions, stops, crashes,   \* commands and kills so far
  asked,            \* history: a stop was acknowledged during this execution
  merged            \* history: tasks whose work is on the main branch

cursor == <<pc, cur, eligible, chunk, task, prepared>>
counters == <<tasks_completed, tasks_failed, replan_count, retries>>
commands == <<executions, stops, crashes>>
vars == <<graph, planVars, plan_deps, cursor, counters, exec_state, exec_disk, stop,
          worktrees, commands, asked, merged>>

IdleState == [status |-> "idle", cancel_requested |-> FALSE]

-----------------------------------------------------------------------------
\* graph with the tasks of S in status s.
WithStatus(S, s) ==
  [graph EXCEPT !.status = [i \in Ids |-> IF i \in S THEN s ELSE @[i]]]

Goto(l) == pc' = l

\* The process is over, and its memory with it.
Leave ==
  /\ Goto("idle")
  /\ plan' = "none" /\ depth' = 0 /\ queue' = {}
  /\ layer' = [t \in Ids |-> 0] /\ plan_deps' = [t \in Ids |-> {}]
  /\ cur' = 0 /\ eligible' = {} /\ chunk' = {} /\ task' = NoTask /\ prepared' = {}
  /\ tasks_completed' = 0 /\ tasks_failed' = 0 /\ replan_count' = 0
  /\ retries' = [t \in Ids |-> 0]

plans == <<planVars, plan_deps>>
others == <<exec_state, exec_disk, stop, worktrees, commands, asked, merged>>

-----------------------------------------------------------------------------
\* `gid execute` is typed: the graph is loaded and create_plan called.
Execute ==
  /\ pc = "idle" /\ executions < MaxExecutions
  /\ executions' = executions + 1
  /\ StartLayers(graph) /\ Goto("planning")
  /\ UNCHANGED <<graph, plan_deps, cur, eligible, chunk, task, prepared, counters, exec_state,
                 exec_disk, stop, worktrees, stops, crashes, asked, merged>>

PlanLayer ==
  /\ pc = "planning" /\ NextLayer
  /\ UNCHANGED <<graph, plan_deps, cursor, counters, others>>

\* create_plan returns; a command whose plan failed ends with the error.
PlanEnds ==
  /\ pc = "planning" /\ EndLayers
  /\ \/ /\ plan' = "planned" /\ Goto("starting")
        /\ plan_deps' = [t \in Ids |-> IF t \in Placed THEN graph.deps[t] ELSE {}]
     \/ /\ plan' = "cyclic" /\ Goto("idle")
        /\ UNCHANGED plan_deps
  /\ UNCHANGED <<graph, cur, eligible, chunk, task, prepared, counters, others>>

\* Mutant of BeginRunning: an old request to cancel is not cleared.
BeginRunningStale ==
  /\ pc = "starting"
  /\ exec_state' = [exec_disk EXCEPT !.status = "running"] /\ exec_disk' = exec_state'
  /\ worktrees' = {} /\ asked' = FALSE
  /\ cur' = 1 /\ Goto("layer")
  /\ UNCHANGED <<graph, plans, eligible, chunk, task, prepared, counters, stop, commands,
                 merged>>

\* execute_plan, before the layers.  cleanup_stale takes the worktrees of all
\* tasks away; what git fails to remove is only logged, and stays.
BeginRunning ==
  /\ pc = "starting"
  /\ exec_state' = [status |-> "running", cancel_requested |-> FALSE]
  /\ exec_disk' = exec_state'
  /\ worktrees' \in SUBSET worktrees
  /\ cur' = 1 /\ Goto("layer")
  /\ asked' = FALSE
  /\ UNCHANGED <<graph, plans, eligible, chunk, task, prepared, counters, stop, commands,
                 merged>>

\* Mutant of Cancelled: the tasks a crash left in progress are forgotten.
CancelledInPlace ==
  /\ pc = "layer" /\ cur <= depth /\ exec_disk.cancel_requested
  /\ exec_disk' = [exec_disk EXCEPT !.status = "cancelled"] /\ exec_state' = IdleState
  /\ Leave
  /\ UNCHANGED <<graph, stop, worktrees, commands, asked, merged>>

\* The state is reloaded at the start of a layer: a request to cancel is seen.
Cancelled ==
  /\ pc = "layer" /\ cur <= depth /\ exec_disk.cancel_requested
  /\ graph' = WithStatus({i \in Ids : graph.status[i] = "in_progress"}, "todo")
  /\ exec_disk' = [exec_disk EXCEPT !.status = "cancelled"] /\ exec_state' = IdleState
  /\ Leave
  /\ UNCHANGED <<stop, worktrees, commands, asked, merged>>

LayerTasks == {t \in Ids : layer[t] = cur /\ graph.status[t] # "done"}
Unmet(t) == \E d \in plan_deps[t] : ~ Satisfied(graph, d)

\* Mutant of BeginLayer: the dependencies are taken for granted.
BeginLayerUnchecked ==
  /\ pc = "layer" /\ cur <= depth /\ ~ exec_disk.cancel_requested
  /\ exec_state' = exec_disk
  /\ eligible' = LayerTasks
  /\ Goto("chunk")
  /\ UNCHANGED <<graph, plans, cur, chunk, task, prepared, counters, exec_disk, stop,
                 worktrees, commands, asked, merged>>

\* Otherwise the layer's tasks that are not done are eligible or blocked; the
\* saves between two blocked ones are left out, all of them are planned again.
BeginLayer ==
  /\ pc = "layer" /\ cur <= depth /\ ~ exec_disk.cancel_requested
  /\ exec_state' = exec_disk
  /\ LET blocked == {t \in LayerTasks : Unmet(t)} IN
       /\ graph' = WithStatus(blocked, "blocked")
       /\ tasks_failed' = tasks_failed + Cardinality(blocked)
       /\ eligible' = LayerTasks \ blocked
  /\ Goto("chunk")
  /\ UNCHANGED <<plans, cur, chunk, task, prepared, tasks_completed, replan_count, retries,
                 exec_disk, stop, worktrees, commands, asked, merged>>

-----------------------------------------------------------------------------
\* The next max_concurrent tasks of the layer, in the order of their names.
TakeChunk ==
  /\ pc = "chunk" /\ eligible # {}
  /\ \E C \in SUBSET eligible :
       /\ \/ Cardinality(C) = MaxConcurrent
          \/ C = eligible /\ Cardinality(C) < MaxConcurrent
       /\ chunk' = C /\ eligible' = eligible \ C
  /\ Goto("prepare")
  /\ UNCHANGED <<graph, plans, cur, task, prepared, counters, others>>

\* A task of the chunk is marked and saved as in progress ...
MarkInProgress(t) ==
  /\ pc = "prepare" /\ t \in chunk
  /\ graph' = WithStatus({t}, "in_progress")
  /\ chunk' = chunk \ {t} /\ task' = t /\ Goto("create")
  /\ UNCHANGED <<plans, cur, eligible, prepared, counters, others>>

\* ... and its worktree created, which fails when the branch is still there.
CreateWorktree ==
  /\ pc = "create"
  /\ \/ /\ task \notin worktrees
        /\ worktrees' = worktrees \cup {task} /\ prepared' = prepared \cup {task}
        /\ UNCHANGED <<graph, tasks_failed>>
     \/ /\ graph' = WithStatus({task}, "failed") /\ tasks_failed' = tasks_failed + 1
        /\ UNCHANGED <<worktrees, prepared>>
  /\ task' = NoTask /\ Goto("prepare")
  /\ UNCHANGED <<plans, cur, eligible, chunk, tasks_completed, replan_count, retries, exec_state,
                 exec_disk, stop, commands, asked, merged>>

\* The scheduler saves its execution state, with the active tasks, as it has
\* loaded it at the start of the layer; the sub-agents are spawned.
Spawn ==
  /\ pc = "prepare" /\ chunk = {}
  /\ exec_disk' = exec_state /\ Goto("process")
  /\ UNCHANGED <<graph, plans, cur, eligible, chunk, task, prepared, counters, exec_state, stop,
                 worktrees, commands, asked, merged>>

-----------------------------------------------------------------------------
\* The result of task t is taken, in the order of the chunk.
Take(t) == pc = "process" /\ t \in prepared /\ prepared' = prepared \ {t}

\* cleanup: git's failures are ignored.
Cleanup(t) == worktrees' \in {worktrees, worktrees \ {t}}

\* The spawn or the verification fails: the worktree goes, the task has failed.
TaskFails(t) ==
  /\ Take(t)
  /\ graph' = WithStatus({t}, "failed") /\ tasks_failed' = tasks_failed + 1
  /\ Cleanup(t)
  /\ UNCHANGED <<plans, pc, cur, eligible, chunk, task, tasks_completed, replan_count, retries,
                 exec_state, exec_disk, stop, commands, asked, merged>>

\* Mutant of MergeFails: the failed merge is only logged.
MergeFailsSilently(t) ==
  /\ Take(t)
  /\ graph' = WithStatus({t}, "done") /\ tasks_completed' = tasks_completed + 1
  /\ UNCHANGED <<plans, pc, cur, eligible, chunk, task, tasks_failed, replan_count, retries,
                 exec_state, exec_disk, stop, worktrees, commands, asked, merged>>

\* Verified, but the merge fails: the worktree stays.
MergeFails(t) ==
  /\ Take(t)
  /\ graph' = WithStatus({t}, "needs_resolution") /\ tasks_failed' = tasks_failed + 1
  /\ UNCHANGED <<plans, pc, cur, eligible, chunk, task, tasks_completed, replan_count, retries,
                 exec_state, exec_disk, stop, worktrees, commands, asked, merged>>

\* Verified and merged into the main branch ...
MergeTask(t) ==
  /\ Take(t)
  /\ merged' = merged \cup {t} /\ task' = t /\ Goto("merged")
  /\ UNCHANGED <<graph, plans, cur, eligible, chunk, counters, exec_state, exec_disk, stop,
                 worktrees, commands, asked>>

\* ... and then saved as done.
MarkDone ==
  /\ pc = "merged"
  /\ graph' = WithStatus({task}, "done") /\ tasks_completed' = tasks_completed + 1
  /\ task' = NoTask /\ Goto("process")
  /\ UNCHANGED <<plans, cur, eligible, chunk, prepared, tasks_failed, replan_count, retries,
                 others>>

-----------------------------------------------------------------------------
(***************************************************************************)
(* The sub-agent reports failure: the worktree goes, the replanner decides.*)
(***************************************************************************)

LimitReached == replan_count >= MaxReplans

\* analyze_task_failure: what may be decided, and whether it counts as a replan.
\* With an auth pool the LLM decides, or the fallback heuristics; without, a
\* reported blocker, and else the retries of the task.
Decisions(t) ==
  IF LimitReached THEN {<<"escalate", 0>>}
  ELSE UNION {IF pool THEN {<<"retry", 0>>, <<"add_tasks", 1>>, <<"escalate", 1>>}
              ELSE {<<"escalate", 0>>,
                    IF retries[t] < MaxRetries THEN <<"retry", 0>> ELSE <<"escalate", 1>>} :
              pool \in HasPool}

\* The board when the tasks of `new` come before t, which is blocked by them.
\* add_task_to_graph: a name that is there keeps its node; the new task gets its
\* dependencies, and t depends on it.
WithTasks(t, new) ==
  LET names == {n.id : n \in new} IN
    [status |-> [i \in Ids |-> IF i = t THEN "blocked"
                               ELSE IF i \in names /\ graph.status[i] = "absent" THEN "todo"
                               ELSE graph.status[i]],
     deps |-> [i \in Ids |->
                 graph.deps[i] \cup (UNION {n.depends_on : n \in {m \in new : m.id = i}})
                               \cup (IF i = t THEN names ELSE {})]]

\* Mutant of AgentFails: the task joins the chunk again, and nobody counts.
AgentFailsAgain(t) ==
  /\ Take(t) /\ Cleanup(t)
  /\ eligible' = eligible \cup {t}
  /\ UNCHANGED <<graph, plans, pc, cur, chunk, task, counters, exec_state, exec_disk, stop,
                 commands, asked, merged>>

\* A retried task goes back to todo: this execution does not come to it again.
AgentFails(t) ==
  /\ Take(t) /\ Cleanup(t)
  /\ \E d \in Decisions(t) :
       /\ replan_count' = replan_count + d[2]
       /\ \/ /\ d[1] = "retry"
             /\ graph' = WithStatus({t}, "todo")
             /\ retries' = [retries EXCEPT ![t] = @ + 1] /\ UNCHANGED tasks_failed
          \/ /\ d[1] = "escalate"
             /\ graph' = WithStatus({t}, "failed")
             /\ tasks_failed' = tasks_failed + 1 /\ UNCHANGED retries
          \/ /\ d[1] = "add_tasks"
             /\ \E new \in SUBSET Offers : graph' = WithTasks(t, new)
             /\ UNCHANGED <<retries, tasks_failed>>
  /\ UNCHANGED <<plans, pc, cur, eligible, chunk, task, tasks_completed, exec_state, exec_disk,
                 stop, commands, asked, merged>>

-----------------------------------------------------------------------------
EndChunk ==
  /\ pc = "process" /\ prepared = {} /\ Goto("chunk")
  /\ UNCHANGED <<graph, plans, cur, eligible, chunk, task, prepared, counters, others>>

\* Checkpoint, guards and extraction: a failed checkpoint or guard is only
\* logged, a guard that cannot be run ends execute_plan with an error.
EndLayer ==
  /\ pc = "chunk" /\ eligible = {}
  /\ \/ /\ cur' = cur + 1 /\ Goto("layer")
        /\ UNCHANGED <<plans, eligible, chunk, task, prepared, counters, exec_state>>
     \/ HasGuards /\ Leave /\ exec_state' = IdleState
  /\ UNCHANGED <<graph, exec_disk, stop, worktrees, commands, asked, merged>>

\* After the last layer: the state as loaded for that layer is saved as completed.
Complete ==
  /\ pc = "layer" /\ cur > depth
  /\ exec_disk' = [exec_state EXCEPT !.status = "completed"] /\ exec_state' = IdleState
  /\ Leave
  /\ UNCHANGED <<graph, stop, worktrees, commands, asked, merged>>

Crash ==
  /\ pc # "idle" /\ crashes < MaxCrashes /\ crashes' = crashes + 1
  /\ Leave /\ exec_state' = IdleState
  /\ UNCHANGED <<graph, exec_disk, stop, worktrees, executions, stops, asked, merged>>

-----------------------------------------------------------------------------
\* `gid stop` loads the execution state; it goes on if there is one to stop ...
StopLoads ==
  /\ stop = NoStop /\ stops < MaxStops /\ exec_disk.status = "running"
  /\ stop' = exec_disk /\ stops' = stops + 1
  /\ UNCHANGED <<graph, plans, cursor, counters, exec_state, exec_disk, worktrees, executions,
                 crashes, asked, merged>>

\* ... and saves it with the request, telling the user that it was made.
StopSaves ==
  /\ stop # NoStop
  /\ exec_disk' = [stop EXCEPT !.cancel_requested = TRUE]
  /\ stop' = NoStop /\ asked' = TRUE
  /\ UNCHANGED <<graph, plans, cursor, counters, exec_state, worktrees, commands, merged>>

-----------------------------------------------------------------------------
\* What the scheduler does by itself.
SchedulerStep ==
  \/ PlanLayer \/ PlanEnds \/ BeginRunning \/ Cancelled \/ BeginLayer \/ TakeChunk
  \/ CreateWorktree \/ Spawn \/ MarkDone \/ EndChunk \/ EndLayer \/ Complete
  \/ \E t \in Ids : \/ MarkInProgress(t) \/ TaskFails(t) \/ MergeFails(t) \/ MergeTask(t)
                    \/ AgentFails(t)

Next == Execute \/ SchedulerStep \/ Crash \/ StopLoads \/ StopSaves

Init ==
  /\ PlanInit
  /\ pc = "idle" /\ plan_deps = [t \in Ids |-> {}]
  /\ cur = 0 /\ eligible = {} /\ chunk = {} /\ task = NoTask /\ prepared = {}
  /\ tasks_completed = 0 /\ tasks_failed = 0 /\ replan_count = 0 /\ retries = [t \in Ids |-> 0]
  /\ exec_state = IdleState /\ exec_disk = IdleState /\ stop = NoStop /\ worktrees = {}
  /\ executions = 0 /\ stops = 0 /\ crashes = 0
  /\ asked = FALSE /\ merged = {i \in Ids : graph.status[i] = "done"}

Spec == Init /\ [][Next]_vars

\* The scheduler is scheduled, and the sub-agents and git commands it awaits end.
FairSpec == Spec /\ WF_vars(SchedulerStep)
-----------------------------------------------------------------------------
Labels == {"idle", "planning", "starting", "layer", "chunk", "prepare", "create", "process",
           "merged"}

\* Types, with the limit on replans (replanner.rs) and the loop over the layers.
SchedulerTypeOK ==
  /\ PlanTypeOK
  /\ pc \in Labels
  /\ plan_deps \in [Ids -> SUBSET Ids]
  /\ cur \in 0..(depth + 1)
  /\ eligible \subseteq TaskIds /\ chunk \subseteq TaskIds /\ prepared \subseteq TaskIds
  /\ task \in TaskIds \cup {NoTask}
  /\ tasks_completed \in Nat /\ tasks_failed \in Nat
  /\ replan_count \in 0..MaxReplans /\ retries \in [Ids -> Nat]
  /\ exec_state \in ExecStates /\ exec_disk \in ExecStates
  /\ stop \in ExecStates \cup {NoStop}
  /\ worktrees \subseteq TaskIds /\ merged \subseteq Ids
  /\ executions \in 0..MaxExecutions /\ stops \in 0..MaxStops /\ crashes \in 0..MaxCrashes
  /\ asked \in BOOLEAN

\* A sub-agent starts from the main branch, and finds there what its task builds
\* on: the tasks of the plan that it depends on are done, and merged.
WorkStartsReady ==
  \A t \in (prepared \cup {task}) \cap Ids : \A d \in plan_deps[t] \cap Placed :
    graph.status[d] = "done" /\ d \in merged

\* A task that the saved graph shows as done has its work on the main branch,
\* whatever was killed in between.
DoneMeansMerged == \A t \in TaskIds : graph.status[t] = "done" => t \in merged

\* When the execution state says that the execution is over, no task is left in
\* progress, not even one that a killed execution had left behind.
NoOrphanInProgress ==
  exec_disk.status \in {"completed", "cancelled"} =>
    \A t \in TaskIds : graph.status[t] # "in_progress"

\* No task counts twice: total_tasks - tasks_completed - tasks_failed, which the
\* Cancel event reports, does not underflow.
CountersFit == tasks_completed + tasks_failed <= Cardinality(Placed)

\* An execution is only cancelled for a `gid stop` that was made during it.
NoUnrequestedCancel == exec_disk.status = "cancelled" => asked

\* What the scheduler does on the board is the life of its tasks.
Lifecycle == INSTANCE TaskLifecycle WITH
  status <- graph.status,
  needs <- [t \in Ids |-> plan_deps[t] \cap Placed]

ImplementsLifecycle == Lifecycle!Spec

\* With sub-agents that end, an execution ends, by itself or killed.
ExecutionEnds == (pc # "idle") ~> (pc = "idle")
=============================================================================
