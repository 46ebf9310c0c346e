------------------------------ MODULE Topology ------------------------------
(***************************************************************************)
(* Planning (crates/gid-core/src/harness/topology.rs and planner.rs):      *)
(* compute_layers groups the unfinished tasks of the graph into layers     *)
(* with Kahn's algorithm, critical_path measures their longest chain.      *)
(* One step of the model is one turn of the while loop.  A graph says of   *)
(* every id which status its node has ("absent": there is no such node)    *)
(* and what it depends_on; TaskIds are the nodes of type "task".           *)
(***************************************************************************)
EXTENDS Naturals, FiniteSets, FiniteSetsExt

CONSTANTS
  Ids,       \* the names a node or a depends_on edge may use
  TaskIds,   \* the names that nodes of type "task" have
  Graphs     \* the graphs to start from

TaskStatuses == {"todo", "in_progress", "done", "blocked", "cancelled", "failed",
             "needs_resolution"}
TaskGraphs == [status : [Ids -> TaskStatuses \cup {"absent"}], deps : [Ids -> SUBSET Ids]]

ASSUME TopologyAssumption ==
  IsFiniteSet(Ids) /\ TaskIds \subseteq Ids /\ Graphs \subseteq TaskGraphs

VARIABLES
  graph,   \* the task graph
  plan,    \* "none", "layering", "planned", or "cyclic": the call has failed
  layer,   \* id -> the number of its layer, from 1; 0 if it has none (yet)
  depth,   \* layers.len()
  queue    \* the next layer

planVars == <<plan, layer, depth, queue>>

-----------------------------------------------------------------------------
\* task_ids: the tasks to plan.
Pending(g) == {t \in TaskIds : g.status[t] \notin {"absent", "done", "cancelled"}}

\* A dependency that asks for nothing any more: done, or on a node that is not there.
Satisfied(g, d) == g.status[d] \in {"absent", "done"}

\* Mutant of FirstLayer: one dependency is not counted.
FirstLayerTooSoon(g) == {t \in Pending(g) : Cardinality(g.deps[t] \cap Pending(g)) <= 1}

\* Mutant of FirstLayer: dependencies that are finished count, too.
FirstLayerTooStrict(g) == {t \in Pending(g) : g.deps[t] = {}}

\* in_degree 0: no dependency among the tasks to plan.
FirstLayer(g) == {t \in Pending(g) : g.deps[t] \cap Pending(g) = {}}

\* The tasks that all_deps_done finds unblocked by the processed ones.
Ready(g, processed) ==
  {t \in Pending(g) \ processed : \A d \in g.deps[t] : d \in processed \/ Satisfied(g, d)}

Placed == {t \in Ids : layer[t] > 0}

StartLayers(g) ==
  /\ plan' = "layering" /\ depth' = 0
  /\ layer' = [t \in Ids |-> 0]
  /\ queue' = FirstLayer(g)

\* One turn of the loop: the queue becomes a layer, and is filled again.
NextLayer ==
  /\ plan = "layering" /\ queue # {}
  /\ depth' = depth + 1
  /\ layer' = [t \in Ids |-> IF t \in queue THEN depth + 1 ELSE layer[t]]
  /\ queue' = Ready(graph, Placed \cup queue)
  /\ UNCHANGED plan

\* After the loop: tasks that were left over are reported as a cycle.
EndLayers ==
  /\ plan = "layering" /\ queue = {}
  /\ plan' = IF Pending(graph) \subseteq Placed THEN "planned" ELSE "cyclic"
  /\ UNCHANGED <<layer, depth, queue>>

\* critical_path: the tasks on the longest chain of the ones to plan, by the
\* memoised longest_from.  It recurs along the edges and does not end on a cycle.
CriticalLength ==
  LET tasks == Pending(graph)
      blocked_by(d) == {t \in tasks : d \in graph.deps[t]}
      longest_from[d \in tasks] == 1 + Max({0} \cup {longest_from[t] : t \in blocked_by(d)})
  IN Max({0} \cup {longest_from[t] : t \in tasks})

-----------------------------------------------------------------------------
\* create_plan by itself, on any of the graphs.
PlanInit ==
  /\ graph \in Graphs
  /\ plan = "none" /\ layer = [t \in Ids |-> 0] /\ depth = 0 /\ queue = {}

StartPlan == plan = "none" /\ StartLayers(graph)

PlanNext == (StartPlan \/ NextLayer \/ EndLayers) /\ UNCHANGED graph

PlanSpec == PlanInit /\ [][PlanNext]_<<graph, planVars>>

-----------------------------------------------------------------------------
\* The types of a plan; no more layers than names, so that the loop ends.
PlanTypeOK ==
  /\ graph \in TaskGraphs
  /\ plan \in {"none", "layering", "planned", "cyclic"}
  /\ layer \in [Ids -> 0..Cardinality(Ids)] /\ depth \in 0..Cardinality(Ids)
  /\ queue \subseteq Pending(graph)

\* "Layer N depends only on layers 0..N-1": whatever a planned task depends on
\* and is still to be done, is in an earlier layer.
LayersInOrder ==
  \A t \in Placed : \A d \in graph.deps[t] \cap Pending(graph) :
    d \in Placed /\ layer[d] < layer[t]

\* What critical_path counts, from every task along the tasks that wait for it, is
\* the number of layers: the longest chain has one task in each.
CriticalIsDepth == plan = "planned" => CriticalLength = depth

LayersFit == LayersInOrder /\ CriticalIsDepth

\* "Tasks enter the earliest possible layer": a task that is not in the first
\* layer depends on one in the layer right before its own.
EarliestLayer ==
  \A t \in Placed : layer[t] > 1 =>
    \E d \in graph.deps[t] : d \in Placed /\ layer[t] = layer[d] + 1

\* A plan is only made for tasks without a cycle, so that critical_path, which
\* create_plan calls next and which recurs along the edges, ends.
PlannedHasNoCycle ==
  plan = "planned" =>
    \A U \in (SUBSET Pending(graph)) \ {{}} : \E t \in U : graph.deps[t] \cap U = {}

\* Planning fails only on tasks that wait for each other, or for a node that no
\* task of the plan can finish: a cancelled task or an unfinished other node.
FailsOnlyIfStuck ==
  plan = "cyclic" =>
    \E U \in (SUBSET Pending(graph)) \ {{}} : \A t \in U : \E d \in graph.deps[t] :
      d \in U \/ (d \notin Pending(graph) /\ ~ Satisfied(graph, d))

=============================================================================
