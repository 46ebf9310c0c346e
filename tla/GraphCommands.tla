---- MODULE GraphCommands ----
(***************************************************************************)
(* The editing commands of the command line (main.rs): what each saves,    *)
(* given the graph it loaded.  A command is a record with the name of the  *)
(* operation and its arguments; Outcomes(g, c) is the set of graphs it may *)
(* go on to save, empty when it ends with an error before it saves.        *)
(***************************************************************************)
EXTENDS ProjectGraph

TaskUpdate(g, c) ==
    IF c.id \in NodeIds(g) THEN {UpdateStatus(g, c.id, c.status)} ELSE {}

Complete(g, c) ==
    IF c.id \in NodeIds(g) THEN {UpdateStatus(g, c.id, "done")} ELSE {}

AddNodeCommand(g, c) ==
    IF c.id \in NodeIds(g) THEN {}
    ELSE {AddNode(g, c.id, [NewNode(c.type) EXCEPT !.status = c.status])}

RemoveNodeCommand(g, c) ==
    IF c.id \in NodeIds(g) THEN {RemoveNode(g, c.id)} ELSE {}

\* Looks up both ends, unlike the same operation in edit-graph.
AddEdgeCommand(g, c) ==
    IF {c.from, c.to} \subseteq NodeIds(g)
    THEN {AddEdge(g, NewEdge(c.from, c.to, c.relation))} ELSE {}

RemoveEdgeCommand(g, c) ==
    LET h == RemoveEdges(g, c.from, c.to, c.relation)
    IN IF h # g THEN {h} ELSE {}

\* One operation of the batch: what is not there is passed over.
EditStep(g, op) ==
    CASE op.op = "add_node" -> AddNode(g, op.id, [NewNode(op.type) EXCEPT !.status = op.status])
      [] op.op = "add_edge" -> AddEdge(g, NewEdge(op.from, op.to, op.relation))
      [] op.op = "remove_node" -> RemoveNode(g, op.id)
      [] op.op = "update_status" -> UpdateStatus(g, op.id, op.status)
      [] OTHER -> g

EditGraph(g, c) ==
    LET after[n \in 0..Len(c.ops)] ==
            IF n = 0 THEN g ELSE EditStep(after[n - 1], c.ops[n])
    IN {after[Len(c.ops)]}

AddFeatureCommand(g, c) == {AddFeature(g, c.base, c.specs)}
AddTaskCommand(g, c) == AddTask(g, c.base, c.feature, c.depends)

\* gid design --parse: overwrites, adds, or replaces what implements a feature.
Design(g, c) ==
    IF ~ c.merge THEN {c.incoming}
    ELSE IF c.scope # None THEN {MergeFeatureNodes(g, c.scope, c.incoming)}
    ELSE {AddEdges(AddNodes(g, c.incoming.nodes), c.incoming.edges)}

RenameCommand(g, c) ==
    IF c.old \in NodeIds(g) /\ c.new \notin NodeIds(g) THEN {Rename(g, c.old, c.new)} ELSE {}

MergeCommand(g, c) ==
    IF {c.a, c.b} \subseteq NodeIds(g) THEN {Merge(g, c.a, c.b, c.new)} ELSE {}

SplitCommand(g, c) ==
    IF c.id \in NodeIds(g) /\ c.parts # <<>> THEN {Split(g, c.id, c.parts)} ELSE {}

ExtractCommand(g, c) ==
    IF c.ids \subseteq NodeIds(g) THEN {Extract(g, c.ids, c.parent)} ELSE {}

Operations == {"task-update", "complete", "add-node", "remove-node", "add-edge", "remove-edge",
               "edit-graph", "add-feature", "add-task", "design", "rename", "merge", "split",
               "extract"}

Outcomes(g, c) ==
    CASE c.op = "task-update" -> TaskUpdate(g, c)
      [] c.op = "complete" -> Complete(g, c)
      [] c.op = "add-node" -> AddNodeCommand(g, c)
      [] c.op = "remove-node" -> RemoveNodeCommand(g, c)
      [] c.op = "add-edge" -> AddEdgeCommand(g, c)
      [] c.op = "remove-edge" -> RemoveEdgeCommand(g, c)
      [] c.op = "edit-graph" -> EditGraph(g, c)
      [] c.op = "add-feature" -> AddFeatureCommand(g, c)
      [] c.op = "add-task" -> AddTaskCommand(g, c)
      [] c.op = "design" -> Design(g, c)
      [] c.op = "rename" -> RenameCommand(g, c)
      [] c.op = "merge" -> MergeCommand(g, c)
      [] c.op = "split" -> SplitCommand(g, c)
      [] c.op = "extract" -> ExtractCommand(g, c)

====
