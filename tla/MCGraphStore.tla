---- MODULE MCGraphStore ----
(* The store with small graphs and one command of each kind that matters. *)
EXTENDS GraphStore

AllIds == {"feat-x", "task-a", "task-b", "m"}

MCInferred == [id \in AllIds |->
    CASE id = "feat-x" -> "feature" [] id = "m" -> None [] OTHER -> "task"]

MCCandidates == [id \in AllIds |-> <<id, "m">>]
MCMatches == [tier \in 2..7 |-> [r \in {"a"} |-> IF tier = 4 THEN {"task-a"} ELSE {}]]

Task(status) == [NewNode("task") EXCEPT !.status = status]
Named(name) == [name |-> name, description |-> "text"]

\* A feature with one task, as a user has it.
Small == [project |-> Named("one"),
          nodes |-> ("feat-x" :> NewNode("feature")) @@ ("task-a" :> Task("todo")),
          edges |-> {NewEdge("task-a", "feat-x", "implements")}]

\* Written by hand: a node without a type, an edge to nowhere, an unknown relation.
Untyped == [NewGraph EXCEPT !.nodes = "m" :> NewNode(None)]
Loose == [Small EXCEPT !.edges = @ \cup {NewEdge("task-a", "task-b", "depends_on")}]
Odd == [Small EXCEPT !.edges = @ \cup {NewEdge("task-a", "feat-x", "near")}]

\* One edge twice, the second from the bridge of another layer.
Twice == [Small EXCEPT !.edges =
    @ \cup {[NewEdge("task-a", "feat-x", "implements") EXCEPT !.source = "auto-bridge"]}]

MCSeeds == {Small, Untyped, Loose, Odd, Twice}
EditorSeeds == {Twice}

Incoming == [project |-> Named("two"),
             nodes |-> "task-b" :> Task("done"),
             edges |-> {NewEdge("task-b", "feat-x", "depends_on")}]

Drop(id) == [op |-> "remove-node", id |-> id]
Add(id) == [op |-> "add-node", id |-> id, type |-> None, status |-> "todo"]
Link(a, b) == [op |-> "add-edge", from |-> a, to |-> b, relation |-> "depends_on"]

EditorCommands ==
    {Drop("task-a"), Add("task-b"), Link("task-a", "feat-x"),
     [op |-> "rename", old |-> "task-a", new |-> "m"]}

MCCommands ==
    {Add("m"), Drop("task-a"),
     [op |-> "complete", id |-> "task-a"],
     [op |-> "edit-graph", ops |-> <<[op |-> "add_node", id |-> "task-b",
        type |-> None, status |-> "done"],
        [op |-> "add_edge", from |-> "task-b", to |-> "m", relation |-> "blocks"]>>],
     [op |-> "design", merge |-> FALSE, scope |-> None, incoming |-> Incoming],
     [op |-> "design", merge |-> TRUE, scope |-> "feat-x", incoming |-> Incoming],
     [op |-> "merge", a |-> "task-a", b |-> "feat-x", new |-> "m"],
     [op |-> "add-feature", base |-> "feat-x",
      specs |-> <<[title |-> "one", base |-> "task-a", status |-> "todo", deps |-> {}],
                  [title |-> "two", base |-> "task-b", status |-> "done", deps |-> {"one"}]>>]}

====
