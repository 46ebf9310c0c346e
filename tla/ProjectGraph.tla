---- MODULE ProjectGraph ----
(***************************************************************************)
(* The graph in memory (graph.rs) and its refactorings (refactor.rs), as   *)
(* operators from graphs to graphs.                                        *)
(*                                                                         *)
(* A graph has its nodes as a function from the ids that are there, so an  *)
(* id occurs once, and its edges as a set.  The order of both, which the   *)
(* code keeps in vectors, only decides which of several equal choices is   *)
(* taken; texts, tags and knowledge of a node are left out.                *)
(***************************************************************************)
EXTENDS Naturals, FiniteSets, SequencesExt

CONSTANTS
    Inferred,    \* id -> the type its prefix says, "none" if it says nothing
    Candidates,  \* base id -> the ids ensure_unique_id tries, in their order
    Matches      \* 2..7 -> reference -> the ids that match it in that tier

None == "none"
Statuses == {"todo", "in_progress", "done", "blocked", "cancelled", "failed",
             "needs_resolution"}

NoProject == [name |-> None, description |-> None]
NewGraph == [project |-> NoProject, nodes |-> <<>>, edges |-> {}]
NewNode(type) == [type |-> type, status |-> "todo", source |-> None]
NewEdge(from, to, relation) ==
    [from |-> from, to |-> to, relation |-> relation, source |-> None]

NodeIds(g) == DOMAIN g.nodes
Ends(e) == {e.from, e.to}
Dangling(g) == {e \in g.edges : ~ Ends(e) \subseteq NodeIds(g)}

-----------------------------------------------------------------------------
(* Nodes and edges *)

\* What f says, and what g says where f says nothing.
Over(f, g) ==
    [x \in DOMAIN f \cup DOMAIN g |-> IF x \in DOMAIN f THEN f[x] ELSE g[x]]

\* A node without a type gets the one its id suggests.
Typed(id, node) == [node EXCEPT !.type = IF @ = None THEN Inferred[id] ELSE @]

\* An id that is there keeps its node.
AddNodes(g, nodes) ==
    [g EXCEPT !.nodes =
        Over(@, [id \in DOMAIN nodes \ NodeIds(g) |-> Typed(id, nodes[id])])]

AddNode(g, id, node) == AddNodes(g, [i \in {id} |-> node])

\* An id that is not there keeps the edges that name it.
RemoveNodes(g, ids) ==
    LET gone == ids \cap NodeIds(g)
    IN [g EXCEPT !.nodes = Restrict(@, DOMAIN @ \ gone),
                 !.edges = {e \in @ : Ends(e) \cap gone = {}}]

RemoveNode(g, id) == RemoveNodes(g, {id})

UpdateStatus(g, id, status) ==
    IF id \in NodeIds(g) THEN [g EXCEPT !.nodes[id].status = status] ELSE g

SameEdge(e, f) == e.from = f.from /\ e.to = f.to /\ e.relation = f.relation

Distinct(edges) == \A e, f \in edges : SameEdge(e, f) => e = f

\* What may be kept of edges when only the first of each (from, to, relation) is.
Dedups(edges) ==
    {kept \in SUBSET edges : Distinct(kept) /\ \A e \in edges : \E f \in kept : SameEdge(e, f)}

\* One such choice.
Deduped(edges) == {CHOOSE f \in edges : SameEdge(e, f) : e \in edges}

\* An edge that is there already, with any source, is not added.
AddEdges(g, edges) ==
    [g EXCEPT !.edges =
        @ \cup Deduped({e \in edges : \A f \in g.edges : ~ SameEdge(e, f)})]

AddEdge(g, edge) == AddEdges(g, {edge})

\* relation = None stands for any.
RemoveEdges(g, from, to, relation) ==
    [g EXCEPT !.edges = {e \in @ : ~ (/\ e.from = from /\ e.to = to
                                      /\ relation \in {None, e.relation})}]

-----------------------------------------------------------------------------
(* Layers *)

CodeNodes(g) == {id \in NodeIds(g) : g.nodes[id].source = "extract"}
ProjectNodes(g) == {id \in NodeIds(g) : g.nodes[id].source \in {None, "project"}}
CodeEdges(g) == {e \in g.edges : e.source = "extract"}
BridgeEdges(g) == {e \in g.edges : e.source = "auto-bridge"}
ProjectEdges(g) == g.edges \ (CodeEdges(g) \cup BridgeEdges(g))

-----------------------------------------------------------------------------
(* Tasks *)

\* A dependency that is not in the graph counts as settled.
ReadyTasks(g) ==
    {id \in ProjectNodes(g) :
        /\ g.nodes[id].status = "todo"
        /\ \A e \in g.edges :
              /\ e.from = id
              /\ e.relation = "depends_on"
              /\ e.to \in NodeIds(g)
              => g.nodes[e.to].status = "done"}

TasksByStatus(g, status) == {id \in NodeIds(g) : g.nodes[id].status = status}

Summary(g) ==
    [nodes |-> Cardinality(ProjectNodes(g)),
     edges |-> Cardinality(g.edges),
     ready |-> Cardinality(ReadyTasks(g)),
     count |-> [s \in Statuses |->
                   Cardinality(TasksByStatus(g, s) \cap ProjectNodes(g))]]

\* The last candidate, base-overflow, is taken even if it is there.
UniqueId(g, base) ==
    LET free == SelectSeq(Candidates[base], LAMBDA id : id \notin NodeIds(g))
    IN IF free # <<>> THEN Head(free) ELSE Last(Candidates[base])

\* specs is a sequence of [title, base, status, deps]: base is the id the
\* task wants, deps are titles.  The last of two tasks with one title has it.
AddSpec(acc, feature, spec) ==
    LET task == UniqueId(acc.g, spec.base)
        node == [NewNode("task") EXCEPT !.status = spec.status]
    IN [g |-> AddEdge(AddNode(acc.g, task, node), NewEdge(task, feature, "implements")),
        id |-> Over([t \in {spec.title} |-> task], acc.id)]

AddFeature(g, base, specs) ==
    LET feature == UniqueId(g, base)
        added[n \in 0..Len(specs)] ==
            IF n = 0 THEN [g |-> AddNode(g, feature, NewNode("feature")), id |-> <<>>]
            ELSE AddSpec(added[n - 1], feature, specs[n])
        all == added[Len(specs)]
    IN AddEdges(all.g, UNION {{NewEdge(all.id[s.title], all.id[d], "depends_on") :
                                 d \in s.deps \cap DOMAIN all.id} : s \in ToSet(specs)})

\* The seven tiers of a reference: its exact id, then the first tier with a match.
ResolveNode(g, reference) ==
    LET matching(tier) == Matches[tier][reference] \cap NodeIds(g)
        tiers == {tier \in DOMAIN Matches : matching(tier) # {}}
    IN IF reference \in NodeIds(g) THEN {reference}
       ELSE IF tiers = {} THEN {} ELSE matching(Min(tiers))

\* A dependency that resolves to nothing is skipped; among several matches the
\* first in the graph's order is taken.  The feature is not looked up.
AddTask(g, base, feature, depends) ==
    LET task == UniqueId(g, base)
        h == AddNode(g, task, NewNode("task"))
        attached == IF feature = None THEN h
                    ELSE AddEdge(h, NewEdge(task, feature, "implements"))
        resolved == {d \in depends : ResolveNode(h, d) # {}}
    IN {AddEdges(attached, {NewEdge(task, pick[d], "depends_on") : d \in resolved}) :
          pick \in {f \in [resolved -> NodeIds(h)] :
                      \A d \in resolved : f[d] \in ResolveNode(h, d)}}

\* Replaces what implements a feature by the nodes of another graph.
MergeFeatureNodes(g, feature, incoming) ==
    LET old == {e.from : e \in {e \in g.edges : e.to = feature
                                                /\ e.relation = "implements"}}
        linked == AddEdges(AddNodes(RemoveNodes(g, old), incoming.nodes),
                           {NewEdge(id, feature, "implements") : id \in NodeIds(incoming)})
    IN AddEdges(linked, incoming.edges)

-----------------------------------------------------------------------------
(* Refactorings *)

Redirected(edges, old, new) ==
    {[e EXCEPT !.from = IF @ \in old THEN new ELSE @,
               !.to = IF @ \in old THEN new ELSE @] : e \in edges}

Rename(g, old, new) ==
    [g EXCEPT !.nodes = [id \in (DOMAIN @ \ {old}) \cup {new} |->
                            @[IF id = new THEN old ELSE id]],
              !.edges = Redirected(@, {old}, new)]

MergedStatus(s, t) ==
    IF "done" \in {s, t} THEN "done"
    ELSE IF "in_progress" \in {s, t} THEN "in_progress" ELSE s

\* new may be there already, or be a or b: AddNode then keeps the node that is
\* there, and a and b are removed all the same.
Merge(g, a, b, new) ==
    LET node == [NewNode(None) EXCEPT !.status =
                    MergedStatus(g.nodes[a].status, g.nodes[b].status)]
        added == AddNode(g, new, node)
        edges == Deduped(Redirected(g.edges, {a, b}, new))
    IN RemoveNode(RemoveNode([added EXCEPT !.edges = {e \in edges : e.from # e.to}],
                             a), b)

\* The first part inherits the edges in both directions.
Split(g, id, parts) ==
    LET part == [NewNode(g.nodes[id].type) EXCEPT !.status = g.nodes[id].status]
        added == AddNodes(g, [p \in ToSet(parts) |-> part])
    IN RemoveNode([added EXCEPT !.edges = Redirected(@, {id}, Head(parts))], id)

Extract(g, ids, parent) ==
    AddEdges(AddNode(g, parent, NewNode("module")),
             {NewEdge(parent, id, "contains") : id \in ids})

====
