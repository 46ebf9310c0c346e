----------------------------- MODULE Traversal -----------------------------
(***************************************************************************)
(* The queries that follow edges (query.rs): what a change hits, what a    *)
(* node needs, a shortest path, and the topological sort; and the question *)
(* of validator.rs whether a new edge would close a cycle.                 *)
(*                                                                         *)
(* The edges are a set, so the order the code walks them in only decides   *)
(* which of several equally short paths is found, and in which order ids   *)
(* that do not depend on each other are sorted.                            *)
(***************************************************************************)
EXTENDS ProjectGraph

Anything == {}     \* no filter on relations

-----------------------------------------------------------------------------
(* Searching *)

\* found gives each id that was reached the path to it; one turn reaches the
\* neighbours of what is there.
NextFound(next, found) ==
    LET new == (UNION {next[i] : i \in DOMAIN found}) \ DOMAIN found
        before(n) == CHOOSE i \in DOMAIN found : n \in next[i]
    IN Over(found, [n \in new |-> Append(found[before(n)], n)])

\* After as many turns as there are ids nothing new is found.
Search(next, id) ==
    LET found[k \in 0..Cardinality(DOMAIN next)] ==
          IF k = 0 THEN [i \in {id} |-> <<id>>] ELSE NextFound(next, found[k - 1])
    IN found[Cardinality(DOMAIN next)]

Followed(g, relations) ==
    {e \in g.edges : relations = Anything \/ e.relation \in relations}

\* Every id an edge or a node has.
Known(g) == NodeIds(g) \cup UNION {Ends(e) : e \in g.edges}

Targets(edges, id) == {e.to : e \in {e \in edges : e.from = id}}
Sources(edges, id) == {e.from : e \in {e \in edges : e.to = id}}

\* Ids that have no node are passed through, and left out of the answer.
Impact(g, id, relations) ==
    LET edges == Followed(g, relations)
        reached == Search([i \in Known(g) \cup {id} |-> Sources(edges, i)], id)
    IN (DOMAIN reached \ {id}) \cap NodeIds(g)

Deps(g, id, transitive, relations) ==
    LET edges == Followed(g, relations)
        reached == Search([i \in Known(g) \cup {id} |-> Targets(edges, i)], id)
    IN IF transitive THEN (DOMAIN reached \ {id}) \cap NodeIds(g)
       ELSE Targets(edges, id) \cap NodeIds(g)

\* Mutant of Neighbours: edges are followed in their direction only.
NeighboursAhead(g, id) == Targets(g.edges, id)

Neighbours(g, id) == Targets(g.edges, id) \cup Sources(g.edges, id)

\* A shortest path along edges of either direction; <<>> if there is none.
PathsFrom(g, from) == Search([i \in Known(g) \cup {from} |-> Neighbours(g, i)], from)

Path(g, from, to) ==
    IF to \in DOMAIN PathsFrom(g, from) THEN PathsFrom(g, from)[to] ELSE <<>>

CommonCause(g, a, b) == Deps(g, a, TRUE, Anything) \cap Deps(g, b, TRUE, Anything)

DependsOn(g) == Followed(g, {"depends_on"})

\* What the sort has an in-degree for.
Sortable(g) == NodeIds(g) \cup {e.from : e \in DependsOn(g)}

\* Whose dependencies are all sorted.  A dependency without a node never is.
Free(g, sorted) ==
    {i \in Sortable(g) \ ToSet(sorted) : Targets(DependsOn(g), i) \subseteq ToSet(sorted)}

\* Kahn's algorithm, one generation after the other.
KahnSort(g) ==
    LET sorted[k \in 0..Cardinality(Sortable(g))] ==
          IF k = 0 THEN <<>> ELSE sorted[k - 1] \o SetToSeq(Free(g, sorted[k - 1]))
    IN sorted[Cardinality(Sortable(g))]

\* Mutant of TopologicalSort: what could not be sorted is left out.
TopologicalSortUnchecked(g) == [ok |-> TRUE, order |-> KahnSort(g)]

\* The sorted ids are counted against the nodes, not compared with them.
TopologicalSort(g) ==
    [ok |-> Len(KahnSort(g)) = Cardinality(NodeIds(g)), order |-> KahnSort(g)]

\* Adding from -> to closes a cycle if to already leads back to from.
WouldCreateCycle(g, from, to) ==
    from \in DOMAIN Search([i \in Known(g) \cup {to} |-> Targets(DependsOn(g), i)], to)

-----------------------------------------------------------------------------
(* What the answers must have in common *)

\* What a change hits and what a node needs are the same relation read in the
\* two directions, and a path is as long in one direction as in the other.
TraversalsAgree(g) ==
    \A a, b \in NodeIds(g) : a # b =>
        /\ b \in Impact(g, a, Anything) <=> a \in Deps(g, b, TRUE, Anything)
        /\ Len(Path(g, a, b)) = Len(Path(g, b, a))
        /\ a \in Deps(g, b, TRUE, Anything) => Path(g, a, b) # <<>>

\* A path goes from one end to the other along edges, and no path is shorter: over
\* one edge more there is no more than one id more to pass.
PathsAreShortest(g) ==
    \A a \in NodeIds(g) :
        LET paths == PathsFrom(g, a)
        IN \A b \in DOMAIN paths :
             LET path == paths[b]
             IN /\ path[1] = a /\ path[Len(path)] = b
                /\ \A k \in 2..Len(path) : path[k] \in Neighbours(g, path[k - 1])
                /\ \A c \in Neighbours(g, b) : c \in DOMAIN paths /\ Len(paths[c]) <= Len(path) + 1

\* Nodes that wait for each other, or for a dependency without a node.
Stuck(g, ids) ==
    \A i \in ids : \E d \in Targets(DependsOn(g), i) : d \in ids \/ d \notin NodeIds(g)

\* Where every dependency is that of a node: the sort fails just when some nodes are
\* stuck; or else each dependency comes before the node that has it.
SortsInOrder(g) ==
    LET sort == TopologicalSort(g)
        at(id) == CHOOSE k \in DOMAIN sort.order : sort.order[k] = id
    IN (\A e \in DependsOn(g) : e.from \in NodeIds(g)) =>
         /\ ~ sort.ok <=> \E ids \in SUBSET NodeIds(g) : ids # {} /\ Stuck(g, ids)
         /\ sort.ok => \A e \in DependsOn(g) : at(e.to) < at(e.from)

\* An edge between nodes that is not said to close a cycle leaves a graph that can be
\* sorted one that can, and no other edge does.
CyclesForeseen(g) ==
    TopologicalSort(g).ok /\ (\A e \in DependsOn(g) : e.from \in NodeIds(g)) =>
      \A a, b \in NodeIds(g) :
        WouldCreateCycle(g, a, b) <=> ~ TopologicalSort(AddEdge(g, NewEdge(a, b, "depends_on"))).ok
=============================================================================
