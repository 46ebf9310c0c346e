---- MODULE GraphQueries ----
(***************************************************************************)
(* What the commands answer from a project graph besides its traversal:    *)
(* validation (validator.rs), advice (advise.rs), the tree drawn on a      *)
(* terminal (visual.rs), and the query commands of main.rs around them.    *)
(*                                                                         *)
(* Nodes carry here what the advice looks at: title, file, signature and   *)
(* description stand for the classes of names the code tells apart.        *)
(***************************************************************************)
EXTENDS Traversal

CONSTANTS
    Ranks,         \* layer or type -> the height of that layer, from 1
    EntryNames, EntryFiles,    \* what runs without being called
    TestNames, TestFiles,      \* what the test runner calls
    SpecialNames,  \* __dunder__ names and default_* functions
    TraitNames,    \* names of methods of well-known traits
    MermaidId,     \* id -> the id with _ for all that is not a letter or a digit
    HighFan,       \* HIGH_FAN_THRESHOLD
    DeepChain      \* DEEP_CHAIN_THRESHOLD

-----------------------------------------------------------------------------
(* Validation *)

\* Tarjan: v gets the next number; low is the least number on the stack that
\* it can get back to; a root takes its component off the stack.
RECURSIVE StrongConnect(_, _, _)
StrongConnect(next, s, v) ==
    LET number == Cardinality(DOMAIN s.index)
        entered == [s EXCEPT !.index = @ @@ (v :> number), !.low = @ @@ (v :> number),
                             !.stack = Append(@, v)]
        visit(w, t) ==
            IF w \notin DOMAIN t.index
            THEN LET u == StrongConnect(next, t, w)
                 IN [u EXCEPT !.low[v] = Min({@, u.low[w]})]
            ELSE IF w \in ToSet(t.stack) THEN [t EXCEPT !.low[v] = Min({@, t.index[w]})]
            ELSE t
        done == FoldSet(visit, entered, next[v])
        at == CHOOSE k \in DOMAIN done.stack : done.stack[k] = v
        component == ToSet(SubSeq(done.stack, at, Len(done.stack)))
    IN IF done.low[v] # done.index[v] THEN done
       ELSE [done EXCEPT !.stack = SubSeq(@, 1, at - 1),
                         !.sccs = IF Cardinality(component) > 1
                                  THEN @ \cup {component} ELSE @]

\* The components of more than one node; an edge from a node to itself is none.
FindCycles(g) ==
    LET next == [i \in Known(g) |-> Targets(DependsOn(g), i)]
        start == [index |-> <<>>, low |-> <<>>, stack |-> <<>>, sccs |-> {}]
    IN FoldSet(LAMBDA v, s : IF v \in DOMAIN s.index THEN s ELSE StrongConnect(next, s, v),
               start, NodeIds(g)).sccs

OrphanNodes(g) == NodeIds(g) \ UNION {Ends(e) : e \in g.edges}
MissingRefs(g) == {<<e, id>> \in g.edges \X Known(g) : id \in Ends(e) \ NodeIds(g)}
SelfEdges(g) == {e \in g.edges : e.from = e.to}

IsValid(g) ==
    OrphanNodes(g) = {} /\ MissingRefs(g) = {} /\ FindCycles(g) = {} /\ SelfEdges(g) = {}

-----------------------------------------------------------------------------
(* Advice *)

FanIn(g, id) == Cardinality({e \in DependsOn(g) : e.to = id})
FanOut(g, id) == Cardinality({e \in DependsOn(g) : e.from = id})

\* The depth of a node is kept for the next one that asks.  A node that is
\* being visited counts as 0, so within a cycle the depths depend on where the
\* first visit started.
RECURSIVE ChainDepth(_, _, _, _)
ChainDepth(next, cache, visiting, id) ==
    IF id \in DOMAIN cache THEN cache
    ELSE LET depth(c, i) == IF i \in DOMAIN c THEN c[i] ELSE 0
             seen == visiting \cup {id}
             visit(i, acc) ==
                 LET c == IF i \in seen THEN acc.cache
                          ELSE ChainDepth(next, acc.cache, seen, i)
                 IN [cache |-> c, depth |-> Max({acc.depth, 1 + depth(c, i)})]
             all == FoldSet(visit, [cache |-> cache, depth |-> 0], next[id])
         IN all.cache @@ (id :> all.depth)

ChainDepths(g) ==
    LET next == [i \in Known(g) |-> Targets(DependsOn(g), i)]
    IN FoldSet(LAMBDA id, c : ChainDepth(next, c, {}, id), <<>>, NodeIds(g))

\* The layer a node says it is in, or else its type; 0 for what has no rank.
LayerRank(g, id) ==
    LET layer == IF id \notin NodeIds(g) THEN None
                 ELSE IF g.nodes[id].layer # None THEN g.nodes[id].layer
                 ELSE g.nodes[id].type
    IN IF layer \in DOMAIN Ranks THEN Ranks[layer] ELSE 0

LayerViolations(g) ==
    {e \in DependsOn(g) : /\ LayerRank(g, e.from) > 0
                          /\ LayerRank(g, e.from) < LayerRank(g, e.to)}

\* What waits for a blocked node and is not finished.
BlockedChains(g) ==
    {<<id, n>> \in TasksByStatus(g, "blocked") \X NodeIds(g) :
        /\ n \in Impact(g, id, Anything)
        /\ g.nodes[n].status \in {"todo", "in_progress"}}

\* The suggested order lists every node that is still to do, whatever its type.
TodoOrder(g) ==
    LET sort == TopologicalSort(g)
        todo(id) == id \in NodeIds(g) /\ g.nodes[id].status = "todo"
    IN IF sort.ok THEN SelectSeq(sort.order, todo) ELSE <<>>

CodeTypes == {"file", "class", "function", "module"}

IsCodeEntryPoint(n) ==
    n.title \in EntryNames \/ n.file \in EntryFiles \/ n.signature = "extern"

IsTestFunction(n) == n.title \in TestNames \/ n.file \in TestFiles \/ n.signature = "test"

IsPublicCode(n) == n.signature \in {"pub", "export"}

\* The type a method is defined in; it has one.
Parents(g, id) == Targets(Followed(g, {"defined_in"}), id)

\* The method overrides one of a trait, its type inherits, or its name is that
\* of a method of a well-known trait.
IsTraitImplMethod(g, id) ==
    \/ \E e \in g.edges : e.relation = "overrides" /\ e.to = id
    \/ \E p \in Parents(g, id) : Targets(Followed(g, {"inherits"}), p) # {}
    \/ g.nodes[id].title \in TraitNames /\ Parents(g, id) # {}

\* Something inherits from the type it is defined in, or that says it is a trait.
IsTraitDefinitionMethod(g, id) ==
    \E p \in Parents(g, id) :
        \/ p \in NodeIds(g) /\ g.nodes[p].signature = "trait"
        \/ Sources(Followed(g, {"inherits"}), p) # {}

DeadCode(g) ==
    {id \in NodeIds(g) :
        LET n == g.nodes[id] IN
        /\ n.type = "function"
        /\ Sources(Followed(g, {"calls"}), id) = {}
        /\ ~ IsCodeEntryPoint(n) /\ ~ IsTestFunction(n) /\ ~ IsPublicCode(n)
        /\ n.title \notin SpecialNames
        /\ ~ IsTraitImplMethod(g, id) /\ ~ IsTraitDefinitionMethod(g, id)}

Advice(type, severity, nodes) ==
    [type |-> type, severity |-> severity, nodes |-> nodes, edge |-> <<>>]

Analyze(g) ==
    LET code(id) == g.nodes[id].type \in CodeTypes
        depths == ChainDepths(g)
        todo == TodoOrder(g)
    IN {Advice("circular-dependency", "error", c) : c \in FindCycles(g)}
       \cup {[Advice("missing-reference", "error", {m[2]}) EXCEPT
                  !.edge = <<m[1].from, m[1].to, m[1].relation>>] : m \in MissingRefs(g)}
       \cup {Advice("orphan-node", "warning", {id}) :
               id \in {id \in OrphanNodes(g) : ~ code(id)}}
       \cup {Advice("high-fan-in", "warning", {id}) :
               id \in {id \in Known(g) : FanIn(g, id) >= HighFan}}
       \cup {Advice("high-fan-out", "warning", {id}) :
               id \in {id \in Known(g) : FanOut(g, id) >= HighFan}}
       \cup {Advice("missing-description", "info", {id}) :
               id \in {id \in NodeIds(g) : g.nodes[id].description = None /\ ~ code(id)}}
       \cup {Advice("deep-dependency-chain", "info", {id}) :
               id \in {id \in DOMAIN depths : depths[id] >= DeepChain}}
       \cup {Advice("layer-violation", "warning", Ends(e)) : e \in LayerViolations(g)}
       \cup {Advice("blocked-chain", "warning",
                    {b[1]} \cup {c[2] : c \in {c \in BlockedChains(g) : c[1] = b[1]}}) :
               b \in BlockedChains(g)}
       \cup (IF Len(todo) > 1
             THEN {Advice("suggested-task-order", "info", ToSet(todo))} ELSE {})
       \cup {Advice("dead-code", "info",
                    {d \in DeadCode(g) : g.nodes[d].file = g.nodes[id].file}) :
               id \in DeadCode(g)}

HealthScore(advice) ==
    LET count(severity) ==
            Cardinality({a \in advice : a.severity = severity /\ a.type # "dead-code"})
        lost == 25 * count("error") + 10 * count("warning") + 2 * Min({10, count("info")})
    IN IF lost > 100 THEN 0 ELSE 100 - lost

-----------------------------------------------------------------------------
(* Drawing *)

Line(id, as) == [id |-> id, as |-> as]

\* A line names a node, or says that its id has been seen; an id without a node
\* is seen and gives no line.
RECURSIVE Draw(_, _, _)
Draw(g, lines, id) ==
    IF \E k \in DOMAIN lines : lines[k].id = id THEN Append(lines, Line(id, "seen"))
    ELSE IF id \notin NodeIds(g) THEN Append(lines, Line(id, "nothing"))
    ELSE FoldSet(LAMBDA d, acc : Draw(g, acc, d), Append(lines, Line(id, "node")),
                 Targets(DependsOn(g), id))

\* From the nodes nothing depends on; what no root leads to comes at the end.
RenderAscii(g) ==
    LET roots == {id \in NodeIds(g) : Sources(DependsOn(g), id) = {}}
        trees == FoldSet(LAMBDA id, acc : Draw(g, acc, id), <<>>, roots)
        rest == {id \in NodeIds(g) : \A k \in DOMAIN trees : trees[k].id # id}
    IN trees \o [k \in 1..Cardinality(rest) |-> Line(SetToSeq(rest)[k], "node")]

\* Every node and every edge, the ones without a node at an end included.
RenderDot(g) == [shapes |-> NodeIds(g), arrows |-> {<<e.from, e.to>> : e \in g.edges}]

\* Ids that differ in punctuation only become one shape, with the arrows of both.
RenderMermaid(g) ==
    [shapes |-> {MermaidId[id] : id \in NodeIds(g)},
     arrows |-> {<<MermaidId[e.from], MermaidId[e.to]>> : e \in g.edges}]

-----------------------------------------------------------------------------
(* The commands *)

ApplyLayerFilter(g, layer) ==
    LET visible == CASE layer = "code" -> CodeNodes(g)
                     [] layer = "project" -> ProjectNodes(g)
                     [] OTHER -> NodeIds(g)
    IN IF layer = "all" THEN g
       ELSE [g EXCEPT !.nodes = Restrict(@, visible),
                      !.edges = {e \in @ : Ends(e) \subseteq visible}]

\* An id when there is just one match, None when the command fails.
ResolveOrDisambiguate(g, reference) ==
    LET matches == ResolveNode(g, reference)
    IN IF Cardinality(matches) = 1 THEN CHOOSE id \in matches : TRUE ELSE None

\* What a reference names: it is looked up on graph.yml, and taken for an id on
\* graph.db.
Named(g, backend, reference) ==
    IF backend = "yaml" THEN ResolveOrDisambiguate(g, reference) ELSE reference

Answer(id, nodes) ==
    IF id = None THEN [ok |-> FALSE, nodes |-> {}] ELSE [ok |-> TRUE, nodes |-> nodes]

ImpactCommand(g, backend, layer, reference, relations) ==
    LET shown == ApplyLayerFilter(g, layer)
        id == Named(shown, backend, reference)
    IN Answer(id, Impact(shown, id, relations))

DepsCommand(g, backend, layer, reference, transitive, relations) ==
    LET shown == ApplyLayerFilter(g, layer)
        id == Named(shown, backend, reference)
    IN Answer(id, Deps(shown, id, transitive, relations))

PathCommand(g, backend, from, to) ==
    LET ids == <<Named(g, backend, from), Named(g, backend, to)>>
    IN IF None \in ToSet(ids) THEN <<>> ELSE Path(g, ids[1], ids[2])

CommonCommand(g, backend, a, b) ==
    LET ids == <<Named(g, backend, a), Named(g, backend, b)>>
    IN IF None \in ToSet(ids) THEN Answer(None, {})
       ELSE Answer(ids[1], CommonCause(g, ids[1], ids[2]))

\* On graph.db a graph that cannot be sorted is an exit code of 0 all the same.
TopoExit(g, backend) == IF TopologicalSort(g).ok \/ backend # "yaml" THEN 0 ELSE 1

\* gid validate and gid advise: the exit code says whether the graph is valid,
\* which a lone code node prevents although there is no advice about it.
ValidateExit(g) == IF IsValid(g) THEN 0 ELSE 1

-----------------------------------------------------------------------------
(* What the answers must have in common *)

Acyclic(g) == FindCycles(g) = {} /\ SelfEdges(g) = {}

\* The topological sort fails on just the graphs in which the validator finds a
\* cycle, a dependency of a node on itself or one without a node; where it does
\* not fail, dependencies come first and depths grow along the dependencies.
CyclesAgree(g) ==
    LET sort == TopologicalSort(g)
        depths == ChainDepths(g)
        at(id) == CHOOSE k \in DOMAIN sort.order : sort.order[k] = id
    IN /\ sort.ok <=> Acyclic(g) /\ Dangling(g) = {}
       /\ sort.ok => \A e \in DependsOn(g) : at(e.to) < at(e.from)
       /\ sort.ok => \A id \in NodeIds(g) :
             depths[id] = Max({0} \cup {1 + depths[d] : d \in Targets(DependsOn(g), id)})

\* An edge is said to close a cycle just when the validator, asked once the edge
\* is there, finds its ends in one cycle.
WouldCycleAgrees(g) ==
    \A a, b \in NodeIds(g) :
        WouldCreateCycle(g, a, b) <=>
            a = b \/ \E c \in FindCycles(AddEdge(g, NewEdge(a, b, "depends_on"))) : {a, b} \subseteq c

\* The tree shows every node once, in whatever way its dependencies run, and what
\* another drawing has an arrow for is a line below the node it starts from.
DrawnOnce(g) ==
    LET tree == RenderAscii(g)
        drawn(id) == {k \in DOMAIN tree : tree[k] = Line(id, "node")}
        dependsOn == [g EXCEPT !.edges = DependsOn(g)]
    IN /\ \A id \in NodeIds(g) : Cardinality(drawn(id)) = 1
       /\ RenderDot(g).shapes = {tree[k].id : k \in {k \in DOMAIN tree : tree[k].as = "node"}}
       /\ \A <<from, to>> \in RenderDot(dependsOn).arrows :
             WouldCreateCycle(g, from, from) \/
             \E k \in DOMAIN tree : tree[k].id = to /\ k > Min(drawn(from))
       /\ \A <<from, to>> \in RenderDot(g).arrows :
             <<MermaidId[from], MermaidId[to]>> \in RenderMermaid(g).arrows
       /\ IsInjective(Restrict(MermaidId, NodeIds(g))) <=>
             Cardinality(RenderMermaid(g).shapes) = Cardinality(RenderDot(g).shapes)

\* An error in the advice never goes together with a graph that counts as valid,
\* an error-free graph that is connected and healthy is valid, what counts as dead
\* is called from nowhere, a filter hides no end of an edge it shows, and the one
\* for the project shows no edge of the code.
AdviceAgrees(g) ==
    LET advice == Analyze(g)
    IN /\ (\E a \in advice : a.severity = "error") => ~ IsValid(g)
       /\ HealthScore(advice) > 75 /\ OrphanNodes(g) = {} /\ SelfEdges(g) = {} => IsValid(g)
       /\ \A id \in DeadCode(g) : Impact(g, id, {"calls"}) = {}
       /\ \A layer \in {"code", "project"} : Dangling(ApplyLayerFilter(g, layer)) = {}
       /\ LET shown == ApplyLayerFilter(g, "project") IN shown.edges = ProjectEdges(shown)

\* Asked with an id, the commands answer the same on graph.yml and on graph.db;
\* what has a path has a common answer in both orders.  Where nothing has been
\* started, no task is said to be ready only if all wait for each other.
CommandsAgree(g) ==
    /\ \A id \in NodeIds(g) :
        /\ ImpactCommand(g, "yaml", "all", id, Anything) = ImpactCommand(g, "sqlite", "all", id, Anything)
        /\ \A transitive \in BOOLEAN :
              DepsCommand(g, "yaml", "all", id, transitive, Anything)
                = DepsCommand(g, "sqlite", "all", id, transitive, Anything)
    /\ \A a, b \in NodeIds(g) :
        /\ PathCommand(g, "yaml", a, b) = PathCommand(g, "sqlite", a, b)
        /\ CommonCommand(g, "yaml", a, b).nodes = CommonCommand(g, "sqlite", b, a).nodes
    /\ ValidateExit(g) = 0 => TopoExit(g, "yaml") = 0
    /\ NodeIds(g) \subseteq TasksByStatus(g, "todo") /\ Summary(g).ready = 0 /\ NodeIds(g) # {} => ~ Acyclic(g)

=============================================================================
