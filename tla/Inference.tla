----------------------------- MODULE Inference -----------------------------
(***************************************************************************)
(* `gid infer` (infer/mod.rs, labeling.rs, integration.rs, llm.rs, and     *)
(* cmd_infer of the command line): it loads the graph, clusters its files, *)
(* has an LLM name the components and group them into features, and merges *)
(* the result into the graph it loaded, which it saves whole.  The user    *)
(* and other commands may change the graph on disk at any moment, and run  *)
(* `gid infer` again later.                                                *)
(*                                                                         *)
(* Left out: --dry-run and --phase clustering, which save nothing, what is *)
(* printed, and what prompts say but for how long they are.                *)
(***************************************************************************)
EXTENDS FileClusters

CONSTANTS
    StartGraphs,   \* what is in the graph at first
    Extracted,     \* what extracting the source directory gives
    Options, Again,   \* the ways the command is called, first and again
    Imports,       \* what an extraction may find: pairs of files
    BatchSize,     \* components named by one prompt
    TokenBudget,   \* tokens the prompts may cost, twice their length
    MaxFeatures,   \* features kept
    Slug,          \* title of a feature -> its id
    MaxRuns,       \* bound: times the command is run
    MaxEdits       \* bound: changes others make

IsNode(x) ==
    x = [type |-> x.type, status |-> x.status, source |-> x.source, title |-> x.title,
         file |-> x.file, size |-> x.size]

\* Graphs have nodes with all their fields, and those that say that an earlier run
\* inferred them are of the types it makes, and in no file.
IsGraph(g) ==
    /\ g = [project |-> g.project, nodes |-> g.nodes, edges |-> g.edges]
    /\ g.nodes = [id \in NodeIds(g) |-> g.nodes[id]] /\ IsFiniteSet(NodeIds(g))
    /\ None \notin Files(g)
    /\ \A id \in NodeIds(g) :
          /\ IsNode(g.nodes[id])
          /\ g.nodes[id].source = "infer" =>
                g.nodes[id].type \in {"component", "feature"} /\ g.nodes[id].file = None

ASSUME InferenceAssumption ==
    /\ \A g \in StartGraphs : IsGraph(g)
    /\ IsFiniteSet(NodeIds(Extracted))
    /\ \A o \in Options \cup Again : o.maxSize \in Nat /\ o.minSize \in Nat
    /\ Options # {} /\ BatchSize \in Nat \ {0} /\ TokenBudget \in Nat /\ MaxFeatures \in Nat

VARIABLES
    graph,      \* on disk
    pc,         \* where the command is
    mem,        \* the graph as it was loaded
    opt,        \* how it was called
    net,        \* the network of its files
    tree,       \* Infomap's tree, in hierarchical mode
    clusters, orphans,    \* the flat clusters, and files in none so far
    comps,      \* the components
    waiting,    \* components that no prompt was about so far
    named,      \* components the LLM named
    tokens,     \* recorded
    spent,      \* of the prompts that were sent
    features,
    runs, edits

vars == <<graph, pc, mem, opt, net, tree, clusters, orphans, comps, waiting, named, tokens,
          spent, features, runs, edits>>

-----------------------------------------------------------------------------
(* What the LLM is asked *)

MembersOf(found, id) == {e.to : e \in {e \in found.edges : e.from = id /\ e.relation = "contains"}}

\* What a file defines, by either kind of edge an extractor uses.
FileChildren(g, f) ==
    {id \in NodeIds(g) :
       \/ \E e \in g.edges : e.from = id /\ e.to = f /\ e.relation = "defined_in"
       \/ \E e \in g.edges : e.from = f /\ e.to = id /\ e.relation = "contains"}

\* The files, their symbols, or the names of the parts of a component without files.
ContextOf(g, found, id) ==
    LET members == MembersOf(found, id) \cap Files(g)
        symbols == {s \in UNION {FileChildren(g, f) : f \in members} : g.nodes[s].type \in Symbols}
        parts == IF members = {} THEN MembersOf(found, id) \cap NodeIds(found) ELSE {}
    IN {<<"file", f>> : f \in members} \cup {<<"symbol", g.nodes[s].title>> : s \in symbols}
       \cup {<<"part", found.nodes[i].title>> : i \in parts}

NamingTokens(g, found, batch) ==
    2 * (1 + Cardinality(batch)
           + Cardinality(UNION {{<<id, x>> : x \in ContextOf(g, found, id)} : id \in batch}))
FeatureTokens(ids) == 2 * (1 + Cardinality(ids))

-----------------------------------------------------------------------------
(* Features *)

\* The LLM names all it was asked about, one, or nothing that can be read.
Named(batch) == {{}, batch, {CHOOSE id \in batch : TRUE}}

\* What is left of a component's id when "infer:component:" is left off.
Number(id) == <<"number", id>>
Exact(id) == <<"exact", id>>
NoSuch == <<"none", "">>

\* Mutant: what the answer makes up is kept.
GroundedAll(answer, ids) ==
    [k \in DOMAIN answer |-> [id |-> Slug[answer[k].title], title |-> answer[k].title,
                              refs |-> answer[k].refs,
                              components |-> {r[2] : r \in answer[k].refs}]]

\* An answer names components by id or by number; what it says else is dropped, and
\* a feature without components too.  The others keep their places in the answer.  A
\* component that is named in both ways is in the feature twice: refs says how.
Grounded(answer, ids) ==
    LET valid(k) == {id \in ids : {Number(id), Exact(id)} \cap answer[k].refs # {}}
    IN [k \in {k \in DOMAIN answer : valid(k) # {}} |->
          [id |-> Slug[answer[k].title], title |-> answer[k].title,
           refs |-> answer[k].refs \cap UNION {{Number(id), Exact(id)} : id \in ids},
           components |-> valid(k)]]

\* If there are too many, the largest are kept, and come in that order.
Kept(fs) ==
    LET size(k) == Cardinality(fs[k].refs)
        before(k) == {j \in DOMAIN fs : size(j) > size(k) \/ (size(j) = size(k) /\ j < k)}
        row == 1..MaxFeatures
    IN IF Cardinality(DOMAIN fs) <= MaxFeatures THEN {fs}
       ELSE {[i \in row |-> fs[place[i]]] :
               place \in {p \in [row -> DOMAIN fs] : \A i \in row : Cardinality(before(p[i])) = i - 1}}

\* The LLM's answers: nothing that can be read, or a feature of one component or
\* none and an invented one, and a feature of all, under one title or under two; the
\* one component is named twice.
Answers(ids) ==
    {<<>>} \cup
    {<<[title |-> a, refs |-> UNION {{Exact(id), Number(id)} : id \in S} \cup {NoSuch}],
       [title |-> b, refs |-> {Number(id) : id \in ids}]>> :
       a \in {CHOOSE t \in DOMAIN Slug : TRUE}, b \in DOMAIN Slug, S \in {{}} \cup {{id} : id \in ids}}

\* A feature depends on another if two edges or more lead from files of its
\* components to files of the other's; an edge counts once for every two entries, of
\* a component in a feature of that id, that it leads from and to.
InferFeatureDeps(g, found, fs) ==
    LET home(f) == {id \in NodeIds(found) : f \in MembersOf(found, id)}
        entries(a, f) == UNION {{<<k, r>> : r \in {r \in fs[k].refs : r[2] \in home(f)}} :
                                  k \in {k \in DOMAIN fs : fs[k].id = a}}
        across(a, b) == UNION {{<<e, x>> : x \in entries(a, e.from) \X entries(b, e.to)} :
                                 e \in {e \in g.edges : home(e.from) \cap home(e.to) = {}}}
        ids == {fs[k].id : k \in DOMAIN fs}
    IN {[NewEdge(p[1], p[2], "depends_on") EXCEPT !.source = "infer"] :
          p \in {p \in ids \X ids : p[1] # p[2] /\ Cardinality(across(p[1], p[2])) >= 2}}

Feature(title) ==
    [type |-> "feature", status |-> "done", source |-> "infer", title |-> title,
     file |-> None, size |-> 0]

\* Components with the names they were given, features, and all their edges.
FromPhases(g, found, given, fs) ==
    [NewGraph EXCEPT
       !.nodes = [id \in NodeIds(found) \cup {fs[k].id : k \in DOMAIN fs} |->
                    IF id \in NodeIds(found)
                    THEN [found.nodes[id] EXCEPT !.title = IF id \in given THEN "named" ELSE @]
                    ELSE Feature(fs[Max({k \in DOMAIN fs : fs[k].id = id})].title)],
       !.edges = found.edges \cup InferFeatureDeps(g, found, fs)
                 \cup UNION {{ContainsEdge(fs[k].id, c) : c \in fs[k].components} : k \in DOMAIN fs}]

-----------------------------------------------------------------------------
(* The merge *)

CodeNodeTypes == {"file", "class", "function", "module", "constant", "interface", "enum",
                  "type_alias", "trait"}

\* Mutant: the type decides, not the source.
WithoutInferredTypes(g) ==
    RemoveNodes(g, {id \in NodeIds(g) : g.nodes[id].type \in {"component", "feature"}})

\* All that an earlier run left, with every edge to it.
WithoutInferred(g) ==
    RemoveNodes(g, {id \in NodeIds(g) : /\ g.nodes[id].source = "infer"
                                        /\ g.nodes[id].type \notin CodeNodeTypes})

\* A node of the user's that has the id of an inferred one keeps all but its title.
UpsertNodes(g, nodes, ids) ==
    [g EXCEPT !.nodes = [id \in NodeIds(g) |->
        IF id \in ids THEN [g.nodes[id] EXCEPT !.title = nodes[id].title] ELSE g.nodes[id]]]

\* Others take the place of what is there; none is a code node.
AddInferred(g, nodes) ==
    LET new == {id \in DOMAIN nodes : nodes[id].type \notin CodeNodeTypes}
        theirs == {id \in new \cap NodeIds(g) : g.nodes[id].source # "infer"}
    IN AddNodes(RemoveNodes(UpsertNodes(g, nodes, theirs), new \ theirs),
                Restrict(nodes, new \ theirs))

MergeIntoGraph(g, result) ==
    AddEdges(AddInferred(WithoutInferred(g), result.nodes), result.edges)

-----------------------------------------------------------------------------
(* The command *)

\* A graph without code is completed in a copy; what is extracted is not saved.
Completed(g, source) ==
    IF CodeNodes(g) = {} /\ source
    THEN [g EXCEPT !.nodes = Over(@, Extracted.nodes), !.edges = @ \cup Extracted.edges]
    ELSE g

Work == Completed(mem, opt.source)

Idle == /\ pc' = "idle"
        /\ opt' = CHOOSE o \in Options : TRUE
        /\ mem' = NewGraph /\ net' = <<>> /\ tree' = <<>> /\ clusters' = {} /\ orphans' = {} /\ comps' = NewGraph
        /\ waiting' = <<>> /\ named' = {} /\ tokens' = 0 /\ spent' = 0 /\ features' = <<>>

Load ==
    /\ pc = "idle" /\ runs < MaxRuns
    /\ runs' = runs + 1 /\ mem' = graph /\ pc' = "clustering"
    /\ \E o \in IF runs = 0 THEN Options ELSE Again :
         opt' = o /\ net' = Network(Completed(graph, o.source))
    /\ UNCHANGED <<graph, tree, clusters, orphans, comps, waiting, named, tokens, spent,
                   features, edits>>

\* No code, or fewer than two files besides the hubs: nothing is inferred.
NothingToCluster ==
    /\ pc = "clustering"
    /\ CodeNodes(Work) = {} \/ Cardinality(DOMAIN net) < 2
    /\ Idle /\ UNCHANGED <<graph, runs, edits>>

\* Infomap finds a partition; what is smaller than the minimum is dissolved.
ClusterFlat ==
    /\ pc = "clustering" /\ CodeNodes(Work) # {} /\ ~ opt.hierarchical
    /\ Cardinality(DOMAIN net) >= 2
    /\ \E p \in Partitions(DOMAIN net) :
         /\ clusters' = {c \in p : Cardinality(c) >= opt.minSize}
         /\ orphans' = UNION {c \in p : Cardinality(c) < opt.minSize}
    /\ pc' = "orphans"
    /\ UNCHANGED <<graph, mem, opt, net, tree, comps, waiting, named, tokens, spent, features, runs, edits>>

PlaceByAffinity ==
    /\ pc = "orphans"
    /\ \E f \in orphans : \E c \in BestByAffinity(net, clusters, f) :
         /\ clusters' = Joined(clusters, c, f) /\ orphans' = orphans \ {f}
    /\ UNCHANGED <<graph, pc, mem, opt, net, tree, comps, waiting, named, tokens, spent, features,
                   runs, edits>>

\* Mutant: groups that are too small are forgotten.
GroupByDirectoryForgets ==
    /\ pc = "orphans" /\ orphans # {}
    /\ \A f \in orphans : BestByAffinity(net, clusters, f) = {}
    /\ LET groups == {d \in GroupsByDir(orphans) : clusters = {} \/ Cardinality(d) >= opt.minSize}
       IN clusters' = clusters \cup groups
    /\ orphans' = {}
    /\ pc' = "strays"
    /\ UNCHANGED <<graph, mem, opt, net, tree, comps, waiting, named, tokens, spent, features, runs, edits>>

\* Files that nothing draws: by directory, all of them if there is no cluster.
GroupByDirectory ==
    /\ pc = "orphans" /\ orphans # {}
    /\ \A f \in orphans : BestByAffinity(net, clusters, f) = {}
    /\ LET groups == {d \in GroupsByDir(orphans) : clusters = {} \/ Cardinality(d) >= opt.minSize}
       IN /\ clusters' = clusters \cup groups
          /\ orphans' = orphans \ UNION groups
    /\ pc' = "strays"
    /\ UNCHANGED <<graph, mem, opt, net, tree, comps, waiting, named, tokens, spent, features, runs, edits>>

\* One at a time, to where files of the nearest directory are, or alone.
PlaceByPath ==
    /\ pc = "strays"
    /\ \E f \in orphans :
         /\ orphans' = orphans \ {f}
         /\ LET best == BestByPath(clusters, f)
            IN IF best = {} THEN clusters' = clusters \cup {{f}}
               ELSE \E c \in best : clusters' = Joined(clusters, c, f)
    /\ UNCHANGED <<graph, pc, mem, opt, net, tree, comps, waiting, named, tokens, spent, features,
                   runs, edits>>

Map(cs) ==
    LET found == Components(cs, IdentifyHubs(Work))
    IN /\ comps' = found
       /\ IF opt.level = "component"
          THEN pc' = "merging" /\ UNCHANGED waiting
          ELSE pc' = "naming" /\ waiting' = SetToSeq(NodeIds(found))

MapFlat ==
    /\ pc \in {"orphans", "strays"} /\ orphans = {}
    /\ \E split \in SplitMegaClusters(clusters, opt.maxSize) :
         Map(SplitOversizedByDirectory(BuildFlatClusters(split), opt.maxSize))
    /\ clusters' = {}
    /\ UNCHANGED <<graph, mem, opt, net, tree, orphans, named, tokens, spent, features, runs, edits>>

\* Infomap finds a tree; it is taken as it is.
ClusterTree ==
    /\ pc = "clustering" /\ CodeNodes(Work) # {} /\ opt.hierarchical
    /\ Cardinality(DOMAIN net) >= 2
    /\ \E top \in Trees(DOMAIN net) : tree' = BuildTreeClusters(top)
    /\ pc' = "tree"
    /\ UNCHANGED <<graph, mem, opt, net, clusters, orphans, comps, waiting, named, tokens, spent,
                   features, runs, edits>>

MapTree ==
    /\ pc = "tree"
    /\ LET cs == SplitOversizedByDirectory(tree, opt.maxSize)
       IN ~ CountsForever(cs) /\ Map(cs)
    /\ tree' = <<>>
    /\ UNCHANGED <<graph, mem, opt, net, clusters, orphans, named, tokens, spent, features, runs, edits>>

\* The count of what is below a component overflows the stack.
Overflow ==
    /\ pc = "tree" /\ CountsForever(SplitOversizedByDirectory(tree, opt.maxSize))
    /\ Idle /\ UNCHANGED <<graph, runs, edits>>

\* Mutant: the budget is looked at before the prompt is counted.
NameBatchLate ==
    /\ pc = "naming" /\ waiting # <<>>
    /\ LET n == SmallLeast(BatchSize, Len(waiting))
           batch == ToSet(SubSeq(waiting, 1, n))
           cost == NamingTokens(Work, comps, batch)
       IN /\ waiting' = SubSeq(waiting, n + 1, Len(waiting))
          /\ tokens' = tokens + cost
          /\ IF tokens > TokenBudget THEN UNCHANGED <<named, spent>>
             ELSE spent' = spent + cost /\ \E some \in Named(batch) : named' = named \cup some
    /\ UNCHANGED <<graph, pc, mem, opt, net, tree, clusters, orphans, comps, features, runs, edits>>

\* One prompt, if the budget allows for it, and an answer that names some of what it
\* was asked about; none, if the call fails or the answer cannot be read.
NameBatch ==
    /\ pc = "naming" /\ waiting # <<>>
    /\ LET n == SmallLeast(BatchSize, Len(waiting))
           batch == ToSet(SubSeq(waiting, 1, n))
           cost == NamingTokens(Work, comps, batch)
       IN /\ waiting' = SubSeq(waiting, n + 1, Len(waiting))
          /\ tokens' = tokens + cost
          /\ IF tokens' > TokenBudget THEN UNCHANGED <<named, spent>>
             ELSE spent' = spent + cost /\ \E some \in Named(batch) : named' = named \cup some
    /\ UNCHANGED <<graph, pc, mem, opt, net, tree, clusters, orphans, comps, features, runs, edits>>

InferFeatures ==
    /\ pc = "naming" /\ waiting = <<>>
    /\ LET ids == NodeIds(comps)
           cost == FeatureTokens(ids)
       IN /\ tokens' = tokens + cost
          /\ IF tokens' > TokenBudget THEN UNCHANGED <<features, spent>>
             ELSE spent' = spent + cost
                  /\ \E answer \in Answers(ids) : features' \in Kept(Grounded(answer, ids))
    /\ pc' = "merging"
    /\ UNCHANGED <<graph, mem, opt, net, tree, clusters, orphans, comps, waiting, named, runs, edits>>

Result == FromPhases(Work, comps, named, features)

\* The graph that was loaded, with the result, over whatever is on disk now.
Save ==
    /\ pc = "merging"
    /\ graph' = MergeIntoGraph(mem, Result)
    /\ Idle /\ UNCHANGED <<runs, edits>>

-----------------------------------------------------------------------------
(* Others *)

InferredIds == {id \in NodeIds(graph) : graph.nodes[id].source = "infer"}

\* The user makes an inferred node their own, or links a task to one.
Adopt ==
    \E id \in InferredIds : graph' = [graph EXCEPT !.nodes[id].source = None]

LinkTask ==
    \E id \in InferredIds, task \in ProjectNodes(graph) :
      graph' = AddEdge(graph, NewEdge(task, id, "implements"))

\* An extraction finds that a file imports another.
NewImport ==
    \E p \in Imports :
      /\ {p[1], p[2]} \subseteq Files(graph)
      /\ graph' = AddEdge(graph, [NewEdge(p[1], p[2], "imports") EXCEPT !.source = "extract"])

\* Between runs, or at any time in one: what is on disk then matters to no step before
\* the last, so the first stands for all.
Edit ==
    /\ pc \in {"idle", "clustering"}
    /\ edits < MaxEdits /\ edits' = edits + 1
    /\ Adopt \/ LinkTask \/ NewImport
    /\ graph' # graph
    /\ UNCHANGED <<pc, mem, opt, net, tree, clusters, orphans, comps, waiting, named, tokens, spent,
                   features, runs>>

Infer ==
    \/ Load \/ NothingToCluster \/ ClusterFlat \/ PlaceByAffinity \/ GroupByDirectory
    \/ PlaceByPath \/ MapFlat \/ ClusterTree \/ MapTree \/ Overflow
    \/ NameBatch \/ InferFeatures \/ Save

Next == Infer \/ Edit

Init ==
    /\ graph \in StartGraphs /\ pc = "idle" /\ mem = NewGraph
    /\ opt = (CHOOSE o \in Options : TRUE) /\ net = <<>> /\ tree = <<>> /\ clusters = {} /\ orphans = {} /\ comps = NewGraph
    /\ waiting = <<>> /\ named = {} /\ tokens = 0 /\ spent = 0 /\ features = <<>>
    /\ runs = 0 /\ edits = 0

Spec == Init /\ [][Next]_vars

-----------------------------------------------------------------------------
(* Properties *)

\* Every file is in exactly one component (clustering.rs:1753, "every file belongs to
\* exactly one component"), wherever Infomap, the orphans' rules, the splits and the
\* hubs' own component put it.
EachFileOnce ==
    pc \in {"naming", "merging"} =>
      \A f \in Files(Work) : Cardinality({id \in NodeIds(comps) : f \in MembersOf(comps, id)}) = 1

\* The prompts that were sent cost no more than the budget (labeling.rs, GUARD-4).
BudgetKept == spent <= TokenBudget

\* An inference does not feed on its own results: the network and the hubs the next
\* run will find in what is saved are those this run found in what it loaded
\* (merge_into_graph against build_network and identify_hubs).
Saved == pc = "merging" /\ pc' = "idle"
NoFeedback ==
    [][Saved => /\ Network(graph') = Network(mem)
               /\ IdentifyHubs(graph') = IdentifyHubs(mem)]_vars

Theirs(g) == {id \in NodeIds(g) : g.nodes[id].source # "infer"}
TheirEdges(g) == {e \in g.edges : Ends(e) \subseteq Theirs(g)}

\* What is saved has all nodes that are not inferred, as they were loaded but for the
\* title of one whose id an inferred node has, and the edges between them; of what is
\* inferred it has the result of this run and nothing of an earlier one
\* (merge_into_graph, GUARD-1 and GUARD-2).
UserWorkKept ==
    [][Saved =>
         /\ Theirs(mem) = Theirs(graph')
         /\ \A id \in Theirs(mem) :
              LET title == IF id \in NodeIds(Result) THEN Result.nodes[id].title ELSE mem.nodes[id].title
              IN graph'.nodes[id] = [mem.nodes[id] EXCEPT !.title = title]
         /\ TheirEdges(mem) \subseteq graph'.edges
         /\ NodeIds(graph') = Theirs(mem) \cup NodeIds(Result)]_vars

\* An edge without a node at one of its ends is only added by a run that extracted
\* the code into its copy (mod.rs:131): whatever the LLM answers, features and
\* dependencies are between nodes that are there.
DanglesOnlyFromCopy ==
    [][Saved => Work # mem \/ Dangling(graph') \subseteq Dangling(mem)]_vars

\* Splitting the leaves of a tree that are too big leaves the clusters above them as
\* they are (clustering.rs:987, "Non-oversized clusters and non-leaf clusters are
\* preserved as-is"): with the same files below them.
FilesBelow(cs, k) == UNION {cs[j].members : j \in {k} \cup Descendants(cs, k)}
HierarchyKept ==
    pc = "tree" =>
      LET after == SplitOversizedByDirectory(tree, opt.maxSize)
      IN \A k \in 1..Len(tree) :
           tree[k].children # <<>> =>
             \E j \in 1..Len(after) : /\ after[j].children # <<>>
                                      /\ FilesBelow(after, j) = FilesBelow(tree, k)
=============================================================================
