---------------------------- MODULE FileClusters ----------------------------
(***************************************************************************)
(* The clustering of `gid infer` (infer/clustering.rs): from a graph to a  *)
(* network of its files, from a division of the network to clusters, from  *)
(* the clusters to component nodes.  The division itself is Infomap's, an  *)
(* external library: any partition of the files, or any tree over them.    *)
(*                                                                         *)
(* Weights are in hundredths.  A tie that the code breaks by the order of  *)
(* a hash table or of Infomap's modules is broken in every way where a     *)
(* file's place depends on it, and by CHOOSE where only numbers do.        *)
(***************************************************************************)
EXTENDS ProjectGraph

CONSTANTS
    Dir,         \* file -> the names of the directories it is in, outermost first
    Words,       \* title of a symbol -> its words that are not stop words
    HubDegree,   \* so many links into a file never make it a hub
    MinShared    \* so many importers, or words, in common tie two files

SmallGreatest(a, b) == IF a >= b THEN a ELSE b
SmallLeast(a, b) == IF a <= b THEN a ELSE b

-----------------------------------------------------------------------------
(* The network *)

RelationWeight(relation) ==
    CASE relation = "calls" -> 100
      [] relation = "imports" -> 80
      [] relation \in {"type_reference", "inherits", "implements", "uses", "overrides"} -> 50
      [] relation = "depends_on" -> 40
      [] relation = "tests_for" -> 30
      [] relation \in {"defined_in", "contains", "belongs_to"} -> 20
      [] OTHER -> 0

ImportLike == {"imports", "calls", "uses", "type_reference", "depends_on"}
Symbols == {"function", "class", "method", "module"}

Files(g) == {id \in NodeIds(g) : g.nodes[id].type = "file"}

\* Mutant: a node that is no file may also stand for one it contains.
FileOfByEdges(g, id) ==
    CASE id \in Files(g) -> id
      [] id \in NodeIds(g) \ Files(g) /\ (\E e \in g.edges : e.from = id /\ e.to \in Files(g)) ->
           (CHOOSE e \in g.edges : e.from = id /\ e.to \in Files(g)).to
      [] OTHER -> None

\* What a node other than a file says its file is need not be in the graph.
FileOf(g, id) ==
    CASE id \in Files(g) -> id
      [] id \in NodeIds(g) \ Files(g) /\ g.nodes[id].file \in Files(g) -> g.nodes[id].file
      [] OTHER -> None

\* The edges that link two files, themselves or through what is in them.
Links(g) ==
    {e \in g.edges : LET from == FileOf(g, e.from)
                         to == FileOf(g, e.to)
                     IN from # None /\ to # None /\ from # to}

LinksTo(g, f) == {e \in Links(g) : e.relation \in ImportLike /\ FileOf(g, e.to) = f}

Weight(links) == MapThenSumSet(LAMBDA e : RelationWeight(e.relation), links)

BuildNetwork(g) ==
    [f \in Files(g) |-> [h \in Files(g) |->
        Weight({e \in Links(g) : FileOf(g, e.from) = f /\ FileOf(g, e.to) = h})]]

\* Every link counts, several from one file too.
IdentifyHubs(g) ==
    LET cutoff == SmallGreatest((Cardinality(Files(g)) + 19) \div 20, HubDegree)
    IN {f \in Files(g) : Cardinality(LinksTo(g, f)) > cutoff}

ExtractSubgraph(net, files) == [f \in files |-> [h \in files |-> net[f][h]]]
ExcludeHubs(net, hubs) == ExtractSubgraph(net, DOMAIN net \ hubs)

\* A tie is a weight added in both directions.
WithTies(net, tie) ==
    [f \in DOMAIN net |-> [h \in DOMAIN net |-> net[f][h] + IF f = h THEN 0 ELSE tie[f][h]]]

AddCoCitation(net, g) ==
    LET importers == [f \in DOMAIN net |-> {FileOf(g, e.from) : e \in LinksTo(g, f)} \cap DOMAIN net]
        tie == [f \in DOMAIN net |-> [h \in DOMAIN net |->
                  LET shared == Cardinality(importers[f] \cap importers[h])
                  IN IF shared >= MinShared THEN SmallLeast(40 * shared, 200) ELSE 0]]
    IN WithTies(net, tie)

SymbolWords(g, f) ==
    UNION {Words[g.nodes[id].title] :
             id \in {id \in NodeIds(g) : g.nodes[id].type \in Symbols /\ g.nodes[id].file = f}}

AddSymbolSimilarity(net, g) ==
    LET words == [f \in DOMAIN net |-> SymbolWords(g, f)]
        tie == [f \in DOMAIN net |-> [h \in DOMAIN net |->
                  LET shared == Cardinality(words[f] \cap words[h])
                      all == Cardinality(words[f] \cup words[h])
                  IN IF shared >= MinShared /\ 100 * shared >= 15 * all
                     THEN (50 * shared) \div all ELSE 0]]
    IN WithTies(net, tie)

ParentDir(f) == IF Dir[f] = <<>> THEN <<"root">> ELSE Dir[f]
Isolated(net) == {f \in DOMAIN net : \A h \in DOMAIN net : net[f][h] + net[h][f] = 0}

\* Only files that nothing else ties to another.
AddDirColocation(net) ==
    LET alone == Isolated(net)
        tie == [f \in DOMAIN net |-> [h \in DOMAIN net |->
                  IF {f, h} \subseteq alone /\ ParentDir(f) = ParentDir(h) THEN 30 ELSE 0]]
    IN WithTies(net, tie)

Network(g) ==
    AddDirColocation(AddSymbolSimilarity(AddCoCitation(
        ExcludeHubs(BuildNetwork(g), IdentifyHubs(g)), g), g))

-----------------------------------------------------------------------------
(* Flat clusters, as disjoint sets of files *)

Partitions(S) == {{{x \in S : f[x] = k} : k \in {f[x] : x \in S}} : f \in [S -> S]}

Affinity(net, f, cluster) == MapThenSumSet(LAMBDA h : net[f][h] + net[h][f], cluster)

\* The clusters that draw a file most, none if none does.
BestByAffinity(net, clusters, f) ==
    {c \in clusters : /\ Affinity(net, f, c) > 0
                      /\ \A d \in clusters : Affinity(net, f, c) >= Affinity(net, f, d)}

CommonPrefixLen(f, h) == Len(LongestCommonPrefix({ParentDir(f), ParentDir(h)}))
Nearness(f, cluster) == Max({CommonPrefixLen(f, h) : h \in cluster})

BestByPath(clusters, f) ==
    {c \in clusters : /\ Nearness(f, c) > 0
                      /\ \A d \in clusters : Nearness(f, c) >= Nearness(f, d)}

GroupsByDir(files) == {{h \in files : ParentDir(h) = ParentDir(f)} : f \in files}

Joined(clusters, c, f) == (clusters \ {c}) \cup {c \cup {f}}

\* A cluster that is too big becomes any partition of it that Infomap may find; a
\* part that is still too big is split again, three times at most, or left.
SplitMegaClusters(clusters, maxSize) ==
    {UNION {split[c] : c \in clusters} :
       split \in {s \in [clusters -> UNION {Partitions(c) : c \in clusters}] :
                    \A c \in clusters : IF Cardinality(c) > maxSize THEN UNION s[c] = c
                                        ELSE s[c] = {c}}}

-----------------------------------------------------------------------------
(* Clusters in a row, numbered from 1, with their places in a tree; 0 is no parent *)

Leaf(members, parent) == [members |-> members, parent |-> parent, children |-> <<>>]

BuildFlatClusters(clusters) == SetToSeq({Leaf(c, 0) : c \in clusters})

\* Infomap's tree, its root's children in order: each a module of files, or a
\* sequence of two or more that are below a module of their own.
BuildTreeClusters(top) ==
    LET size(k) == IF Len(top[k]) = 1 THEN 1 ELSE 1 + Len(top[k])
        first[k \in 1..Len(top)] == IF k = 1 THEN 2 ELSE first[k - 1] + size(k - 1)
        branch(k) ==
          IF Len(top[k]) = 1 THEN <<Leaf(top[k][1], 1)>>
          ELSE <<[members |-> {}, parent |-> 1,
                  children |-> [j \in 1..Len(top[k]) |-> first[k] + j]]>>
               \o [j \in 1..Len(top[k]) |-> Leaf(top[k][j], first[k])]
    IN IF Len(top) = 1 THEN <<Leaf(top[1][1], 0)>>
       ELSE <<[members |-> {}, parent |-> 0, children |-> [k \in 1..Len(top) |-> first[k]]]>>
            \o FlattenSeq([k \in 1..Len(top) |-> branch(k)])

\* The trees of two or three modules that Infomap may give its root; it may also find
\* one module only.
Trees(S) ==
    LET rows(n) == {q \in UNION {SetToSeqs(p) : p \in Partitions(S)} : Len(q) = n}
    IN {<< <<S>> >>}
       \cup {<< <<q[1]>>, <<q[2]>> >> : q \in rows(2)}
       \cup UNION {{<< <<q[1]>>, <<q[2], q[3]>> >>, << <<q[1], q[2]>>, <<q[3]>> >>} : q \in rows(3)}

\* Numbers change with the places; parents and children keep the old ones.
SplitOversizedByDirectory(cs, maxSize) ==
    LET parts(c) == IF c.children = <<>> /\ Cardinality(c.members) > maxSize
                    THEN LET groups == SetToSeq(GroupsByDir(c.members))
                         IN [k \in 1..Len(groups) |-> Leaf(groups[k], c.parent)]
                    ELSE <<c>>
    IN FlattenSeq([k \in 1..Len(cs) |-> parts(cs[k])])

IsHierarchical(cs) == \E k \in 1..Len(cs) : cs[k].parent # 0 \/ cs[k].children # <<>>
ChildrenOf(cs, k) == {cs[k].children[j] : j \in 1..Len(cs[k].children)}

\* What a walk down from k meets, k itself if it is below itself.
Descendants(cs, k) ==
    LET below[n \in 0..Len(cs)] ==
          IF n = 0 THEN ChildrenOf(cs, k)
          ELSE LET met == below[n - 1]
               IN met \cup UNION {ChildrenOf(cs, j) : j \in met \cap 1..Len(cs)}
    IN below[Len(cs)]

\* Counting what is below a cluster that is below itself never ends.
CountsForever(cs) == \E k \in 1..Len(cs) : k \in Descendants(cs, k)
TotalSize(cs, k) ==
    MapThenSumSet(LAMBDA j : Cardinality(cs[j].members), {k} \cup Descendants(cs, k))

-----------------------------------------------------------------------------
(* Component nodes *)

\* Where walks from the roots lead, with the path they take, n steps long at most.
Walks(cs) ==
    LET row == 1..Len(cs)
        roots == SelectSeq([j \in row |-> j], LAMBDA j : cs[j].parent = 0)
        onward(w) == {<<cs[w[1]].children[j], Append(w[2], j - 1)>> : j \in 1..Len(cs[w[1]].children)}
        walks[n \in 0..Len(cs)] ==
          IF n = 0 THEN {<<roots[r], <<r - 1>> >> : r \in 1..Len(roots)}
          ELSE LET shorter == walks[n - 1]
               IN shorter \cup UNION {onward(w) : w \in {w \in shorter : w[1] \in row}}
    IN walks[Len(cs)]

Later(p, q) ==
    \E i \in 1..Len(p) : /\ \A j \in 1..(i - 1) : j <= Len(q) /\ p[j] = q[j]
                         /\ i > Len(q) \/ p[i] > q[i]

\* The last path a walk from the roots comes along; a number if none leads there.
BuildDotPaths(cs) ==
    LET walks == Walks(cs)
        paths(k) == {w[2] : w \in {w \in walks : w[1] = k}}
    IN [k \in 1..Len(cs) |->
          IF IsHierarchical(cs) /\ paths(k) # {}
          THEN CHOOSE p \in paths(k) : \A q \in paths(k) : p = q \/ Later(p, q)
          ELSE <<k - 1>>]

AutoName(files) ==
    LET any == CHOOSE f \in files : TRUE
        common == LongestCommonPrefix({Dir[f] \o <<f>> : f \in files})
        dirs == UNION {ToSet(Dir[f]) : f \in files}
        count(d) == Cardinality({f \in files : d \in ToSet(Dir[f])})
    IN CASE files = {} -> "component"
         [] Cardinality(files) = 1 -> IF Dir[any] = <<>> THEN any ELSE Last(Dir[any])
         [] Cardinality(files) > 1 /\ common # <<>> -> Last(common)
         [] Cardinality(files) > 1 /\ common = <<>> /\ dirs # {} ->
              CHOOSE d \in dirs : \A e \in dirs : count(d) >= count(e)
         [] OTHER -> "component-hash"

\* Titles are taken for words of one piece.
AutoNameHierarchical(titles) ==
    CASE titles = <<>> -> "group"
      [] Len(titles) = 1 -> titles[1] \o "-group"
      [] Len(titles) > 1 /\ Cardinality(ToSet(titles)) = 1 -> titles[1]
      [] OTHER -> FoldLeft(LAMBDA name, t : name \o "+" \o t, titles[1],
                           SubSeq(titles, 2, SmallLeast(3, Len(titles))))

ComponentId(path) == "infer:component:" \o ToString(path)
ContainsEdge(component, member) == [NewEdge(component, member, "contains") EXCEPT !.source = "infer"]

Component(title, size) ==
    [type |-> "component", status |-> "todo", source |-> "infer", title |-> title,
     file |-> None, size |-> size]

DeduplicateNames(nodes) ==
    [id \in DOMAIN nodes |->
       IF \E other \in DOMAIN nodes \ {id} : nodes[other].title = nodes[id].title
       THEN [nodes[id] EXCEPT !.title = @ \o "-" \o id] ELSE nodes[id]]

Infrastructure == "infer:component:infrastructure"

CreateInfraComponent(hubs) ==
    IF hubs = {} THEN NewGraph
    ELSE [NewGraph EXCEPT
            !.nodes = [id \in {Infrastructure} |->
                         Component("Infrastructure & Shared Utilities", Cardinality(hubs))],
            !.edges = {ContainsEdge(Infrastructure, f) : f \in hubs}]

\* The nodes and edges of clusters whose count ends, in the form of a graph.
MapToComponents(cs) ==
    LET path == BuildDotPaths(cs)
        row == 1..Len(cs)
        id(k) == ComponentId(path[k])
        title(k) ==
          IF cs[k].members = {} /\ cs[k].children # <<>>
          THEN AutoNameHierarchical([j \in 1..Len(cs[k].children) |->
                                       AutoName(cs[cs[k].children[j]].members)])
          ELSE AutoName(cs[k].members)
    IN [NewGraph EXCEPT
          !.nodes = [i \in {id(k) : k \in row} |->
                       LET k == CHOOSE k \in row : id(k) = i
                       IN Component(title(k), TotalSize(cs, k))],
          !.edges = UNION {{ContainsEdge(id(k), m) :
                              m \in cs[k].members \cup {id(j) : j \in ChildrenOf(cs, k)}} : k \in row}]

\* Nothing merges what is still too small.
PostProcess(found) == [found EXCEPT !.nodes = DeduplicateNames(@)]

Components(cs, hubs) ==
    LET found == MapToComponents(cs)
        infra == CreateInfraComponent(hubs)
    IN PostProcess([NewGraph EXCEPT !.nodes = Over(found.nodes, infra.nodes),
                                    !.edges = found.edges \cup infra.edges])
=============================================================================
