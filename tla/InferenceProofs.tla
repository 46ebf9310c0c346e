-------------------------- MODULE InferenceProofs --------------------------
(***************************************************************************)
(* Theorems about `gid infer`, for any graphs, divisions, answers and      *)
(* bounds: what a merge leaves of the user's work, that no run feeds on    *)
(* what an earlier one inferred, that the budget is kept, that each file   *)
(* ends in one component, and where edges may dangle.                      *)
(***************************************************************************)
EXTENDS Inference, SequenceLemmas

-----------------------------------------------------------------------------
(* The merge *)

\* What the phases make.
IsInferredNode(x) ==
  /\ IsNode(x)
  /\ x.source = "infer" /\ x.type \in {"component", "feature"} /\ x.file = None

IsResult(r) ==
  /\ r.nodes = [id \in NodeIds(r) |-> r.nodes[id]] /\ IsFiniteSet(NodeIds(r))
  /\ \A id \in NodeIds(r) : IsInferredNode(r.nodes[id])
  /\ \A e \in r.edges : e.from \in NodeIds(r)

\* The ids of what the phases make, and the graphs in which no file, nor anything that
\* is in a file, has one.
Reserved(id) ==
  \/ id = Infrastructure \/ \E path : id = ComponentId(path)
  \/ \E title \in DOMAIN Slug : id = Slug[title]

KeepsIds(g) ==
  \A id \in NodeIds(g) : Reserved(id) => g.nodes[id].type # "file" /\ g.nodes[id].file = None

\* The edges that a merge leaves alone.
Untouched(g) == {e \in g.edges : Ends(e) \cap (NodeIds(g) \ Theirs(g)) = {}}

LEMMA DedupedIn == ASSUME NEW X PROVE Deduped(X) \subseteq X
  BY DEF Deduped, SameEdge

\* What RemoveNodes makes of a graph.
LEMMA RemovedIs ==
  ASSUME NEW g, g = [project |-> g.project, nodes |-> g.nodes, edges |-> g.edges], NEW gone
  PROVE  RemoveNodes(g, gone) =
           [project |-> g.project,
            nodes |-> [id \in NodeIds(g) \ gone |-> g.nodes[id]],
            edges |-> {e \in g.edges : Ends(e) \cap (gone \cap NodeIds(g)) = {}}]
  <1> DEFINE nodes == Restrict(g.nodes, DOMAIN g.nodes \ (gone \cap NodeIds(g)))
             edges == {e \in g.edges : Ends(e) \cap (gone \cap NodeIds(g)) = {}}
  <1>1. RemoveNodes(g, gone) = [g EXCEPT !.nodes = nodes, !.edges = edges]
    BY DEF RemoveNodes
  <1>2. nodes = [id \in NodeIds(g) \ gone |-> g.nodes[id]]
    <2>1. DOMAIN g.nodes \ (gone \cap NodeIds(g)) = NodeIds(g) \ gone
      BY DEF NodeIds
    <2> QED BY <2>1 DEF Restrict
  <1> HIDE DEF nodes, edges
  <1>3. RemoveNodes(g, gone) = [project |-> g.project, nodes |-> nodes, edges |-> edges]
    BY <1>1
  <1> QED BY <1>2, <1>3 DEF edges

LEMMA NodesUntouched ==
  ASSUME NEW g, IsGraph(g)
  PROVE  WithoutInferred(g) = [project |-> g.project,
                               nodes |-> [id \in Theirs(g) |-> g.nodes[id]],
                               edges |-> Untouched(g)]
  <1> DEFINE gone == {id \in NodeIds(g) : /\ g.nodes[id].source = "infer"
                                          /\ g.nodes[id].type \notin CodeNodeTypes}
  <1>1. gone = NodeIds(g) \ Theirs(g)
    BY DEF IsGraph, Theirs, CodeNodeTypes
  <1>2. gone \cap NodeIds(g) = NodeIds(g) \ Theirs(g) /\ NodeIds(g) \ gone = Theirs(g)
    BY <1>1 DEF Theirs
  <1>3. WithoutInferred(g) = RemoveNodes(g, gone)
    BY DEF WithoutInferred
  <1> HIDE DEF gone
  <1>4. RemoveNodes(g, gone) =
           [project |-> g.project,
            nodes |-> [id \in NodeIds(g) \ gone |-> g.nodes[id]],
            edges |-> {e \in g.edges : Ends(e) \cap (gone \cap NodeIds(g)) = {}}]
    <2>1. g = [project |-> g.project, nodes |-> g.nodes, edges |-> g.edges]
      BY DEF IsGraph
    <2> QED BY <2>1, RemovedIs, Zenon
  <1> QED BY <1>2, <1>3, <1>4 DEF Untouched

\* What a merge makes of a graph.
Merged(g, r) ==
  [id \in Theirs(g) \cup NodeIds(r) |->
     IF id \in Theirs(g) /\ id \in NodeIds(r) THEN [g.nodes[id] EXCEPT !.title = r.nodes[id].title]
     ELSE IF id \in Theirs(g) THEN g.nodes[id] ELSE r.nodes[id]]

LEMMA AddedIs ==
  ASSUME NEW g, g = [project |-> g.project, nodes |-> g.nodes, edges |-> g.edges],
         NEW nodes, \A id \in DOMAIN nodes : IsInferredNode(nodes[id])
  PROVE  AddNodes(g, nodes) = [g EXCEPT !.nodes = Over(g.nodes,
                                  [id \in DOMAIN nodes \ NodeIds(g) |-> nodes[id]])]
  <1> DEFINE typed == [id \in DOMAIN nodes \ NodeIds(g) |-> Typed(id, nodes[id])]
             plain == [id \in DOMAIN nodes \ NodeIds(g) |-> nodes[id]]
  <1>1. ASSUME NEW id \in DOMAIN nodes PROVE Typed(id, nodes[id]) = nodes[id]
    <2>1. nodes[id].type # None /\ IsNode(nodes[id])
      BY DEF IsInferredNode, None
    <2> QED BY <2>1 DEF Typed, IsNode
  <1>2. typed = plain
    BY <1>1
  <1>3. AddNodes(g, nodes) = [g EXCEPT !.nodes = Over(g.nodes, typed)]
    BY DEF AddNodes
  <1> QED BY <1>2, <1>3

LEMMA MergedIs ==
  ASSUME NEW g, IsGraph(g), NEW r, IsResult(r)
  PROVE  \E new \in SUBSET r.edges :
           MergeIntoGraph(g, r) = [project |-> g.project, nodes |-> Merged(g, r),
                                   edges |-> Untouched(g) \cup new]
  <1> DEFINE base == WithoutInferred(g)
             theirs == {id \in NodeIds(r) \cap NodeIds(base) : base.nodes[id].source # "infer"}
             kept == [id \in Theirs(g) |->
                        IF id \in NodeIds(r) THEN [g.nodes[id] EXCEPT !.title = r.nodes[id].title]
                        ELSE g.nodes[id]]
             rest == [id \in NodeIds(r) \ Theirs(g) |-> r.nodes[id]]
  <1>1. base = [project |-> g.project, nodes |-> [id \in Theirs(g) |-> g.nodes[id]],
                edges |-> Untouched(g)]
    BY NodesUntouched
  <1> HIDE DEF base
  <1>2. NodeIds(base) = Theirs(g) /\ \A id \in Theirs(g) : base.nodes[id] = g.nodes[id]
    BY <1>1 DEF NodeIds
  <1>3. theirs = NodeIds(r) \cap Theirs(g)
    BY <1>2 DEF Theirs
  <1>4. {id \in DOMAIN r.nodes : r.nodes[id].type \notin CodeNodeTypes} = NodeIds(r)
    BY DEF IsResult, IsInferredNode, CodeNodeTypes, NodeIds
  <1>5. UpsertNodes(base, r.nodes, theirs) =
          [project |-> g.project, nodes |-> kept, edges |-> Untouched(g)]
    <2>1. [id \in NodeIds(base) |-> IF id \in theirs THEN [base.nodes[id] EXCEPT !.title = r.nodes[id].title]
                                   ELSE base.nodes[id]] = kept
      BY <1>2, <1>3
    <2> DEFINE titled == [id \in NodeIds(base) |->
                            IF id \in theirs THEN [base.nodes[id] EXCEPT !.title = r.nodes[id].title]
                            ELSE base.nodes[id]]
    <2>2. UpsertNodes(base, r.nodes, theirs) = [base EXCEPT !.nodes = titled]
      <3> HIDE DEF theirs
      <3> QED BY DEF UpsertNodes
    <2>3. titled = kept
      BY <2>1
    <2> HIDE DEF titled, kept, theirs
    <2>4. [base EXCEPT !.nodes = titled] =
             [project |-> g.project, nodes |-> titled, edges |-> Untouched(g)]
      BY <1>1
    <2> QED BY <2>2, <2>3, <2>4
  <1> DEFINE up == UpsertNodes(base, r.nodes, theirs)
  <1>6. NodeIds(r) \ theirs = NodeIds(r) \ Theirs(g)
    BY <1>3
  <1>7. RemoveNodes(up, NodeIds(r) \ theirs) = up
    <2>1. NodeIds(up) = Theirs(g) /\ up.nodes = kept /\ up.edges = Untouched(g)
      BY <1>5 DEF NodeIds
    <2>2. up = [project |-> up.project, nodes |-> up.nodes, edges |-> up.edges]
      BY <1>5
    <2> HIDE DEF up, theirs
    <2>3. (NodeIds(r) \ theirs) \cap NodeIds(up) = {}
      BY <1>6, <2>1
    <2>4. [id \in NodeIds(up) \ (NodeIds(r) \ theirs) |-> up.nodes[id]] = up.nodes
      BY <1>6, <2>1
    <2>5. {e \in up.edges : Ends(e) \cap {} = {}} = up.edges
      OBVIOUS
    <2>6. RemoveNodes(up, NodeIds(r) \ theirs) =
           [project |-> up.project,
            nodes |-> [id \in NodeIds(up) \ (NodeIds(r) \ theirs) |-> up.nodes[id]],
            edges |-> {e \in up.edges :
                         Ends(e) \cap ((NodeIds(r) \ theirs) \cap NodeIds(up)) = {}}]
      BY <2>2, RemovedIs, Zenon
    <2> QED BY <2>2, <2>3, <2>4, <2>5, <2>6
  <1>8. Restrict(r.nodes, NodeIds(r) \ theirs) = rest
    BY <1>6 DEF Restrict
  <1>9. AddInferred(base, r.nodes) = AddNodes(up, rest)
    <2> HIDE DEF up, theirs, rest
    <2>1. theirs = {id \in NodeIds(r) \cap NodeIds(base) : base.nodes[id].source # "infer"}
      BY DEF theirs
    <2> QED BY <1>4, <1>7, <1>8, <2>1 DEF AddInferred, up
  <1>10. AddNodes(up, rest) = [project |-> g.project, nodes |-> Merged(g, r), edges |-> Untouched(g)]
    <2>1. NodeIds(up) = Theirs(g) /\ up.nodes = kept
      BY <1>5 DEF NodeIds
    <2>2. up = [project |-> up.project, nodes |-> up.nodes, edges |-> up.edges]
      BY <1>5
    <2>3. \A id \in DOMAIN rest : IsInferredNode(rest[id])
      BY DEF IsResult
    <2> HIDE DEF up, rest
    <2> DEFINE added == [id \in DOMAIN rest \ NodeIds(up) |-> rest[id]]
    <2>4. AddNodes(up, rest) = [up EXCEPT !.nodes = Over(up.nodes, added)]
      BY <2>2, <2>3, AddedIs
    <2>5. added = rest
      BY <2>1 DEF rest
    <2>6. Over(kept, rest) = Merged(g, r)
      <3>1. DOMAIN kept \cup DOMAIN rest = Theirs(g) \cup NodeIds(r)
        BY DEF rest
      <3> QED BY <3>1 DEF Over, Merged, rest
    <2>7. up = [project |-> g.project, nodes |-> kept, edges |-> Untouched(g)]
      BY <1>5 DEF up
    <2> HIDE DEF kept, added
    <2>8. AddNodes(up, rest) = [up EXCEPT !.nodes = Merged(g, r)]
      <3>1. Over(up.nodes, added) = Merged(g, r)
        BY <2>1, <2>5, <2>6
      <3> QED BY <2>4, <3>1
    <2>9. [up EXCEPT !.nodes = Merged(g, r)] =
             [project |-> g.project, nodes |-> Merged(g, r), edges |-> Untouched(g)]
      BY <2>7
    <2> QED BY <2>8, <2>9
  <1> DEFINE h == AddInferred(base, r.nodes)
             fresh == {e \in r.edges : \A f \in h.edges : ~ SameEdge(e, f)}
  <1>11. h = [project |-> g.project, nodes |-> Merged(g, r), edges |-> Untouched(g)]
    BY <1>9, <1>10
  <1>12. MergeIntoGraph(g, r) = [h EXCEPT !.edges = @ \cup Deduped(fresh)]
    BY DEF MergeIntoGraph, AddEdges, base
  <1>13. Deduped(fresh) \in SUBSET r.edges
    BY DedupedIn
  <1> HIDE DEF h, fresh
  <1> QED BY <1>11, <1>12, <1>13

-----------------------------------------------------------------------------
(* What the phases make *)

LEMMA TitledIs ==
  ASSUME NEW x, IsInferredNode(x), NEW title
  PROVE  IsInferredNode([x EXCEPT !.title = title])
  BY DEF IsInferredNode, IsNode

LEMMA ComponentIs == ASSUME NEW title, NEW size PROVE IsInferredNode(Component(title, size))
  BY DEF Component, IsInferredNode, IsNode

LEMMA ContainsIs ==
  ASSUME NEW a, NEW b
  PROVE  ContainsEdge(a, b) = [from |-> a, to |-> b, relation |-> "contains", source |-> "infer"]
  BY DEF ContainsEdge, NewEdge

LEMMA WithNodesAndEdges ==
  ASSUME NEW g, g = [project |-> g.project, nodes |-> g.nodes, edges |-> g.edges],
         NEW nodes, NEW edges
  PROVE  [g EXCEPT !.nodes = nodes, !.edges = edges]
           = [project |-> g.project, nodes |-> nodes, edges |-> edges]
  <1> DEFINE h == [g EXCEPT !.nodes = nodes, !.edges = edges]
  <1>1. h = [g EXCEPT !.nodes = nodes, !.edges = edges]
    OBVIOUS
  <1> HIDE DEF h
  <1>2. h = [project |-> g.project, nodes |-> nodes, edges |-> edges]
    BY <1>1
  <1> QED BY <1>1, <1>2

LEMMA NewGraphWith ==
  ASSUME NEW nodes, NEW edges
  PROVE  [NewGraph EXCEPT !.nodes = nodes, !.edges = edges]
           = [project |-> NoProject, nodes |-> nodes, edges |-> edges]
  <1>1. /\ NewGraph = [project |-> NewGraph.project, nodes |-> NewGraph.nodes, edges |-> NewGraph.edges]
        /\ NewGraph.project = NoProject
    BY DEF NewGraph
  <1> QED BY <1>1, WithNodesAndEdges

\* The components of clusters and of hubs.
LEMMA ComponentsAre ==
  ASSUME NEW cs, Len(cs) \in Nat, NEW hubs
  PROVE  IsResult(Components(cs, hubs)) /\ \A id \in NodeIds(Components(cs, hubs)) : Reserved(id)
  <1> DEFINE found == MapToComponents(cs)
             infra == CreateInfraComponent(hubs)
             both == Over(found.nodes, infra.nodes)
             edges == found.edges \cup infra.edges
             cleaned == DeduplicateNames(both)
  <1>1. /\ found.nodes = [i \in NodeIds(found) |-> found.nodes[i]] /\ IsFiniteSet(NodeIds(found))
        /\ \A i \in NodeIds(found) : IsInferredNode(found.nodes[i])
        /\ \A e \in found.edges : e.from \in NodeIds(found)
        /\ \A i \in NodeIds(found) : Reserved(i)
    <2> DEFINE path == BuildDotPaths(cs)
               row == 1..Len(cs)
               id(k) == ComponentId(path[k])
               title(k) ==
                 IF cs[k].members = {} /\ cs[k].children # <<>>
                 THEN AutoNameHierarchical([j \in 1..Len(cs[k].children) |->
                                              AutoName(cs[cs[k].children[j]].members)])
                 ELSE AutoName(cs[k].members)
               named1(i) == LET k == CHOOSE k \in row : id(k) = i
                            IN Component(title(k), TotalSize(cs, k))
               nodes1 == [i \in {id(k) : k \in row} |-> named1(i)]
               edges1 == UNION {{ContainsEdge(id(k), m) :
                              m \in cs[k].members \cup {id(j) : j \in ChildrenOf(cs, k)}} : k \in row}
    <2>1. found = [NewGraph EXCEPT !.nodes = nodes1, !.edges = edges1]
      BY DEF MapToComponents
    <2>2. IsFiniteSet({id(k) : k \in row})
      <3> DEFINE f == [k \in row |-> id(k)]
      <3> HIDE DEF id
      <3>1. DOMAIN f = row /\ {f[k] : k \in row} = {id(k) : k \in row}
        OBVIOUS
      <3>2. IsFiniteSet(row)
        BY FS_Interval
      <3> HIDE DEF f, row
      <3> QED BY <3>1, <3>2, FiniteImage
    <2>3. ASSUME NEW i PROVE IsInferredNode(named1(i))
      <3> HIDE DEF title, id, row
      <3> QED BY ComponentIs
    <2>4. ASSUME NEW e \in edges1 PROVE e.from \in {id(k) : k \in row}
      <3> HIDE DEF id, row
      <3> QED BY ContainsIs
    <2>8. \A i \in {id(k) : k \in row} : Reserved(i)
      BY DEF Reserved
    <2> HIDE DEF named1, edges1, id, row
    <2>5. DOMAIN nodes1 = {id(k) : k \in row} /\ \A i \in DOMAIN nodes1 : nodes1[i] = named1(i)
      OBVIOUS
    <2>6. nodes1 = [i \in DOMAIN nodes1 |-> nodes1[i]]
      OBVIOUS
    <2> HIDE DEF nodes1
    <2>7. found.nodes = nodes1 /\ found.edges = edges1
      BY <2>1, NewGraphWith
    <2> QED BY <2>2, <2>3, <2>4, <2>5, <2>6, <2>7, <2>8 DEF NodeIds
  <1>2. /\ infra.nodes = [i \in NodeIds(infra) |-> infra.nodes[i]] /\ IsFiniteSet(NodeIds(infra))
        /\ \A i \in NodeIds(infra) : IsInferredNode(infra.nodes[i])
        /\ \A e \in infra.edges : e.from \in NodeIds(infra)
        /\ \A i \in NodeIds(infra) : Reserved(i)
    <2>1. CASE hubs = {}
      <3>1. infra.nodes = <<>> /\ infra.edges = {}
        BY <2>1 DEF CreateInfraComponent, NewGraph
      <3> QED BY <3>1, FS_EmptySet DEF NodeIds
    <2>2. CASE hubs # {}
      <3> DEFINE node == Component("Infrastructure & Shared Utilities", Cardinality(hubs))
                 nodes2 == [id \in {Infrastructure} |-> node]
                 edges2 == {ContainsEdge(Infrastructure, f) : f \in hubs}
      <3>1. infra = [NewGraph EXCEPT !.nodes = nodes2, !.edges = edges2]
        BY <2>2 DEF CreateInfraComponent
      <3>2. IsInferredNode(node)
        BY ComponentIs
      <3>3. \A e \in edges2 : e.from = Infrastructure
        BY ContainsIs
      <3> HIDE DEF node, edges2
      <3>4. DOMAIN nodes2 = {Infrastructure} /\ nodes2[Infrastructure] = node
        OBVIOUS
      <3>5. nodes2 = [i \in DOMAIN nodes2 |-> nodes2[i]]
        OBVIOUS
      <3> HIDE DEF nodes2
      <3>6. infra.nodes = nodes2 /\ infra.edges = edges2
        BY <3>1, NewGraphWith
      <3>7. IsFiniteSet({Infrastructure})
        BY FS_Singleton
      <3> QED BY <3>2, <3>3, <3>4, <3>5, <3>6, <3>7 DEF NodeIds, Reserved
    <2> QED BY <2>1, <2>2
  <1>3. Components(cs, hubs) = [project |-> NoProject, nodes |-> cleaned, edges |-> edges]
    <2> DEFINE merged == [NewGraph EXCEPT !.nodes = both, !.edges = edges]
    <2>1. Components(cs, hubs) = PostProcess(merged)
      BY DEF Components
    <2> HIDE DEF both, edges
    <2>2. merged = [project |-> NoProject, nodes |-> both, edges |-> edges]
      BY NewGraphWith
    <2> HIDE DEF merged
    <2>3. PostProcess(merged) = [merged EXCEPT !.nodes = DeduplicateNames(both)]
      BY <2>2 DEF PostProcess
    <2> QED BY <2>1, <2>2, <2>3
  <1> HIDE DEF found, infra
  <1>4. /\ DOMAIN both = NodeIds(found) \cup NodeIds(infra)
        /\ \A i \in DOMAIN both : IsInferredNode(both[i])
    BY <1>1, <1>2 DEF Over, NodeIds
  <1> HIDE DEF both
  <1>8. \A i \in DOMAIN both : Reserved(i)
    BY <1>1, <1>2, <1>4
  <1>5. /\ DOMAIN cleaned = DOMAIN both /\ cleaned = [i \in DOMAIN both |-> cleaned[i]]
        /\ \A i \in DOMAIN both : IsInferredNode(cleaned[i])
    <2>1. ASSUME NEW i \in DOMAIN both
          PROVE  cleaned[i] = both[i] \/ \E title : cleaned[i] = [both[i] EXCEPT !.title = title]
      BY DEF DeduplicateNames
    <2>2. DOMAIN cleaned = DOMAIN both /\ cleaned = [i \in DOMAIN both |-> cleaned[i]]
      BY DEF DeduplicateNames
    <2> HIDE DEF cleaned
    <2>3. ASSUME NEW i \in DOMAIN both PROVE IsInferredNode(cleaned[i])
      <3>1. IsInferredNode(both[i])
        BY <1>4
      <3>2. \A title : IsInferredNode([both[i] EXCEPT !.title = title])
        BY <3>1, TitledIs
      <3> QED BY <2>1, <3>1, <3>2
    <2> QED BY <2>2, <2>3
  <1>6. \A e \in edges : e.from \in DOMAIN both
    BY <1>1, <1>2, <1>4
  <1>7. IsFiniteSet(DOMAIN both)
    <2>1. IsFiniteSet(NodeIds(found) \cup NodeIds(infra))
      BY <1>1, <1>2, FS_Union
    <2> QED BY <1>4, <2>1
  <1> HIDE DEF cleaned, edges
  <1> QED BY <1>3, <1>5, <1>6, <1>7, <1>8 DEF IsResult, NodeIds

LEMMA FeatureIs == ASSUME NEW title PROVE IsInferredNode(Feature(title))
  BY DEF Feature, IsInferredNode, IsNode

\* Components, features, and their edges.
LEMMA PhasesAre ==
  ASSUME NEW g, NEW found, IsResult(found), NEW given, NEW fs, IsFiniteSet(DOMAIN fs)
  PROVE  /\ IsResult(FromPhases(g, found, given, fs))
         /\ NodeIds(FromPhases(g, found, given, fs))
              = NodeIds(found) \cup {fs[k].id : k \in DOMAIN fs}
  <1> DEFINE ids == {fs[k].id : k \in DOMAIN fs}
             node(id) == IF id \in NodeIds(found)
                    THEN [found.nodes[id] EXCEPT !.title = IF id \in given THEN "named" ELSE @]
                    ELSE Feature(fs[Max({k \in DOMAIN fs : fs[k].id = id})].title)
             nodes == [id \in NodeIds(found) \cup ids |-> node(id)]
             contains == UNION {{ContainsEdge(fs[k].id, c) : c \in fs[k].components} : k \in DOMAIN fs}
             edges == found.edges \cup InferFeatureDeps(g, found, fs) \cup contains
             r == FromPhases(g, found, given, fs)
  <1>1. r = [NewGraph EXCEPT !.nodes = nodes, !.edges = edges]
    BY DEF FromPhases
  <1>2. ASSUME NEW id \in NodeIds(found) \cup ids PROVE IsInferredNode(node(id))
    <2>1. CASE id \in NodeIds(found)
      <3>1. \E title : node(id) = [found.nodes[id] EXCEPT !.title = title]
        BY <2>1
      <3>2. IsInferredNode(found.nodes[id])
        BY <2>1 DEF IsResult
      <3> HIDE DEF node
      <3> QED BY <3>1, <3>2, TitledIs
    <2>2. CASE id \notin NodeIds(found)
      BY <2>2, FeatureIs
    <2> QED BY <2>1, <2>2
  <1>3. ASSUME NEW e \in InferFeatureDeps(g, found, fs) PROVE e.from \in ids
    BY DEF InferFeatureDeps, NewEdge
  <1>4. ASSUME NEW e \in contains PROVE e.from \in ids
    BY ContainsIs
  <1>5. ASSUME NEW e \in found.edges PROVE e.from \in NodeIds(found)
    BY DEF IsResult
  <1>6. IsFiniteSet(ids)
    <2> DEFINE f == [k \in DOMAIN fs |-> fs[k].id]
    <2>1. DOMAIN f = DOMAIN fs /\ {f[k] : k \in DOMAIN f} = ids
      OBVIOUS
    <2> HIDE DEF f
    <2> QED BY <2>1, FiniteImage
  <1>7. IsFiniteSet(NodeIds(found) \cup ids)
    BY <1>6, FS_Union DEF IsResult
  <1> HIDE DEF node, contains, ids
  <1>8. DOMAIN nodes = NodeIds(found) \cup ids /\ nodes = [id \in DOMAIN nodes |-> nodes[id]]
        /\ \A id \in DOMAIN nodes : IsInferredNode(nodes[id])
    BY <1>2
  <1>9. \A e \in edges : e.from \in DOMAIN nodes
    BY <1>3, <1>4, <1>5
  <1> HIDE DEF nodes, edges, r
  <1>10. r.nodes = nodes /\ r.edges = edges
    BY <1>1, NewGraphWith
  <1>11. NodeIds(r) = DOMAIN nodes
    BY <1>10 DEF NodeIds
  <1> QED BY <1>7, <1>8, <1>9, <1>10, <1>11 DEF IsResult, r, ids

-----------------------------------------------------------------------------
(* What is found stays among the files *)

\* Clusters in a row, of files among S.
IsRow(cs, S) == IsSequence(cs) /\ \A k \in DOMAIN cs : cs[k].members \subseteq S

LEMMA LeafIs == ASSUME NEW members, NEW parent PROVE Leaf(members, parent).members = members
  BY DEF Leaf

LEMMA CompletedFinite ==
  ASSUME NEW g, IsGraph(g), NEW source PROVE IsFiniteSet(NodeIds(Completed(g, source)))
  <1>1. CASE CodeNodes(g) = {} /\ source
    <2> DEFINE nodes == Over(g.nodes, Extracted.nodes)
               edges == g.edges \cup Extracted.edges
    <2>1. DOMAIN nodes = NodeIds(g) \cup NodeIds(Extracted)
      BY DEF Over, NodeIds
    <2>2. IsFiniteSet(NodeIds(g) \cup NodeIds(Extracted))
      BY InferenceAssumption, FS_Union DEF InferenceAssumption, IsGraph
    <2>3. Completed(g, source) = [g EXCEPT !.nodes = nodes, !.edges = edges]
      BY <1>1 DEF Completed
    <2> HIDE DEF nodes, edges
    <2>4. Completed(g, source).nodes = nodes
      BY <2>3, WithNodesAndEdges DEF IsGraph
    <2> QED BY <2>1, <2>2, <2>4 DEF NodeIds
  <1>2. CASE ~ (CodeNodes(g) = {} /\ source)
    BY <1>2 DEF Completed, IsGraph
  <1> QED BY <1>1, <1>2

LEMMA NetworkOfFiles == ASSUME NEW g PROVE DOMAIN Network(g) = Files(g) \ IdentifyHubs(g)
  <1>1. ASSUME NEW n, NEW tie PROVE DOMAIN WithTies(n, tie) = DOMAIN n
    BY DEF WithTies
  <1>2. \A n : /\ DOMAIN AddDirColocation(n) = DOMAIN n
               /\ DOMAIN AddSymbolSimilarity(n, g) = DOMAIN n
               /\ DOMAIN AddCoCitation(n, g) = DOMAIN n
    BY <1>1 DEF AddDirColocation, AddSymbolSimilarity, AddCoCitation
  <1>3. DOMAIN ExcludeHubs(BuildNetwork(g), IdentifyHubs(g)) = Files(g) \ IdentifyHubs(g)
    BY DEF ExcludeHubs, ExtractSubgraph, BuildNetwork
  <1> QED BY <1>2, <1>3 DEF Network

LEMMA PartsAreAmong ==
  ASSUME NEW S, NEW p \in Partitions(S), NEW c \in p PROVE c \subseteq S
  BY DEF Partitions

LEMMA SplitMegaAmong ==
  ASSUME NEW S, NEW cs, cs \subseteq SUBSET S, NEW n, NEW split \in SplitMegaClusters(cs, n)
  PROVE  split \subseteq SUBSET S
  <1>1. PICK s \in [cs -> UNION {Partitions(c) : c \in cs}] : split = UNION {s[c] : c \in cs}
    BY DEF SplitMegaClusters
  <1>2. ASSUME NEW c \in cs, NEW d \in s[c] PROVE d \subseteq S
    <2>1. PICK e \in cs : s[c] \in Partitions(e)
      BY <1>1
    <2>2. d \subseteq e
      BY <1>2, <2>1, PartsAreAmong
    <2> QED BY <2>2
  <1> QED BY <1>1, <1>2

LEMMA FlatRow ==
  ASSUME NEW S, IsFiniteSet(S), NEW cs, cs \subseteq SUBSET S
  PROVE  IsRow(BuildFlatClusters(cs), S)
  <1> DEFINE leaves == {Leaf(c, 0) : c \in cs}
             f == [c \in cs |-> Leaf(c, 0)]
  <1>1. IsFiniteSet(cs)
    BY FS_SUBSET, FS_Subset
  <1>2. DOMAIN f = cs /\ {f[c] : c \in DOMAIN f} = leaves
    OBVIOUS
  <1>3. \A x \in leaves : x.members \subseteq S
    BY LeafIs
  <1> HIDE DEF f, leaves
  <1>4. IsFiniteSet(leaves)
    BY <1>1, <1>2, FiniteImage
  <1>5. IsSequence(SetToSeq(leaves)) /\ ToSet(SetToSeq(leaves)) \subseteq leaves
    BY <1>4, SetToSeqIs
  <1>6. BuildFlatClusters(cs) = SetToSeq(leaves)
    BY DEF BuildFlatClusters, leaves
  <1>7. \A k \in DOMAIN SetToSeq(leaves) : SetToSeq(leaves)[k] \in leaves
    BY <1>5 DEF ToSet
  <1> QED BY <1>3, <1>5, <1>6, <1>7 DEF IsRow

\* Each of the files U is in exactly one cluster of a row, and no other file is in any.
Once(cs, U) ==
  /\ UNION {cs[k].members : k \in DOMAIN cs} = U
  /\ \A i, j \in DOMAIN cs : i # j => cs[i].members \cap cs[j].members = {}

\* Clusters and what is in none of them are all of S, none of it twice.
Divides(cs, rest, S) ==
  /\ rest \subseteq S /\ \A c \in cs : c \subseteq S /\ c \cap rest = {}
  /\ \A x \in S : x \in rest \/ \E c \in cs : x \in c
  /\ \A c, d \in cs : c # d => c \cap d = {}

\* Children are clusters of the row.
ChildrenIn(c, n) == \A j \in 1..Len(c.children) : c.children[j] \in 1..n
IsForest(cs) == \A k \in DOMAIN cs : ChildrenIn(cs[k], Len(cs))

\* What a cluster is split into: itself, or leaves in its place.
IsSplit(c, row) ==
  /\ IsSequence(row) /\ Len(row) > 0
  /\ \/ row = <<c>>
     \/ c.children = <<>> /\ \A i \in DOMAIN row : row[i].children = <<>>
  /\ Once(row, c.members)

LEMMA GroupsAre ==
  ASSUME NEW F, IsFiniteSet(F)
  PROVE  /\ IsFiniteSet(GroupsByDir(F)) /\ UNION GroupsByDir(F) = F
         /\ \A c, d \in GroupsByDir(F) : c # d => c \cap d = {}
  <1> DEFINE f == [h \in F |-> {x \in F : ParentDir(x) = ParentDir(h)}]
  <1>1. DOMAIN f = F /\ {f[h] : h \in DOMAIN f} = GroupsByDir(F)
    BY DEF GroupsByDir
  <1> HIDE DEF f
  <1>2. IsFiniteSet(GroupsByDir(F))
    BY <1>1, FiniteImage
  <1> DEFINE with(h) == {x \in F : ParentDir(x) = ParentDir(h)}
  <1>3. GroupsByDir(F) = {with(h) : h \in F}
    BY DEF GroupsByDir
  <1>4. \A h \in F : h \in with(h) /\ with(h) \subseteq F
    OBVIOUS
  <1>5. ASSUME NEW h \in F, NEW i \in F, with(h) # with(i) PROVE with(h) \cap with(i) = {}
    <2>1. ParentDir(h) # ParentDir(i)
      BY <1>5
    <2> QED BY <2>1
  <1> HIDE DEF with
  <1>6. UNION GroupsByDir(F) = F
    BY <1>3, <1>4
  <1>7. \A c, d \in GroupsByDir(F) : c # d => c \cap d = {}
    BY <1>3, <1>5
  <1> QED BY <1>2, <1>6, <1>7

LEMMA OneIsSplit == ASSUME NEW c PROVE IsSplit(c, <<c>>)
  <1> DEFINE row == <<c>>
  <1>1. row \in Seq({c}) /\ DOMAIN row = {1} /\ row[1] = c /\ Len(row) = 1 /\ row = <<c>>
    OBVIOUS
  <1> HIDE DEF row
  <1>2. Once(row, c.members)
    BY <1>1 DEF Once
  <1>3. IsSequence(row)
    BY <1>1, SeqIsSequence
  <1>4. IsSplit(c, row)
    BY <1>1, <1>2, <1>3 DEF IsSplit
  <1> QED BY <1>4 DEF row

LEMMA LeavesAreSplit ==
  ASSUME NEW c, IsFiniteSet(c.members), c.members # {}, c.children = <<>>
  PROVE  IsSplit(c, [k \in 1..Len(SetToSeq(GroupsByDir(c.members))) |->
                       Leaf(SetToSeq(GroupsByDir(c.members))[k], c.parent)])
  <1> DEFINE G == GroupsByDir(c.members)
             q == SetToSeq(G)
             row == [k \in 1..Len(q) |-> Leaf(q[k], c.parent)]
  <1>1. /\ IsFiniteSet(G) /\ UNION G = c.members
        /\ \A a, b \in G : a # b => a \cap b = {}
    BY GroupsAre
  <1> HIDE DEF G
  <1>2. /\ IsSequence(q) /\ ToSet(q) = G
        /\ \A i, j \in DOMAIN q : q[i] = q[j] => i = j
    BY <1>1, SetToSeqIs
  <1> HIDE DEF q
  <1>3. Len(q) \in Nat /\ DOMAIN q = 1..Len(q) /\ G = {q[k] : k \in 1..Len(q)}
    BY <1>2 DEF IsSequence, ToSet
  <1>4. /\ DOMAIN row = 1..Len(q) /\ row = [k \in 1..Len(q) |-> row[k]]
        /\ \A k \in 1..Len(q) : row[k].members = q[k] /\ row[k].children = <<>>
    BY DEF Leaf
  <1> HIDE DEF row
  <1>5. IsSequence(row)
    BY <1>3, <1>4, FunctionIsSequence
  <1>6. Len(row) > 0
    <2>1. 1..Len(q) # {}
      BY <1>1, <1>3
    <2>2. Len(row) \in Nat /\ DOMAIN row = 1..Len(row)
      BY <1>5 DEF IsSequence
    <2> QED BY <1>4, <2>1, <2>2
  <1>7. {row[k].members : k \in DOMAIN row} = G
    BY <1>3, <1>4
  <1>8. Once(row, c.members)
    <2>1. UNION {row[k].members : k \in DOMAIN row} = c.members
      BY <1>1, <1>7
    <2>2. ASSUME NEW i \in DOMAIN row, NEW j \in DOMAIN row, i # j
          PROVE  row[i].members \cap row[j].members = {}
      <3>1. q[i] \in G /\ q[j] \in G /\ q[i] # q[j]
        BY <1>2, <1>3, <1>4, <2>2
      <3> QED BY <1>1, <1>4, <3>1
    <2> QED BY <2>1, <2>2 DEF Once
  <1>9. IsSplit(c, row)
    BY <1>4, <1>5, <1>6, <1>8 DEF IsSplit
  <1> QED BY <1>9 DEF row, q, G

LEMMA SplitIs ==
  ASSUME NEW cs, IsSequence(cs), \A k \in DOMAIN cs : IsFiniteSet(cs[k].members), NEW n \in Nat
  PROVE  \E parts, ends :
           /\ \A k \in 1..Len(cs) : IsSplit(cs[k], parts[k])
           /\ Pieces(parts, Len(cs), SplitOversizedByDirectory(cs, n), ends)
  <1> DEFINE groups(c) == SetToSeq(GroupsByDir(c.members))
             leaves(c) == [k \in 1..Len(groups(c)) |-> Leaf(groups(c)[k], c.parent)]
             split(c) == IF c.children = <<>> /\ Cardinality(c.members) > n
                         THEN leaves(c) ELSE <<c>>
             all == [k \in 1..Len(cs) |-> split(cs[k])]
  <1>1. SplitOversizedByDirectory(cs, n) = FlattenSeq(all)
    BY DEF SplitOversizedByDirectory
  <1>2. Len(cs) \in Nat /\ DOMAIN cs = 1..Len(cs)
    BY DEF IsSequence
  <1>3. ASSUME NEW c, IsFiniteSet(c.members) PROVE IsSplit(c, split(c))
    <2>1. CASE c.children = <<>> /\ Cardinality(c.members) > n
      <3>1. c.members # {}
        <4> SUFFICES ASSUME c.members = {} PROVE FALSE
          OBVIOUS
        <4>1. Cardinality(c.members) = 0
          BY FS_EmptySet
        <4>2. Cardinality(c.members) > n
          BY <2>1
        <4> QED BY <4>1, <4>2
      <3>2. split(c) = leaves(c)
        BY <2>1
      <3>3. IsSplit(c, leaves(c))
        BY <1>3, <2>1, <3>1, LeavesAreSplit
      <3> HIDE DEF leaves, split
      <3> QED BY <3>2, <3>3
    <2>2. CASE ~ (c.children = <<>> /\ Cardinality(c.members) > n)
      <3>1. split(c) = <<c>>
        BY <2>2
      <3> HIDE DEF split
      <3> QED BY <3>1, OneIsSplit
    <2> QED BY <2>1, <2>2
  <1> HIDE DEF split
  <1>4. /\ DOMAIN all = 1..Len(cs) /\ all = [k \in 1..Len(cs) |-> all[k]]
        /\ \A k \in 1..Len(cs) : IsSplit(cs[k], all[k])
    BY <1>2, <1>3
  <1> HIDE DEF all
  <1>5. IsSequence(all) /\ \A k \in DOMAIN all : IsSequence(all[k])
    BY <1>2, <1>4, FunctionIsSequence DEF IsSplit
  <1>6. Len(all) = Len(cs)
    <2>1. Len(all) \in Nat /\ DOMAIN all = 1..Len(all)
      BY <1>5 DEF IsSequence
    <2> QED BY <1>2, <1>4, <2>1
  <1>7. \E ends : Pieces(all, Len(all), FlattenSeq(all), ends)
    BY <1>5, FlattenPieces
  <1> QED BY <1>1, <1>4, <1>6, <1>7

\* Rows one after another, each with the files B[k], of files U, that no other has.
AreOnce(rows, B, n, U) ==
  /\ \A k \in 1..n : IsSequence(rows[k]) /\ Once(rows[k], B[k])
  /\ \A k, l \in 1..n : k # l => B[k] \cap B[l] = {}
  /\ UNION {B[k] : k \in 1..n} = U

LEMMA PlacedOnce ==
  ASSUME NEW rows, NEW n \in Nat, NEW s, NEW ends, Pieces(rows, n, s, ends),
         NEW B, NEW U, AreOnce(rows, B, n, U)
  PROVE  Once(s, U)
  <1>0. /\ \A k \in 1..n : IsSequence(rows[k]) /\ Once(rows[k], B[k])
        /\ \A k, l \in 1..n : k # l => B[k] \cap B[l] = {}
        /\ UNION {B[k] : k \in 1..n} = U
    BY DEF AreOnce
  <1>1. ASSUME NEW k \in 1..n PROVE DOMAIN rows[k] = 1..Len(rows[k])
    BY <1>0 DEF IsSequence
  <1>2. ASSUME NEW p \in DOMAIN s
        PROVE  \E k \in 1..n : \E j \in DOMAIN rows[k] :
                 p = ends[k - 1] + j /\ s[p] = rows[k][j] /\ s[p].members \subseteq B[k]
    <2>1. PICK k \in 1..n : \E j \in 1..Len(rows[k]) : p = ends[k - 1] + j
      BY DEF Pieces
    <2>2. PICK j \in 1..Len(rows[k]) : p = ends[k - 1] + j
      BY <2>1
    <2>3. s[p] = rows[k][j]
      BY <2>2 DEF Pieces
    <2>4. j \in DOMAIN rows[k]
      BY <1>1
    <2>5. rows[k][j].members \subseteq B[k]
      BY <1>0, <2>4 DEF Once
    <2> QED BY <2>2, <2>3, <2>4, <2>5
  <1>3. ASSUME NEW f \in U PROVE \E p \in DOMAIN s : f \in s[p].members
    <2>1. PICK k \in 1..n : f \in B[k]
      BY <1>0
    <2>2. PICK j \in DOMAIN rows[k] : f \in rows[k][j].members
      BY <1>0, <2>1 DEF Once
    <2>3. ends[k - 1] + j \in DOMAIN s /\ s[ends[k - 1] + j] = rows[k][j]
      BY <1>1, <2>2 DEF Pieces
    <2> QED BY <2>2, <2>3
  <1>4. ASSUME NEW p \in DOMAIN s, NEW q \in DOMAIN s, p # q
        PROVE  s[p].members \cap s[q].members = {}
    <2>1. PICK k \in 1..n : \E j \in DOMAIN rows[k] :
                 p = ends[k - 1] + j /\ s[p] = rows[k][j] /\ s[p].members \subseteq B[k]
      BY <1>2
    <2>2. PICK i \in DOMAIN rows[k] : p = ends[k - 1] + i /\ s[p] = rows[k][i]
      BY <2>1
    <2>3. PICK l \in 1..n : \E j \in DOMAIN rows[l] :
                 q = ends[l - 1] + j /\ s[q] = rows[l][j] /\ s[q].members \subseteq B[l]
      BY <1>2
    <2>4. PICK j \in DOMAIN rows[l] : q = ends[l - 1] + j /\ s[q] = rows[l][j]
      BY <2>3
    <2>5. CASE k = l
      <3>1. i # j
        BY <1>4, <2>2, <2>4, <2>5
      <3> QED BY <1>0, <2>2, <2>4, <2>5, <3>1 DEF Once
    <2>6. CASE k # l
      <3>1. B[k] \cap B[l] = {}
        BY <1>0, <2>6
      <3> QED BY <2>1, <2>3, <3>1
    <2> QED BY <2>5, <2>6
  <1>5. UNION {s[p].members : p \in DOMAIN s} = U
    <2>1. ASSUME NEW p \in DOMAIN s PROVE s[p].members \subseteq U
      BY <1>0, <1>2
    <2> QED BY <1>3, <2>1
  <1> QED BY <1>4, <1>5 DEF Once

\* Splitting keeps what rows are.
LEMMA SplitKeeps ==
  ASSUME NEW S, IsFiniteSet(S), NEW cs, IsRow(cs, S), NEW n \in Nat
  PROVE  /\ IsRow(SplitOversizedByDirectory(cs, n), S)
         /\ IsForest(cs) => IsForest(SplitOversizedByDirectory(cs, n))
         /\ \A U : Once(cs, U) => Once(SplitOversizedByDirectory(cs, n), U)
  <1> DEFINE N == Len(cs)
             after == SplitOversizedByDirectory(cs, n)
  <1>1. IsSequence(cs) /\ \A k \in DOMAIN cs : cs[k].members \subseteq S /\ IsFiniteSet(cs[k].members)
    BY FS_Subset DEF IsRow
  <1>2. N \in Nat /\ DOMAIN cs = 1..N
    BY <1>1 DEF IsSequence
  <1>3. PICK parts : \E ends :
           /\ \A k \in 1..N : IsSplit(cs[k], parts[k])
           /\ Pieces(parts, N, after, ends)
    BY <1>1, SplitIs
  <1> HIDE DEF N, after
  <1>4. PICK ends :
           /\ \A k \in 1..N : IsSplit(cs[k], parts[k])
           /\ Pieces(parts, N, after, ends)
    BY <1>3
  <1>5. ASSUME NEW k \in 1..N
        PROVE  Len(parts[k]) \in Nat /\ Len(parts[k]) > 0 /\ DOMAIN parts[k] = 1..Len(parts[k])
    BY <1>4 DEF IsSplit, IsSequence
  <1>6. N <= Len(after) /\ Len(after) \in Nat /\ DOMAIN after = 1..Len(after)
    <2>1. \A k \in 0..N : k <= ends[k]
      BY <1>2, <1>4, <1>5, PiecesNotFewer
    <2> QED BY <1>2, <1>4, <2>1 DEF Pieces
  <1>7. ASSUME NEW p \in DOMAIN after
        PROVE  \E k \in 1..N : \E j \in DOMAIN parts[k] : p = ends[k - 1] + j /\ after[p] = parts[k][j]
    <2>1. PICK k \in 1..N : \E j \in 1..Len(parts[k]) : p = ends[k - 1] + j
      BY <1>4 DEF Pieces
    <2>2. PICK j \in 1..Len(parts[k]) : p = ends[k - 1] + j
      BY <2>1
    <2>3. after[p] = parts[k][j]
      BY <1>4, <2>2 DEF Pieces
    <2> QED BY <1>5, <2>2, <2>3
  <1>8. ASSUME NEW k \in 1..N, NEW j \in DOMAIN parts[k]
        PROVE  /\ parts[k][j].members \subseteq cs[k].members
               /\ \/ parts[k][j] = cs[k]
                  \/ cs[k].children = <<>> /\ parts[k][j].children = <<>>
    <2>1. IsSplit(cs[k], parts[k])
      BY <1>4
    <2>2. parts[k][j].members \subseteq cs[k].members
      BY <2>1 DEF IsSplit, Once
    <2>3. CASE parts[k] = <<cs[k]>>
      BY <2>2, <2>3
    <2> QED BY <2>1, <2>2, <2>3 DEF IsSplit
  <1>9. IsRow(after, S)
    <2>1. \A p \in DOMAIN after : after[p].members \subseteq S
      BY <1>1, <1>2, <1>7, <1>8
    <2> QED BY <1>4, <2>1 DEF IsRow, Pieces
  <1>10. ASSUME IsForest(cs) PROVE IsForest(after)
    <2> SUFFICES ASSUME NEW p \in DOMAIN after PROVE ChildrenIn(after[p], Len(after))
      BY DEF IsForest
    <2>1. PICK k \in 1..N : \E j \in DOMAIN parts[k] : p = ends[k - 1] + j /\ after[p] = parts[k][j]
      BY <1>7
    <2>2. after[p] = cs[k] \/ after[p].children = <<>>
      BY <1>8, <2>1
    <2>3. CASE after[p] = cs[k]
      BY <1>2, <1>6, <1>10, <2>3 DEF IsForest, ChildrenIn, N
    <2>4. CASE after[p].children = <<>>
      BY <2>4 DEF ChildrenIn
    <2> QED BY <2>2, <2>3, <2>4
  <1>11. ASSUME NEW U, Once(cs, U) PROVE Once(after, U)
    <2> DEFINE B == [k \in 1..N |-> cs[k].members]
    <2>1. /\ \A k \in 1..N : B[k] = cs[k].members
          /\ {B[k] : k \in 1..N} = {cs[k].members : k \in DOMAIN cs}
      BY <1>2
    <2> HIDE DEF B
    <2>2. \A k \in 1..N : IsSequence(parts[k]) /\ Once(parts[k], B[k])
      BY <1>4, <2>1 DEF IsSplit
    <2>3. AreOnce(parts, B, N, U)
      BY <1>2, <1>11, <2>1, <2>2 DEF AreOnce, Once
    <2> QED BY <1>2, <1>4, <2>3, PlacedOnce
  <1> QED BY <1>9, <1>10, <1>11 DEF after

LEMMA ConcatOnce ==
  ASSUME NEW s, IsSequence(s), NEW t, IsSequence(t), NEW A, Once(s, A), NEW B, Once(t, B),
         A \cap B = {}
  PROVE  Once(s \o t, A \cup B)
  <1> DEFINE both == s \o t
  <1>1. /\ Len(s) \in Nat /\ Len(t) \in Nat
        /\ DOMAIN s = 1..Len(s) /\ DOMAIN t = 1..Len(t)
        /\ DOMAIN both = 1..(Len(s) + Len(t))
        /\ \A i \in 1..Len(s) : both[i] = s[i]
        /\ \A j \in 1..Len(t) : both[Len(s) + j] = t[j]
    BY ConcatPieces
  <1> HIDE DEF both
  <1>2. ASSUME NEW p \in DOMAIN both
        PROVE  \/ p \in DOMAIN s /\ both[p] = s[p]
               \/ p - Len(s) \in DOMAIN t /\ both[p] = t[p - Len(s)]
    <2>1. CASE p <= Len(s)
      BY <1>1, <2>1
    <2>2. CASE ~ (p <= Len(s))
      <3>1. p - Len(s) \in 1..Len(t) /\ p = Len(s) + (p - Len(s))
        BY <1>1, <2>2
      <3> QED BY <1>1, <3>1
    <2> QED BY <2>1, <2>2
  <1>3. ASSUME NEW i \in DOMAIN s PROVE i \in DOMAIN both /\ both[i] = s[i] /\ s[i].members \subseteq A
    BY <1>1 DEF Once
  <1>4. ASSUME NEW i \in DOMAIN t
        PROVE  Len(s) + i \in DOMAIN both /\ both[Len(s) + i] = t[i] /\ t[i].members \subseteq B
    BY <1>1 DEF Once
  <1>5. UNION {both[p].members : p \in DOMAIN both} = A \cup B
    <2>1. ASSUME NEW p \in DOMAIN both PROVE both[p].members \subseteq A \cup B
      BY <1>2, <1>3, <1>4
    <2>2. ASSUME NEW f \in A PROVE \E p \in DOMAIN both : f \in both[p].members
      BY <1>3 DEF Once
    <2>3. ASSUME NEW f \in B PROVE \E p \in DOMAIN both : f \in both[p].members
      BY <1>4 DEF Once
    <2> QED BY <2>1, <2>2, <2>3
  <1>6. ASSUME NEW p \in DOMAIN both, NEW q \in DOMAIN both, p # q
        PROVE  both[p].members \cap both[q].members = {}
    <2>1. CASE p \in DOMAIN s /\ both[p] = s[p] /\ q \in DOMAIN s /\ both[q] = s[q]
      BY <1>6, <2>1 DEF Once
    <2>2. CASE /\ p - Len(s) \in DOMAIN t /\ both[p] = t[p - Len(s)]
               /\ q - Len(s) \in DOMAIN t /\ both[q] = t[q - Len(s)]
      <3>1. p - Len(s) # q - Len(s)
        BY <1>1, <1>6
      <3> QED BY <2>2, <3>1 DEF Once
    <2>3. CASE p \in DOMAIN s /\ both[p] = s[p] /\ q - Len(s) \in DOMAIN t /\ both[q] = t[q - Len(s)]
      BY <1>3, <1>4, <2>3
    <2>4. CASE q \in DOMAIN s /\ both[q] = s[q] /\ p - Len(s) \in DOMAIN t /\ both[p] = t[p - Len(s)]
      BY <1>3, <1>4, <2>4
    <2> QED BY <1>2, <2>1, <2>2, <2>3, <2>4
  <1> QED BY <1>5, <1>6 DEF Once, both

LEMMA OneRow ==
  ASSUME NEW c
  PROVE  /\ IsSequence(<<c>>) /\ DOMAIN <<c>> = {1} /\ <<c>>[1] = c /\ Len(<<c>>) = 1
         /\ Once(<<c>>, c.members)
  <1> DEFINE row == <<c>>
  <1>1. row \in Seq({c}) /\ DOMAIN row = {1} /\ row[1] = c /\ Len(row) = 1
    OBVIOUS
  <1> HIDE DEF row
  <1>2. IsSequence(row)
    BY <1>1, SeqIsSequence
  <1>3. Once(row, c.members)
    BY <1>1 DEF Once
  <1> QED BY <1>1, <1>2, <1>3 DEF row

\* Infomap's trees: modules of one set of files or several, all disjoint.
Below(row) == UNION {row[j] : j \in 1..Len(row)}
IsModule(row) ==
  /\ Len(row) \in Nat /\ Len(row) > 0
  /\ \A i, j \in 1..Len(row) : i # j => row[i] \cap row[j] = {}
IsTree(top, S) ==
  /\ Len(top) \in Nat /\ Len(top) > 0
  /\ \A k \in 1..Len(top) : IsModule(top[k])
  /\ \A k, l \in 1..Len(top) : k # l => Below(top[k]) \cap Below(top[l]) = {}
  /\ UNION {Below(top[k]) : k \in 1..Len(top)} = S
  /\ Len(top) = 1 => Len(top[1]) = 1

LEMMA OneModule == ASSUME NEW a PROVE IsModule(<<a>>) /\ Below(<<a>>) = a
  <1> DEFINE row == <<a>>
  <1>1. Len(row) = 1 /\ row[1] = a /\ 1..1 = {1}
    OBVIOUS
  <1> HIDE DEF row
  <1>2. IsModule(row) /\ Below(row) = a
    BY <1>1 DEF IsModule, Below
  <1> QED BY <1>2 DEF row

LEMMA TwoModule ==
  ASSUME NEW a, NEW b, a \cap b = {} PROVE IsModule(<<a, b>>) /\ Below(<<a, b>>) = a \cup b
  <1> DEFINE row == <<a, b>>
  <1>1. Len(row) = 2 /\ row[1] = a /\ row[2] = b /\ 1..2 = {1, 2}
    OBVIOUS
  <1> HIDE DEF row
  <1>2. IsModule(row)
    BY <1>1 DEF IsModule
  <1>3. Below(row) = UNION {row[i] : i \in {1, 2}}
    BY <1>1 DEF Below
  <1>4. UNION {row[i] : i \in {1, 2}} = a \cup b
    BY <1>1
  <1>5. IsModule(row) /\ Below(row) = a \cup b
    BY <1>2, <1>3, <1>4
  <1> QED BY <1>5 DEF row

LEMMA TwoAreTree ==
  ASSUME NEW r, IsModule(r), NEW s, IsModule(s), Below(r) \cap Below(s) = {}
  PROVE  IsTree(<<r, s>>, Below(r) \cup Below(s)) /\ Len(<<r, s>>) = 2
  <1> DEFINE top == <<r, s>>
  <1>1. Len(top) = 2 /\ top[1] = r /\ top[2] = s /\ 1..2 = {1, 2}
    OBVIOUS
  <1> HIDE DEF top
  <1>2. UNION {Below(top[k]) : k \in {1, 2}} = Below(r) \cup Below(s)
    BY <1>1
  <1>3. IsTree(top, Below(r) \cup Below(s))
    BY <1>1, <1>2 DEF IsTree
  <1> QED BY <1>1, <1>3 DEF top

LEMMA OneIsTree == ASSUME NEW S PROVE IsTree(<< <<S>> >>, S) /\ Len(<< <<S>> >>) = 1
  <1> DEFINE r == <<S>>
             top == <<r>>
  <1>1. IsModule(r) /\ Below(r) = S /\ Len(r) = 1
    BY OneModule, TwoModule
  <1> HIDE DEF r
  <1>2. Len(top) = 1 /\ top[1] = r /\ 1..1 = {1}
    OBVIOUS
  <1> HIDE DEF top
  <1>3. IsTree(top, S)
    BY <1>1, <1>2 DEF IsTree
  <1> QED BY <1>2, <1>3 DEF top, r

\* The parts of a partition, in some order.
LEMMA PartsInOrder ==
  ASSUME NEW S, IsFiniteSet(S), NEW p \in Partitions(S), NEW q \in SetToSeqs(p)
  PROVE  /\ Len(q) \in Nat /\ DOMAIN q = 1..Len(q)
         /\ UNION {q[i] : i \in 1..Len(q)} = S
         /\ \A i, j \in 1..Len(q) : i # j => q[i] \cap q[j] = {}
  <1>1. p \subseteq SUBSET S /\ UNION p = S /\ \A c, d \in p : c # d => c \cap d = {}
    <2>1. PICK f \in [S -> S] : p = {{x \in S : f[x] = k} : k \in {f[x] : x \in S}}
      BY DEF Partitions
    <2> DEFINE with(k) == {x \in S : f[x] = k}
               K == {f[x] : x \in S}
    <2>2. p = {with(k) : k \in K}
      BY <2>1
    <2>3. \A x \in S : f[x] \in K /\ x \in with(f[x])
      OBVIOUS
    <2>4. ASSUME NEW k, NEW l, with(k) # with(l) PROVE with(k) \cap with(l) = {}
      <3>1. k # l
        BY <2>4
      <3> QED BY <3>1
    <2>5. \A k : with(k) \subseteq S
      OBVIOUS
    <2> HIDE DEF with, K
    <2> QED BY <2>2, <2>3, <2>4, <2>5
  <1>2. IsFiniteSet(p)
    BY <1>1, FS_SUBSET, FS_Subset
  <1> DEFINE n == Cardinality(p)
  <1>3. n \in Nat
    BY <1>2, FS_CardinalityType
  <1>4. q \in [1..n -> p] /\ \A i, j \in 1..n : i # j => q[i] # q[j]
    BY DEF SetToSeqs
  <1>5. q \in Injection(1..n, p)
    <2>1. \A i, j \in 1..n : q[i] = q[j] => i = j
      BY <1>4
    <2> QED BY <1>4, <2>1 DEF Injection, IsInjective
  <1>6. Cardinality(1..n) = n
    <2> HIDE DEF n
    <2>1. Cardinality(1..n) = IF 1 > n THEN 0 ELSE n - 1 + 1
      BY <1>3, FS_Interval
    <2> QED BY <1>3, <2>1
  <1>7. q \in Surjection(1..n, p)
    <2>1. Cardinality(1..n) = Cardinality(p)
      BY <1>6
    <2> HIDE DEF n
    <2> QED BY <1>2, <1>5, <2>1, FS_Injection
  <1> HIDE DEF n
  <1>8. Len(q) = n /\ DOMAIN q = 1..n
    BY <1>3, <1>4
  <1>9. {q[i] : i \in 1..n} = p
    BY <1>4, <1>7 DEF Surjection
  <1>10. \A i, j \in 1..n : i # j => q[i] \cap q[j] = {}
    BY <1>1, <1>4
  <1> QED BY <1>1, <1>3, <1>8, <1>9, <1>10

LEMMA TreesAre ==
  ASSUME NEW S, IsFiniteSet(S), NEW top \in Trees(S) PROVE IsTree(top, S)
  <1> DEFINE rows(n) == {q \in UNION {SetToSeqs(p) : p \in Partitions(S)} : Len(q) = n}
  <1>1. ASSUME NEW n, NEW q \in rows(n)
        PROVE  /\ Len(q) = n /\ UNION {q[i] : i \in 1..n} = S
               /\ \A i, j \in 1..n : i # j => q[i] \cap q[j] = {}
    <2>1. PICK p \in Partitions(S) : q \in SetToSeqs(p)
      OBVIOUS
    <2>2. Len(q) = n
      OBVIOUS
    <2> HIDE DEF rows
    <2> QED BY <2>1, <2>2, PartsInOrder
  <1>6. /\ \A q \in rows(2) : UNION {q[i] : i \in 1..2} = S
                              /\ \A i, j \in 1..2 : i # j => q[i] \cap q[j] = {}
        /\ \A q \in rows(3) : UNION {q[i] : i \in 1..3} = S
                              /\ \A i, j \in 1..3 : i # j => q[i] \cap q[j] = {}
    <2> HIDE DEF rows
    <2> QED BY <1>1
  <1>2. CASE top = << <<S>> >>
    BY <1>2, OneIsTree
  <1>3. CASE \E q \in rows(2) : top = << <<q[1]>>, <<q[2]>> >>
    <2>1. PICK q \in rows(2) : top = << <<q[1]>>, <<q[2]>> >>
      BY <1>3
    <2>2. UNION {q[i] : i \in 1..2} = S /\ \A i, j \in 1..2 : i # j => q[i] \cap q[j] = {}
      BY <1>6
    <2> DEFINE a == q[1]
               b == q[2]
    <2>3. top = << <<a>>, <<b>> >>
      BY <2>1
    <2>4. a \cup b = S /\ a \cap b = {}
      <3>1. 1..2 = {1, 2}
        OBVIOUS
      <3> QED BY <2>2, <3>1
    <2> HIDE DEF a, b
    <2>5. IsModule(<<a>>) /\ Below(<<a>>) = a /\ IsModule(<<b>>) /\ Below(<<b>>) = b
      BY OneModule, TwoModule
    <2>6. IsTree(<< <<a>>, <<b>> >>, a \cup b)
      BY <2>4, <2>5, TwoAreTree
    <2> QED BY <2>3, <2>4, <2>6
  <1>4. CASE \E q \in rows(3) : top \in {<< <<q[1]>>, <<q[2], q[3]>> >>, << <<q[1], q[2]>>, <<q[3]>> >>}
    <2>1. PICK q \in rows(3) :
            top \in {<< <<q[1]>>, <<q[2], q[3]>> >>, << <<q[1], q[2]>>, <<q[3]>> >>}
      BY <1>4
    <2>2. UNION {q[i] : i \in 1..3} = S /\ \A i, j \in 1..3 : i # j => q[i] \cap q[j] = {}
      BY <1>6
    <2> DEFINE a == q[1]
               b == q[2]
               c == q[3]
    <2>3. top = << <<a>>, <<b, c>> >> \/ top = << <<a, b>>, <<c>> >>
      BY <2>1
    <2>4. a \cup b \cup c = S /\ a \cap b = {} /\ a \cap c = {} /\ b \cap c = {}
      <3>1. 1..3 = {1, 2, 3}
        OBVIOUS
      <3> QED BY <2>2, <3>1
    <2> HIDE DEF a, b, c
    <2>5. CASE top = << <<a>>, <<b, c>> >>
      <3>1. IsModule(<<a>>) /\ Below(<<a>>) = a /\ IsModule(<<b, c>>) /\ Below(<<b, c>>) = b \cup c
        BY <2>4, OneModule, TwoModule
      <3>2. a \cap (b \cup c) = {} /\ a \cup (b \cup c) = S
        BY <2>4
      <3>3. IsTree(<< <<a>>, <<b, c>> >>, Below(<<a>>) \cup Below(<<b, c>>))
        BY <3>1, <3>2, TwoAreTree
      <3> QED BY <2>5, <3>1, <3>2, <3>3
    <2>6. CASE top = << <<a, b>>, <<c>> >>
      <3>1. IsModule(<<a, b>>) /\ Below(<<a, b>>) = a \cup b /\ IsModule(<<c>>) /\ Below(<<c>>) = c
        BY <2>4, OneModule, TwoModule
      <3>2. (a \cup b) \cap c = {} /\ (a \cup b) \cup c = S
        BY <2>4
      <3>3. IsTree(<< <<a, b>>, <<c>> >>, Below(<<a, b>>) \cup Below(<<c>>))
        BY <3>1, <3>2, TwoAreTree
      <3> QED BY <2>6, <3>1, <3>2, <3>3
    <2> QED BY <2>3, <2>5, <2>6
  <1>5. Trees(S) = {<< <<S>> >>}
           \cup {<< <<q[1]>>, <<q[2]>> >> : q \in rows(2)}
           \cup UNION {{<< <<q[1]>>, <<q[2], q[3]>> >>, << <<q[1], q[2]>>, <<q[3]>> >>} : q \in rows(3)}
    BY DEF Trees
  <1> HIDE DEF rows
  <1> QED BY <1>2, <1>3, <1>4, <1>5

\* What becomes of a module in the row: one leaf, or a cluster with leaves below it.
Branch(row, first) ==
  IF Len(row) = 1 THEN <<Leaf(row[1], 1)>>
  ELSE <<[members |-> {}, parent |-> 1, children |-> [j \in 1..Len(row) |-> first + j]]>>
       \o [j \in 1..Len(row) |-> Leaf(row[j], first)]

LEMMA BranchIs ==
  ASSUME NEW row, IsModule(row), NEW first
  PROVE  /\ IsSequence(Branch(row, first)) /\ Once(Branch(row, first), Below(row))
         /\ Len(Branch(row, first)) = IF Len(row) = 1 THEN 1 ELSE 1 + Len(row)
         /\ \A c \in ToSet(Branch(row, first)) : \A j \in 1..Len(c.children) :
              j \in 1..Len(row) /\ Len(row) # 1 /\ c.children[j] = first + j
  <1> DEFINE n == Len(row)
  <1>1. n \in Nat /\ n > 0 /\ \A i, j \in 1..n : i # j => row[i] \cap row[j] = {}
    BY DEF IsModule
  <1>2. CASE n = 1
    <2> DEFINE c == Leaf(row[1], 1)
    <2>1. Branch(row, first) = <<c>>
      BY <1>2 DEF Branch
    <2>2. c.members = row[1] /\ c.children = <<>>
      BY DEF Leaf
    <2> HIDE DEF c
    <2>3. Below(row) = row[1]
      BY <1>2 DEF Below
    <2>4. /\ IsSequence(<<c>>) /\ DOMAIN <<c>> = {1} /\ <<c>>[1] = c /\ Len(<<c>>) = 1
          /\ Once(<<c>>, c.members)
      BY OneRow
    <2>5. ToSet(<<c>>) = {c} /\ 1..Len(<<>>) = {}
      BY <2>4 DEF ToSet
    <2> QED BY <1>2, <2>1, <2>2, <2>3, <2>4, <2>5
  <1>3. CASE n # 1
    <2> DEFINE children == [j \in 1..n |-> first + j]
               node == [members |-> {}, parent |-> 1, children |-> children]
               leaves == [j \in 1..n |-> Leaf(row[j], first)]
    <2>1. Branch(row, first) = <<node>> \o leaves
      BY <1>3 DEF Branch
    <2>2. Len(children) = n /\ \A j \in 1..n : children[j] = first + j
      <3>1. DOMAIN children = 1..n /\ children = [j \in 1..n |-> children[j]]
        OBVIOUS
      <3>2. \A j \in 1..n : children[j] = first + j
        OBVIOUS
      <3> HIDE DEF children, n
      <3>3. IsSequence(children)
        BY <1>1, <3>1, FunctionIsSequence
      <3>4. Len(children) \in Nat /\ DOMAIN children = 1..Len(children)
        BY <3>3 DEF IsSequence
      <3> QED BY <1>1, <3>1, <3>2, <3>4
    <2> HIDE DEF children
    <2>3. node.members = {} /\ node.children = children
      OBVIOUS
    <2>4. /\ DOMAIN leaves = 1..n /\ leaves = [j \in 1..n |-> leaves[j]]
          /\ \A j \in 1..n : leaves[j].members = row[j] /\ leaves[j].children = <<>>
      BY DEF Leaf
    <2> HIDE DEF node, leaves
    <2>5. IsSequence(leaves) /\ Len(leaves) = n
      <3>1. IsSequence(leaves)
        BY <1>1, <2>4, FunctionIsSequence
      <3>2. Len(leaves) \in Nat /\ DOMAIN leaves = 1..Len(leaves)
        BY <3>1 DEF IsSequence
      <3> QED BY <1>1, <2>4, <3>1, <3>2
    <2>6. Once(leaves, Below(row))
      <3>1. {leaves[j].members : j \in 1..n} = {row[j] : j \in 1..n}
        BY <2>4
      <3> QED BY <1>1, <2>4, <3>1 DEF Once, Below
    <2>7. IsSequence(<<node>>) /\ Once(<<node>>, {}) /\ ToSet(<<node>>) = {node} /\ Len(<<node>>) = 1
      BY <2>3, OneRow DEF ToSet
    <2>8. Once(<<node>> \o leaves, Below(row))
      <3> DEFINE T == Below(row)
      <3>1. Once(leaves, T)
        BY <2>6
      <3> HIDE DEF T
      <3>2. Once(<<node>> \o leaves, {} \cup T)
        BY <2>5, <2>7, <3>1, ConcatOnce
      <3>3. {} \cup T = T
        OBVIOUS
      <3> QED BY <3>2, <3>3 DEF T
    <2>9. /\ IsSequence(<<node>> \o leaves) /\ Len(<<node>> \o leaves) = 1 + n
      <3> DEFINE one == <<node>>
      <3>1. IsSequence(one) /\ Len(one) = 1
        BY <2>7
      <3> HIDE DEF one, n
      <3>2. IsSequence(one \o leaves) /\ Len(one \o leaves) = Len(one) + Len(leaves)
        BY <2>5, <3>1, ConcatPieces
      <3> QED BY <2>5, <3>1, <3>2 DEF one
    <2>10. ASSUME NEW c \in ToSet(<<node>> \o leaves)
           PROVE  \A j \in 1..Len(c.children) : j \in 1..n /\ n # 1 /\ c.children[j] = first + j
      <3>1. ToSet(<<node>> \o leaves) = {node} \cup ToSet(leaves)
        BY <2>5, <2>7, SequenceConcat
      <3>2. CASE c = node
        BY <1>3, <2>2, <2>3, <3>2
      <3>3. CASE c \in ToSet(leaves)
        <4>1. c.children = <<>>
          BY <2>4, <3>3 DEF ToSet
        <4>2. 1..Len(<<>>) = {}
          OBVIOUS
        <4> QED BY <4>1, <4>2
      <3> QED BY <3>1, <3>2, <3>3
    <2> HIDE DEF n
    <2> QED BY <1>3, <2>1, <2>8, <2>9, <2>10 DEF n
  <1> QED BY <1>2, <1>3

\* A tree in a row: all its files once, children where they are said to be.
LEMMA TreeIs ==
  ASSUME NEW S, NEW top, IsTree(top, S)
  PROVE  LET row == BuildTreeClusters(top)
         IN  IsSequence(row) /\ Once(row, S) /\ IsForest(row)
  <1> DEFINE n == Len(top)
             size(k) == IF Len(top[k]) = 1 THEN 1 ELSE 1 + Len(top[k])
             Is(f) == f = [k \in 1..n |-> IF k = 1 THEN 2 ELSE f[k - 1] + size(k - 1)]
             first[k \in 1..n] == IF k = 1 THEN 2 ELSE first[k - 1] + size(k - 1)
             firsts == [k \in 1..n |-> first[k]]
             root == [members |-> {}, parent |-> 0, children |-> firsts]
             branches == [k \in 1..n |-> Branch(top[k], first[k])]
  <1>1. BuildTreeClusters(top) =
          IF n = 1 THEN <<Leaf(top[1][1], 0)>> ELSE <<root>> \o FlattenSeq(branches)
    BY DEF BuildTreeClusters, Branch
  <1>2. first = CHOOSE f : Is(f)
    OBVIOUS
  <1> HIDE DEF first
  <1>3. /\ n \in Nat /\ n > 0 /\ \A k \in 1..n : IsModule(top[k])
        /\ \A k, l \in 1..n : k # l => Below(top[k]) \cap Below(top[l]) = {}
        /\ UNION {Below(top[k]) : k \in 1..n} = S
    BY DEF IsTree
  <1>4. CASE n = 1
    <2> DEFINE c == Leaf(top[1][1], 0)
    <2>1. c.members = top[1][1] /\ c.children = <<>>
      BY DEF Leaf
    <2>2. BuildTreeClusters(top) = <<c>>
      BY <1>1, <1>4
    <2> HIDE DEF c
    <2>3. S = top[1][1]
      <3>1. 1..1 = {1} /\ Len(top[1]) = 1
        BY <1>4 DEF IsTree
      <3>2. Below(top[1]) = top[1][1]
        BY <3>1 DEF Below
      <3> QED BY <1>3, <1>4, <3>1, <3>2
    <2>4. /\ IsSequence(<<c>>) /\ DOMAIN <<c>> = {1} /\ <<c>>[1] = c /\ Len(<<c>>) = 1
          /\ Once(<<c>>, c.members)
      BY OneRow
    <2> DEFINE row == <<c>>
    <2>5. IsSequence(row) /\ Once(row, S) /\ DOMAIN row = {1} /\ row[1] = c
      BY <2>1, <2>3, <2>4
    <2> HIDE DEF row
    <2>6. IsForest(row)
      <3>1. 1..Len(<<>>) = {}
        OBVIOUS
      <3> QED BY <2>1, <2>5, <3>1 DEF IsForest, ChildrenIn
    <2> QED BY <2>2, <2>5, <2>6 DEF row
  <1>5. CASE n # 1
    <2>1. ASSUME NEW k \in 1..n
          PROVE  /\ IsSequence(Branch(top[k], first[k])) /\ Once(Branch(top[k], first[k]), Below(top[k]))
                 /\ Len(Branch(top[k], first[k])) = size(k)
                 /\ \A c \in ToSet(Branch(top[k], first[k])) : \A j \in 1..Len(c.children) :
                      j \in 1..Len(top[k]) /\ Len(top[k]) # 1 /\ c.children[j] = first[k] + j
      <3> DEFINE t == top[k]
                 s == first[k]
      <3>1. IsModule(t)
        BY <1>3
      <3> HIDE DEF t, s
      <3>2. /\ IsSequence(Branch(t, s)) /\ Once(Branch(t, s), Below(t))
            /\ Len(Branch(t, s)) = IF Len(t) = 1 THEN 1 ELSE 1 + Len(t)
            /\ \A c \in ToSet(Branch(t, s)) : \A j \in 1..Len(c.children) :
                 j \in 1..Len(t) /\ Len(t) # 1 /\ c.children[j] = s + j
        BY <3>1, BranchIs
      <3> QED BY <3>2 DEF t, s
    <2>2. ASSUME NEW k \in 1..n
          PROVE  size(k) \in Nat /\ size(k) > 0 /\ (Len(top[k]) # 1 => size(k) = 1 + Len(top[k]))
      <3>1. Len(top[k]) \in Nat
        BY <1>3 DEF IsModule
      <3> QED BY <3>1
    <2> HIDE DEF size
    <2>3. /\ DOMAIN branches = 1..n /\ branches = [k \in 1..n |-> branches[k]]
          /\ \A k \in 1..n : branches[k] = Branch(top[k], first[k])
      OBVIOUS
    <2> HIDE DEF branches
    <2>4. IsSequence(branches)
      BY <1>3, <2>3, FunctionIsSequence
    <2>5. Len(branches) = n
      <3>1. Len(branches) \in Nat /\ DOMAIN branches = 1..Len(branches)
        BY <2>4 DEF IsSequence
      <3> QED BY <1>3, <2>3, <3>1
    <2> DEFINE flat == FlattenSeq(branches)
    <2>6. PICK ends : Pieces(branches, n, flat, ends)
      <3>1. \A k \in DOMAIN branches : IsSequence(branches[k])
        BY <2>1, <2>3
      <3>2. \E ends : Pieces(branches, Len(branches), flat, ends)
        BY <2>4, <3>1, FlattenPieces
      <3> QED BY <2>5, <3>2
    <2> HIDE DEF flat
    <2>7. /\ ends[0] = 0 /\ (\A k \in 0..n : ends[k] \in Nat)
          /\ \A k \in 1..n : ends[k] = ends[k - 1] + size(k)
      BY <2>1, <2>3, <2>6 DEF Pieces
    <2>8. ASSUME NEW k \in 1..n PROVE first[k] = ends[k - 1] + 2
      <3> DEFINE h == [i \in 1..n |-> ends[i - 1] + 2]
      <3>1. ASSUME NEW i \in 1..n PROVE h[i] = IF i = 1 THEN 2 ELSE h[i - 1] + size(i - 1)
        <4>1. CASE i = 1
          BY <2>7, <4>1
        <4>2. CASE i # 1
          <5>1. i - 1 \in 1..n /\ i - 1 \in 0..n /\ (i - 1) - 1 \in 0..n
            BY <1>3, <4>2
          <5>2. ends[i - 1] = ends[(i - 1) - 1] + size(i - 1)
            BY <2>7, <5>1
          <5>3. ends[(i - 1) - 1] \in Nat /\ size(i - 1) \in Nat
            BY <2>2, <2>7, <5>1
          <5>4. h[i] = ends[i - 1] + 2 /\ h[i - 1] = ends[(i - 1) - 1] + 2
            BY <5>1
          <5> HIDE DEF h
          <5> QED BY <4>2, <5>2, <5>3, <5>4
        <4> QED BY <4>1, <4>2
      <3>2. h = [i \in 1..n |-> h[i]]
        OBVIOUS
      <3> HIDE DEF h
      <3>3. [i \in 1..n |-> h[i]] = [i \in 1..n |-> IF i = 1 THEN 2 ELSE h[i - 1] + size(i - 1)]
        BY <3>1
      <3>4. Is(h)
        BY <3>2, <3>3, Zenon
      <3>5. Is(first)
        <4>1. \E f : Is(f)
          BY <3>4
        <4> HIDE DEF Is
        <4> QED BY <1>2, <4>1
      <3>6. ASSUME NEW i \in 1..n PROVE first[i] = IF i = 1 THEN 2 ELSE first[i - 1] + size(i - 1)
        BY <3>5
      <3> HIDE DEF Is
      <3> DEFINE T == {m \in Nat : m \in 1..n => first[m] = ends[m - 1] + 2}
      <3>7. 0 \in T
        OBVIOUS
      <3>8. ASSUME NEW m \in Nat, m \in T PROVE m + 1 \in T
        <4> SUFFICES ASSUME m + 1 \in 1..n PROVE first[m + 1] = ends[(m + 1) - 1] + 2
          OBVIOUS
        <4>1. (m + 1) - 1 = m
          OBVIOUS
        <4>2. CASE m = 0
          BY <2>7, <3>6, <4>2
        <4>3. CASE m # 0
          <5>1. m \in 1..n /\ m + 1 # 1 /\ m - 1 \in 0..n
            BY <1>3, <4>3
          <5>2. first[m] = ends[m - 1] + 2
            BY <3>8, <5>1
          <5>3. first[m + 1] = first[m] + size(m)
            BY <3>6, <4>1, <5>1
          <5>4. ends[m] = ends[m - 1] + size(m) /\ ends[m - 1] \in Nat /\ size(m) \in Nat
            BY <2>2, <2>7, <5>1
          <5> QED BY <4>1, <5>2, <5>3, <5>4
        <4> QED BY <4>2, <4>3
      <3> HIDE DEF T
      <3>9. Nat \subseteq T
        BY <3>7, <3>8, NatSetInduction
      <3>10. k \in Nat
        BY <1>3
      <3> QED BY <3>9, <3>10 DEF T
    <2>9. ASSUME NEW k \in 1..n
          PROVE  /\ first[k] \in Nat /\ first[k] >= 2
                 /\ first[k] + size(k) - 1 <= 1 + Len(flat)
      <3>1. ends[k] <= ends[n] /\ ends[n] = Len(flat)
        <4>1. \A i \in 1..n : IsSequence(branches[i])
          BY <2>1, <2>3
        <4>2. \A i \in 0..n : \A l \in 0..i : ends[l] <= ends[i]
          BY <1>3, <2>6, <4>1, PiecesGrow
        <4>3. n \in 0..n /\ k \in 0..n
          BY <1>3
        <4> QED BY <2>6, <4>2, <4>3 DEF Pieces
      <3>2. k - 1 \in 0..n /\ k \in 0..n /\ n \in 0..n
        BY <1>3
      <3>3. ends[k - 1] \in Nat /\ ends[k] \in Nat /\ ends[n] \in Nat /\ ends[k] = ends[k - 1] + size(k)
        BY <2>7, <3>2
      <3>4. size(k) \in Nat /\ size(k) > 0
        BY <2>2
      <3> QED BY <2>8, <3>1, <3>3, <3>4
    <2>10. /\ IsSequence(flat) /\ Len(flat) \in Nat /\ DOMAIN flat = 1..Len(flat)
           /\ Once(flat, S)
      <3>1. IsSequence(flat)
        BY <2>6 DEF Pieces
      <3> DEFINE B == [k \in 1..n |-> Below(top[k])]
      <3>2. /\ \A k \in 1..n : B[k] = Below(top[k])
            /\ {B[k] : k \in 1..n} = {Below(top[k]) : k \in 1..n}
        OBVIOUS
      <3> HIDE DEF B
      <3>3. \A k \in 1..n : IsSequence(branches[k]) /\ Once(branches[k], B[k])
        BY <2>1, <2>3, <3>2
      <3>4. \A k, l \in 1..n : k # l => B[k] \cap B[l] = {}
        BY <1>3, <3>2
      <3>5. UNION {B[k] : k \in 1..n} = S
        BY <1>3, <3>2
      <3>6. n \in Nat
        BY <1>3
      <3> HIDE DEF n
      <3>7. AreOnce(branches, B, n, S)
        BY <3>3, <3>4, <3>5 DEF AreOnce
      <3>8. Once(flat, S)
        BY <2>6, <3>6, <3>7, PlacedOnce
      <3>9. Len(flat) \in Nat /\ DOMAIN flat = 1..Len(flat)
        BY <3>1 DEF IsSequence
      <3> QED BY <3>1, <3>8, <3>9
    <2>11. ASSUME NEW c \in ToSet(flat)
           PROVE  ChildrenIn(c, 1 + Len(flat))
      <3>1. PICK p \in DOMAIN flat : c = flat[p]
        BY <2>11 DEF ToSet
      <3>2. PICK k \in 1..n : \E j \in 1..Len(branches[k]) : p = ends[k - 1] + j
        BY <2>6, <3>1 DEF Pieces
      <3>3. PICK j \in 1..Len(branches[k]) : p = ends[k - 1] + j
        BY <3>2
      <3>4. c = branches[k][j]
        BY <2>6, <3>1, <3>3 DEF Pieces
      <3>5. c \in ToSet(Branch(top[k], first[k]))
        <4>1. DOMAIN branches[k] = 1..Len(branches[k])
          BY <2>1, <2>3 DEF IsSequence
        <4>2. c \in ToSet(branches[k])
          BY <3>4, <4>1 DEF ToSet
        <4> QED BY <2>3, <4>2
      <3>6. \A i \in 1..Len(c.children) :
               i \in 1..Len(top[k]) /\ Len(top[k]) # 1 /\ c.children[i] = first[k] + i
        BY <2>1, <3>5
      <3>7. first[k] \in Nat /\ first[k] >= 2 /\ first[k] + size(k) - 1 <= 1 + Len(flat)
        BY <2>9
      <3>8. ASSUME NEW i \in 1..Len(c.children) PROVE c.children[i] \in 1..(1 + Len(flat))
        <4>1. i \in 1..Len(top[k]) /\ Len(top[k]) # 1 /\ c.children[i] = first[k] + i
          BY <3>6
        <4>2. size(k) = 1 + Len(top[k])
          BY <2>2, <4>1
        <4>3. Len(top[k]) \in Nat
          BY <1>3 DEF IsModule
        <4> QED BY <2>10, <3>7, <4>1, <4>2, <4>3
      <3> QED BY <3>8 DEF ChildrenIn
    <2>12. root.members = {} /\ root.children = firsts
      OBVIOUS
    <2> HIDE DEF root
    <2>13. Len(firsts) = n /\ \A k \in 1..n : firsts[k] = first[k]
      <3>1. DOMAIN firsts = 1..n /\ firsts = [k \in 1..n |-> firsts[k]]
            /\ \A k \in 1..n : firsts[k] = first[k]
        OBVIOUS
      <3> HIDE DEF firsts, n
      <3>2. IsSequence(firsts)
        BY <1>3, <3>1, FunctionIsSequence
      <3>3. Len(firsts) \in Nat /\ DOMAIN firsts = 1..Len(firsts)
        BY <3>2 DEF IsSequence
      <3>4. Len(firsts) = n
        BY <1>3, <3>1, <3>3
      <3> QED BY <3>1, <3>4
    <2> HIDE DEF firsts
    <2>14. ChildrenIn(root, 1 + Len(flat))
      <3> SUFFICES ASSUME NEW k \in 1..n PROVE first[k] \in 1..(1 + Len(flat))
        BY <2>12, <2>13 DEF ChildrenIn
      <3> QED BY <2>2, <2>9, <2>10
    <2> DEFINE row == <<root>> \o flat
    <2>15. /\ IsSequence(<<root>>) /\ DOMAIN <<root>> = {1} /\ <<root>>[1] = root
           /\ Len(<<root>>) = 1 /\ Once(<<root>>, {})
      BY <2>12, OneRow
    <2>16. /\ IsSequence(row) /\ Len(row) = 1 + Len(flat) /\ DOMAIN row = 1..(1 + Len(flat))
           /\ row[1] = root /\ \A j \in 1..Len(flat) : row[1 + j] = flat[j]
      BY <2>10, <2>15, ConcatPieces
    <2>17. Once(row, S)
      <3>1. Once(row, {} \cup S)
        BY <2>10, <2>15, ConcatOnce
      <3>2. {} \cup S = S
        OBVIOUS
      <3> QED BY <3>1, <3>2
    <2> HIDE DEF row
    <2>18. ASSUME NEW p \in DOMAIN row, p # 1 PROVE row[p] \in ToSet(flat)
      <3>1. p - 1 \in 1..Len(flat) /\ 1 + (p - 1) = p
        BY <2>10, <2>16, <2>18
      <3>2. row[p] = flat[p - 1]
        BY <2>16, <3>1
      <3> QED BY <2>10, <3>1, <3>2 DEF ToSet
    <2>19. IsForest(row)
      BY <2>11, <2>14, <2>16, <2>18 DEF IsForest
    <2>20. BuildTreeClusters(top) = row
      BY <1>1, <1>5 DEF row, flat
    <2>21. IsSequence(row)
      BY <2>16
    <2> QED BY <2>17, <2>19, <2>20, <2>21
  <1> QED BY <1>4, <1>5

LEMMA FlatIs ==
  ASSUME NEW cs, IsFiniteSet(cs), NEW S, Divides(cs, {}, S)
  PROVE  LET row == BuildFlatClusters(cs)
         IN  IsSequence(row) /\ Once(row, S) /\ IsForest(row)
  <1> DEFINE leaves == {Leaf(c, 0) : c \in cs}
             f == [c \in cs |-> Leaf(c, 0)]
             row == SetToSeq(leaves)
  <1>1. DOMAIN f = cs /\ {f[c] : c \in DOMAIN f} = leaves
    OBVIOUS
  <1>2. ASSUME NEW x \in leaves
        PROVE  x.members \in cs /\ x = Leaf(x.members, 0) /\ x.children = <<>>
    <2>1. PICK c \in cs : x = Leaf(c, 0)
      OBVIOUS
    <2>2. x.members = c /\ x.children = <<>>
      BY <2>1 DEF Leaf
    <2> QED BY <2>1, <2>2
  <1>3. ASSUME NEW c \in cs PROVE \E x \in leaves : x.members = c
    <2>1. Leaf(c, 0) \in leaves
      OBVIOUS
    <2> HIDE DEF leaves
    <2> QED BY <2>1, LeafIs
  <1> HIDE DEF f, leaves
  <1>4. IsFiniteSet(leaves)
    BY <1>1, FiniteImage
  <1>5. /\ IsSequence(row) /\ ToSet(row) = leaves
        /\ \A i, j \in DOMAIN row : row[i] = row[j] => i = j
    BY <1>4, SetToSeqIs
  <1>6. BuildFlatClusters(cs) = row
    BY DEF BuildFlatClusters, leaves
  <1> HIDE DEF row
  <1>7. \A k \in DOMAIN row : row[k] \in leaves
    BY <1>5 DEF ToSet
  <1>8. \A c \in cs : \E k \in DOMAIN row : row[k].members = c
    BY <1>3, <1>5 DEF ToSet
  <1>9. UNION {row[k].members : k \in DOMAIN row} = S
    <2>1. \A k \in DOMAIN row : row[k].members \subseteq S
      BY <1>2, <1>7 DEF Divides
    <2>2. \A x \in S : \E k \in DOMAIN row : x \in row[k].members
      BY <1>8 DEF Divides
    <2> QED BY <2>1, <2>2
  <1>10. ASSUME NEW i \in DOMAIN row, NEW j \in DOMAIN row, i # j
         PROVE  row[i].members \cap row[j].members = {}
    <2>1. row[i] \in leaves /\ row[j] \in leaves /\ row[i] # row[j]
      BY <1>5, <1>7, <1>10
    <2>2. row[i].members # row[j].members
      BY <1>2, <2>1
    <2> QED BY <1>2, <2>1, <2>2 DEF Divides
  <1>11. IsForest(row)
    <2>1. 1..Len(<<>>) = {}
      OBVIOUS
    <2> QED BY <1>2, <1>7, <2>1 DEF IsForest, ChildrenIn
  <1> QED BY <1>5, <1>6, <1>9, <1>10, <1>11 DEF Once

-----------------------------------------------------------------------------
(* Where the edges of what is found lead *)

\* The id of a cluster's component.
PathId(cs, k) == ComponentId(BuildDotPaths(cs)[k])

\* Every edge leads to another component, or to one of these files.
EndsIn(found, files) == \A e \in found.edges : e.to \in NodeIds(found) \cup files

\* A file is in one component.
Owned(found, f) == \E id \in NodeIds(found) : {i \in NodeIds(found) : f \in MembersOf(found, i)} = {id}

LEMMA MappedIs ==
  ASSUME NEW cs
  PROVE  /\ NodeIds(MapToComponents(cs)) = {PathId(cs, k) : k \in 1..Len(cs)}
         /\ MapToComponents(cs).edges =
              UNION {{ContainsEdge(PathId(cs, k), m) :
                        m \in cs[k].members \cup {PathId(cs, j) : j \in ChildrenOf(cs, k)}} :
                      k \in 1..Len(cs)}
  <1> DEFINE row == 1..Len(cs)
             title(k) ==
               IF cs[k].members = {} /\ cs[k].children # <<>>
               THEN AutoNameHierarchical([j \in 1..Len(cs[k].children) |->
                                            AutoName(cs[cs[k].children[j]].members)])
               ELSE AutoName(cs[k].members)
             node(i) == LET k == CHOOSE k \in row : PathId(cs, k) = i
                        IN Component(title(k), TotalSize(cs, k))
             nodes == [i \in {PathId(cs, k) : k \in row} |-> node(i)]
             edges == UNION {{ContainsEdge(PathId(cs, k), m) :
                        m \in cs[k].members \cup {PathId(cs, j) : j \in ChildrenOf(cs, k)}} : k \in row}
  <1>1. MapToComponents(cs) = [NewGraph EXCEPT !.nodes = nodes, !.edges = edges]
    BY DEF MapToComponents, PathId
  <1> HIDE DEF node, edges
  <1>2. DOMAIN nodes = {PathId(cs, k) : k \in row}
    OBVIOUS
  <1> HIDE DEF nodes
  <1>3. MapToComponents(cs).nodes = nodes /\ MapToComponents(cs).edges = edges
    BY <1>1, NewGraphWith
  <1> QED BY <1>2, <1>3 DEF NodeIds, edges

LEMMA InfrastructureIs ==
  ASSUME NEW hubs
  PROVE  /\ CreateInfraComponent(hubs).edges = {ContainsEdge(Infrastructure, f) : f \in hubs}
         /\ NodeIds(CreateInfraComponent(hubs)) = IF hubs = {} THEN {} ELSE {Infrastructure}
  <1> DEFINE infra == CreateInfraComponent(hubs)
  <1>1. CASE hubs = {}
    <2>1. infra.nodes = <<>> /\ infra.edges = {}
      BY <1>1 DEF CreateInfraComponent, NewGraph
    <2> QED BY <1>1, <2>1 DEF NodeIds
  <1>2. CASE hubs # {}
    <2> DEFINE nodes == [id \in {Infrastructure} |->
                           Component("Infrastructure & Shared Utilities", Cardinality(hubs))]
               edges == {ContainsEdge(Infrastructure, f) : f \in hubs}
    <2>1. infra = [NewGraph EXCEPT !.nodes = nodes, !.edges = edges]
      BY <1>2 DEF CreateInfraComponent
    <2>2. DOMAIN nodes = {Infrastructure}
      OBVIOUS
    <2> HIDE DEF nodes, edges
    <2>3. infra.nodes = nodes /\ infra.edges = edges
      BY <2>1, NewGraphWith
    <2> QED BY <1>2, <2>2, <2>3 DEF NodeIds, edges
  <1> QED BY <1>1, <1>2

LEMMA ComponentEdges ==
  ASSUME NEW cs, NEW hubs
  PROVE  LET found == Components(cs, hubs)
         IN /\ NodeIds(found) = {PathId(cs, k) : k \in 1..Len(cs)}
                                  \cup (IF hubs = {} THEN {} ELSE {Infrastructure})
            /\ found.edges = MapToComponents(cs).edges \cup CreateInfraComponent(hubs).edges
  <1> DEFINE mapped == MapToComponents(cs)
             infra == CreateInfraComponent(hubs)
             both == Over(mapped.nodes, infra.nodes)
             edges == mapped.edges \cup infra.edges
             cleaned == DeduplicateNames(both)
             merged == [NewGraph EXCEPT !.nodes = both, !.edges = edges]
             found == [merged EXCEPT !.nodes = cleaned]
  <1>1. DOMAIN both = NodeIds(mapped) \cup NodeIds(infra)
    BY DEF Over, NodeIds
  <1>2. merged = [project |-> NoProject, nodes |-> both, edges |-> edges]
    BY NewGraphWith
  <1>3. Components(cs, hubs) = PostProcess(merged)
    BY DEF Components
  <1> HIDE DEF both, edges, merged
  <1>4. PostProcess(merged) = found
    BY <1>2 DEF PostProcess
  <1>5. DOMAIN cleaned = DOMAIN both
    BY DEF DeduplicateNames
  <1> HIDE DEF cleaned
  <1>6. found.nodes = cleaned /\ found.edges = edges
    BY <1>2
  <1> HIDE DEF found, mapped, infra
  <1>7. NodeIds(found) = NodeIds(mapped) \cup NodeIds(infra)
    BY <1>1, <1>5, <1>6 DEF NodeIds
  <1>8. NodeIds(mapped) \cup NodeIds(infra)
          = {PathId(cs, k) : k \in 1..Len(cs)} \cup (IF hubs = {} THEN {} ELSE {Infrastructure})
    BY MappedIs, InfrastructureIs DEF mapped, infra
  <1>9. found.edges = mapped.edges \cup infra.edges
    BY <1>6 DEF edges
  <1> QED BY <1>3, <1>4, <1>7, <1>8, <1>9 DEF mapped, infra

\* What is in which component.
LEMMA ComponentMembers ==
  ASSUME NEW cs, NEW hubs, NEW i, NEW f
  PROVE  f \in MembersOf(Components(cs, hubs), i)
           <=> \/ \E k \in 1..Len(cs) :
                    /\ i = PathId(cs, k)
                    /\ f \in cs[k].members \/ \E j \in ChildrenOf(cs, k) : f = PathId(cs, j)
               \/ i = Infrastructure /\ f \in hubs
  <1> DEFINE found == Components(cs, hubs)
             row == 1..Len(cs)
             inside(k) == cs[k].members \cup {PathId(cs, j) : j \in ChildrenOf(cs, k)}
             edges == UNION {{ContainsEdge(PathId(cs, k), m) : m \in inside(k)} : k \in row}
             more == {ContainsEdge(Infrastructure, h) : h \in hubs}
  <1>1. found.edges = edges \cup more
    BY ComponentEdges, MappedIs, InfrastructureIs
  <1> HIDE DEF found
  <1>2. f \in MembersOf(found, i)
          <=> \E e \in found.edges : e.from = i /\ e.relation = "contains" /\ e.to = f
    BY DEF MembersOf
  <1> HIDE DEF row
  <1>3. ASSUME NEW e \in edges, e.from = i, e.to = f
        PROVE  \E k \in row : i = PathId(cs, k) /\ f \in inside(k)
    <2>1. PICK k \in row : \E m \in inside(k) : e = ContainsEdge(PathId(cs, k), m)
      OBVIOUS
    <2>2. PICK m \in inside(k) : e = ContainsEdge(PathId(cs, k), m)
      BY <2>1
    <2>3. e.from = PathId(cs, k) /\ e.to = m
      BY <2>2, ContainsIs
    <2> HIDE DEF inside
    <2> QED BY <1>3, <2>2, <2>3
  <1>4. ASSUME NEW e \in more, e.from = i, e.to = f PROVE i = Infrastructure /\ f \in hubs
    <2>1. PICK h \in hubs : e = ContainsEdge(Infrastructure, h)
      OBVIOUS
    <2> QED BY <1>4, <2>1, ContainsIs
  <1>5. ASSUME NEW k \in row, i = PathId(cs, k), f \in inside(k)
        PROVE  \E e \in edges : e.from = i /\ e.relation = "contains" /\ e.to = f
    <2> DEFINE e == ContainsEdge(PathId(cs, k), f)
    <2>1. e \in edges
      BY <1>5
    <2>2. e.from = i /\ e.relation = "contains" /\ e.to = f
      BY <1>5, ContainsIs
    <2> HIDE DEF e, edges
    <2> QED BY <2>1, <2>2
  <1>6. ASSUME i = Infrastructure, f \in hubs
        PROVE  \E e \in more : e.from = i /\ e.relation = "contains" /\ e.to = f
    <2> DEFINE e == ContainsEdge(Infrastructure, f)
    <2>1. e \in more
      BY <1>6
    <2>2. e.from = i /\ e.relation = "contains" /\ e.to = f
      BY <1>6, ContainsIs
    <2> HIDE DEF e, more
    <2> QED BY <2>1, <2>2
  <1>7. \A k : f \in inside(k)
          <=> f \in cs[k].members \/ \E j \in ChildrenOf(cs, k) : f = PathId(cs, j)
    OBVIOUS
  <1> HIDE DEF edges, more, inside
  <1> QED BY <1>1, <1>2, <1>3, <1>4, <1>5, <1>6, <1>7 DEF found, row

LEMMA ComponentsHold ==
  ASSUME NEW cs, IsSequence(cs), NEW files, NEW hubs, hubs \subseteq files,
         Once(cs, files \ hubs), IsForest(cs)
  PROVE  /\ EndsIn(Components(cs, hubs), files)
         /\ \A f \in files : Reserved(f) \/ Owned(Components(cs, hubs), f)
  <1> DEFINE found == Components(cs, hubs)
             row == 1..Len(cs)
             infra == IF hubs = {} THEN {} ELSE {Infrastructure}
  <1>1. DOMAIN cs = row
    BY DEF IsSequence
  <1>2. NodeIds(found) = {PathId(cs, k) : k \in row} \cup infra
    BY ComponentEdges
  <1>3. ASSUME NEW k \in row, NEW j \in ChildrenOf(cs, k) PROVE j \in row
    BY <1>1 DEF IsForest, ChildrenIn, ChildrenOf
  <1>4. \A i, f : f \in MembersOf(found, i)
           <=> \/ \E k \in row :
                    /\ i = PathId(cs, k)
                    /\ f \in cs[k].members \/ \E j \in ChildrenOf(cs, k) : f = PathId(cs, j)
               \/ i = Infrastructure /\ f \in hubs
    BY ComponentMembers
  <1>5. \A e \in found.edges : e.to \in MembersOf(found, e.from)
    <2>1. found.edges = MapToComponents(cs).edges \cup CreateInfraComponent(hubs).edges
      BY ComponentEdges
    <2>2. \A e \in MapToComponents(cs).edges : \E a, b : e = ContainsEdge(a, b)
      BY MappedIs
    <2>3. \A e \in CreateInfraComponent(hubs).edges : \E b : e = ContainsEdge(Infrastructure, b)
      BY InfrastructureIs
    <2> HIDE DEF found
    <2>4. \A e \in found.edges : e.relation = "contains"
      BY <2>1, <2>2, <2>3, ContainsIs
    <2> QED BY <2>4 DEF MembersOf
  <1> HIDE DEF found, row
  <1>6. ASSUME NEW i, NEW f \in MembersOf(found, i) PROVE f \in NodeIds(found) \cup files
    <2>1. CASE i = Infrastructure /\ f \in hubs
      BY <2>1
    <2>2. ASSUME NEW k \in row, f \in cs[k].members PROVE f \in files
      BY <1>1, <2>2 DEF Once
    <2>3. ASSUME NEW k \in row, NEW j \in ChildrenOf(cs, k), f = PathId(cs, j)
          PROVE  f \in NodeIds(found)
      BY <1>2, <1>3, <2>3
    <2> QED BY <1>4, <2>1, <2>2, <2>3
  <1>7. ASSUME NEW f \in files, ~ Reserved(f) PROVE Owned(found, f)
    <2>1. \A j : f # PathId(cs, j)
      BY <1>7 DEF Reserved, PathId
    <2>2. \A i : f \in MembersOf(found, i)
             <=> \/ \E k \in row : i = PathId(cs, k) /\ f \in cs[k].members
                 \/ i = Infrastructure /\ f \in hubs
      BY <1>4, <2>1
    <2>3. CASE f \in hubs
      <3>1. \A k \in row : f \notin cs[k].members
        BY <1>1, <2>3 DEF Once
      <3>2. Infrastructure \in NodeIds(found)
        BY <1>2, <2>3
      <3>3. {i \in NodeIds(found) : f \in MembersOf(found, i)} = {Infrastructure}
        BY <2>2, <2>3, <3>1, <3>2
      <3> QED BY <3>2, <3>3 DEF Owned
    <2>4. CASE f \notin hubs
      <3>1. PICK k \in row : f \in cs[k].members
        BY <1>1, <2>4 DEF Once
      <3>2. \A l \in row : f \in cs[l].members => l = k
        BY <1>1, <3>1 DEF Once
      <3>3. PathId(cs, k) \in NodeIds(found)
        BY <1>2
      <3>4. {i \in NodeIds(found) : f \in MembersOf(found, i)} = {PathId(cs, k)}
        BY <2>2, <2>4, <3>1, <3>2, <3>3
      <3> QED BY <3>3, <3>4 DEF Owned
    <2> QED BY <2>3, <2>4
  <1>8. EndsIn(found, files)
    BY <1>5, <1>6 DEF EndsIn
  <1> QED BY <1>7, <1>8 DEF found

\* What the features add leads to components and features.
LEMMA PhasesEnd ==
  ASSUME NEW g, NEW found, IsResult(found), NEW given, NEW fs, IsFiniteSet(DOMAIN fs),
         NEW files, EndsIn(found, files),
         \A k \in DOMAIN fs : fs[k].components \subseteq NodeIds(found)
  PROVE  EndsIn(FromPhases(g, found, given, fs), files)
  <1> DEFINE r == FromPhases(g, found, given, fs)
             ids == {fs[k].id : k \in DOMAIN fs}
             deps == InferFeatureDeps(g, found, fs)
             contains == UNION {{ContainsEdge(fs[k].id, c) : c \in fs[k].components} : k \in DOMAIN fs}
  <1>1. NodeIds(r) = NodeIds(found) \cup ids
    BY PhasesAre
  <1>2. r.edges = found.edges \cup deps \cup contains
    <2> DEFINE nodes == [id \in NodeIds(found) \cup ids |->
                    IF id \in NodeIds(found)
                    THEN [found.nodes[id] EXCEPT !.title = IF id \in given THEN "named" ELSE @]
                    ELSE Feature(fs[Max({k \in DOMAIN fs : fs[k].id = id})].title)]
               edges == found.edges \cup deps \cup contains
    <2>1. r = [NewGraph EXCEPT !.nodes = nodes, !.edges = edges]
      BY DEF FromPhases
    <2> HIDE DEF nodes, edges
    <2>2. r.edges = edges
      BY <2>1, NewGraphWith
    <2> QED BY <2>2 DEF edges
  <1>3. ASSUME NEW e \in deps PROVE e.to \in ids
    BY DEF InferFeatureDeps, NewEdge
  <1>4. ASSUME NEW e \in contains PROVE e.to \in NodeIds(found)
    <2>1. PICK k \in DOMAIN fs : \E c \in fs[k].components : e = ContainsEdge(fs[k].id, c)
      OBVIOUS
    <2>2. PICK c \in fs[k].components : e = ContainsEdge(fs[k].id, c)
      BY <2>1
    <2>3. e.to = c
      BY <2>2, ContainsIs
    <2> QED BY <2>3
  <1> HIDE DEF r, ids, deps, contains
  <1> QED BY <1>1, <1>2, <1>3, <1>4 DEF EndsIn, r

LEMMA FeaturesKnown ==
  ASSUME NEW ids, NEW answer, NEW fs \in Kept(Grounded(answer, ids))
  PROVE  \A k \in DOMAIN fs : fs[k].components \subseteq ids
  <1> DEFINE grounded == Grounded(answer, ids)
  <1>1. \A k \in DOMAIN grounded : grounded[k].components \subseteq ids
    BY DEF Grounded
  <1> HIDE DEF grounded
  <1>2. fs = grounded \/ \E place \in [1..MaxFeatures -> DOMAIN grounded] :
                             fs = [i \in 1..MaxFeatures |-> grounded[place[i]]]
    <2>1. fs \in Kept(grounded)
      BY DEF grounded
    <2> QED BY <2>1 DEF Kept
  <1> QED BY <1>1, <1>2

-----------------------------------------------------------------------------
(* What prompts cost, and what answers become *)

LEMMA NamingCosts ==
  ASSUME NEW g, IsFiniteSet(NodeIds(g)), NEW found, IsFiniteSet(NodeIds(found)),
         NEW batch, IsFiniteSet(batch)
  PROVE  NamingTokens(g, found, batch) \in Nat
  <1>1. ASSUME NEW id PROVE IsFiniteSet(ContextOf(g, found, id))
    <2> DEFINE members == MembersOf(found, id) \cap Files(g)
               symbols == {s \in UNION {FileChildren(g, f) : f \in members} :
                             g.nodes[s].type \in Symbols}
               parts == IF members = {} THEN MembersOf(found, id) \cap NodeIds(found) ELSE {}
               files == [f \in members |-> <<"file", f>>]
               titles == [s \in symbols |-> <<"symbol", g.nodes[s].title>>]
               names == [i \in parts |-> <<"part", found.nodes[i].title>>]
    <2>1. IsFiniteSet(members)
      <3>1. members \subseteq NodeIds(g)
        BY DEF Files
      <3> HIDE DEF members
      <3> QED BY <3>1, FS_Subset
    <2>2. IsFiniteSet(symbols)
      <3>1. symbols \subseteq NodeIds(g)
        BY DEF FileChildren
      <3> HIDE DEF symbols
      <3> QED BY <3>1, FS_Subset
    <2>3. IsFiniteSet(parts)
      BY FS_Subset, FS_EmptySet
    <2>4. ContextOf(g, found, id) = {files[f] : f \in DOMAIN files}
             \cup {titles[s] : s \in DOMAIN titles} \cup {names[i] : i \in DOMAIN names}
      BY DEF ContextOf
    <2>5. DOMAIN files = members /\ DOMAIN titles = symbols /\ DOMAIN names = parts
      OBVIOUS
    <2> HIDE DEF files, titles, names
    <2>6. /\ IsFiniteSet({files[f] : f \in DOMAIN files})
          /\ IsFiniteSet({titles[s] : s \in DOMAIN titles})
          /\ IsFiniteSet({names[i] : i \in DOMAIN names})
      BY <2>1, <2>2, <2>3, <2>5, FiniteImage
    <2> DEFINE A == {files[f] : f \in DOMAIN files}
               B == {titles[s] : s \in DOMAIN titles}
               C == {names[i] : i \in DOMAIN names}
    <2>7. IsFiniteSet(A) /\ IsFiniteSet(B) /\ IsFiniteSet(C) /\ ContextOf(g, found, id) = A \cup B \cup C
      BY <2>4, <2>6
    <2> HIDE DEF A, B, C
    <2>8. IsFiniteSet(A \cup B)
      BY <2>7, FS_Union
    <2>9. IsFiniteSet((A \cup B) \cup C)
      BY <2>7, <2>8, FS_Union
    <2> QED BY <2>7, <2>9
  <1> DEFINE tagged(id) == {<<id, x>> : x \in ContextOf(g, found, id)}
             all == {tagged(id) : id \in batch}
             f == [id \in batch |-> tagged(id)]
  <1>2. ASSUME NEW id PROVE IsFiniteSet(tagged(id))
    <2> DEFINE h == [x \in ContextOf(g, found, id) |-> <<id, x>>]
    <2>1. DOMAIN h = ContextOf(g, found, id) /\ {h[x] : x \in DOMAIN h} = tagged(id)
      OBVIOUS
    <2> HIDE DEF h
    <2> QED BY <1>1, <2>1, FiniteImage
  <1>3. NamingTokens(g, found, batch) = 2 * (1 + Cardinality(batch) + Cardinality(UNION all))
    BY DEF NamingTokens
  <1> HIDE DEF tagged
  <1>4. DOMAIN f = batch /\ {f[id] : id \in DOMAIN f} = all
    OBVIOUS
  <1> HIDE DEF f
  <1>5. IsFiniteSet(all)
    BY <1>4, FiniteImage
  <1>6. \A T \in all : IsFiniteSet(T)
    BY <1>2
  <1> HIDE DEF all
  <1>7. IsFiniteSet(UNION all)
    BY <1>5, <1>6, FS_UNION
  <1>8. Cardinality(UNION all) \in Nat /\ Cardinality(batch) \in Nat
    BY <1>7, FS_CardinalityType
  <1> QED BY <1>3, <1>8

LEMMA BatchIs ==
  ASSUME NEW S, IsFiniteSet(S), NEW s \in Seq(S), s # <<>>
  PROVE  /\ IsFiniteSet(ToSet(SubSeq(s, 1, SmallLeast(BatchSize, Len(s)))))
         /\ SubSeq(s, SmallLeast(BatchSize, Len(s)) + 1, Len(s)) \in Seq(S)
  <1> DEFINE n == SmallLeast(BatchSize, Len(s))
  <1>1. Len(s) \in Nat /\ n \in Nat /\ n > 0 /\ n <= Len(s)
    BY InferenceAssumption DEF InferenceAssumption, SmallLeast
  <1> HIDE DEF n
  <1>2. SubSeq(s, 1, n) \in Seq(S) /\ SubSeq(s, n + 1, Len(s)) \in Seq(S)
    BY <1>1
  <1>3. ToSet(SubSeq(s, 1, n)) \subseteq S
    BY <1>2, SeqIsSequence
  <1> QED BY <1>2, <1>3, FS_Subset DEF n

LEMMA FeaturesFinite ==
  ASSUME NEW ids, NEW answer \in Answers(ids), NEW fs \in Kept(Grounded(answer, ids))
  PROVE  IsFiniteSet(DOMAIN fs)
  <1> DEFINE grounded == Grounded(answer, ids)
  <1>1. IsFiniteSet(DOMAIN answer)
    <2>1. DOMAIN answer = {} \/ DOMAIN answer = 1..2
      BY DEF Answers
    <2>2. IsFiniteSet(1..2)
      <3> DEFINE two == 2
      <3>1. two \in Int
        OBVIOUS
      <3> HIDE DEF two
      <3>2. IsFiniteSet(1..two)
        BY <3>1, FS_Interval
      <3> QED BY <3>2 DEF two
    <2>3. IsFiniteSet({})
      BY FS_EmptySet
    <2> QED BY <2>1, <2>2, <2>3
  <1>2. DOMAIN grounded \subseteq DOMAIN answer
    BY DEF Grounded
  <1> HIDE DEF grounded
  <1>3. IsFiniteSet(DOMAIN grounded)
    BY <1>1, <1>2, FS_Subset
  <1>4. fs = grounded \/ DOMAIN fs = 1..MaxFeatures
    <2>1. fs \in Kept(grounded)
      BY DEF grounded
    <2> QED BY <2>1 DEF Kept
  <1>5. IsFiniteSet(1..MaxFeatures)
    BY InferenceAssumption, FS_Interval DEF InferenceAssumption
  <1> QED BY <1>3, <1>4, <1>5

-----------------------------------------------------------------------------
(* The inductive invariant *)

FoundPart ==
  /\ opt.maxSize \in Nat /\ opt.minSize \in Nat /\ IsFiniteSet(DOMAIN net)
  /\ IsRow(tree, DOMAIN net)
  /\ orphans \subseteq DOMAIN net /\ clusters \subseteq SUBSET DOMAIN net
  /\ pc = "idle" => tree = <<>> /\ orphans = {} /\ clusters = {}

PhasesPart ==
  /\ IsResult(comps)
  /\ waiting \in Seq(NodeIds(comps)) /\ (pc # "naming" => waiting = <<>>)
  /\ IsFiniteSet(DOMAIN features)

TokensPart ==
  /\ tokens \in Nat /\ spent \in Nat
  /\ spent <= tokens /\ spent <= TokenBudget

Inv == IsGraph(graph) /\ IsGraph(mem) /\ FoundPart /\ PhasesPart /\ TokensPart

LEMMA NothingFound ==
  /\ IsGraph(NewGraph) /\ IsResult(NewGraph) /\ IsRow(<<>>, {}) /\ IsFiniteSet({})
  /\ DOMAIN <<>> = {} /\ <<>> \in Seq(NodeIds(NewGraph))
  <1>1. NewGraph.nodes = <<>> /\ NewGraph.edges = {} /\ NodeIds(NewGraph) = {}
    BY DEF NewGraph, NodeIds
  <1>2. NewGraph = [project |-> NewGraph.project, nodes |-> NewGraph.nodes, edges |-> NewGraph.edges]
    BY DEF NewGraph
  <1>3. IsFiniteSet({})
    BY FS_EmptySet
  <1>4. IsGraph(NewGraph)
    BY <1>1, <1>2, <1>3 DEF IsGraph, Files
  <1>5. IsResult(NewGraph)
    BY <1>1, <1>3 DEF IsResult
  <1>6. IsRow(<<>>, {})
    BY EmptySequence DEF IsRow
  <1> QED BY <1>3, <1>4, <1>5, <1>6

LEMMA OptionsSized ==
  \A o \in Options \cup Again \cup {CHOOSE o \in Options : TRUE} :
     o.maxSize \in Nat /\ o.minSize \in Nat
  BY InferenceAssumption DEF InferenceAssumption

LEMMA InitInv == ASSUME Init PROVE Inv
  <1>1. IsGraph(graph)
    BY InferenceAssumption DEF Init, InferenceAssumption
  <1>2. IsGraph(mem)
    BY NothingFound DEF Init
  <1>3. FoundPart
    BY NothingFound, OptionsSized DEF Init, FoundPart
  <1>4. PhasesPart
    BY NothingFound DEF Init, PhasesPart
  <1>5. TokensPart
    BY InferenceAssumption DEF Init, TokensPart, InferenceAssumption
  <1> QED BY <1>1, <1>2, <1>3, <1>4, <1>5 DEF Inv

LEMMA IdleInv == ASSUME Idle, IsGraph(graph') PROVE Inv'
  <1>1. IsGraph(mem')
    BY NothingFound DEF Idle
  <1>2. FoundPart'
    BY NothingFound, OptionsSized DEF Idle, FoundPart
  <1>3. PhasesPart'
    BY NothingFound DEF Idle, PhasesPart
  <1>4. TokensPart'
    BY InferenceAssumption DEF Idle, TokensPart, InferenceAssumption
  <1> QED BY <1>1, <1>2, <1>3, <1>4 DEF Inv

\* Steps that find clusters.
LEMMA LoadInv == ASSUME Inv, Load PROVE Inv'
  <1>1. IsGraph(graph) /\ IsGraph(mem') /\ IsGraph(graph')
    BY DEF Inv, Load
  <1>2. FoundPart'
    <2>1. PICK source : net' = Network(Completed(graph, source))
      BY DEF Load
    <2> DEFINE g == Completed(graph, source)
    <2>2. IsFiniteSet(NodeIds(g))
      BY <1>1, CompletedFinite
    <2> HIDE DEF g
    <2>3. DOMAIN net' \subseteq NodeIds(g)
      BY <2>1, NetworkOfFiles DEF Files, g
    <2>4. IsFiniteSet(DOMAIN net')
      BY <2>2, <2>3, FS_Subset
    <2>5. tree' = <<>> /\ orphans' = {} /\ clusters' = {}
      BY DEF Load, Inv, FoundPart
    <2>6. IsRow(<<>>, DOMAIN net')
      BY EmptySequence DEF IsRow
    <2>7. opt'.maxSize \in Nat /\ opt'.minSize \in Nat
      BY OptionsSized DEF Load
    <2> QED BY <2>4, <2>5, <2>6, <2>7 DEF FoundPart, Load
  <1>3. PhasesPart'
    BY DEF Inv, PhasesPart, Load
  <1>4. TokensPart'
    BY DEF Inv, TokensPart, Load
  <1> QED BY <1>1, <1>2, <1>3, <1>4 DEF Inv

LEMMA NothingToClusterInv == ASSUME Inv, NothingToCluster PROVE Inv'
  BY IdleInv DEF Inv, NothingToCluster

LEMMA OverflowInv == ASSUME Inv, Overflow PROVE Inv'
  BY IdleInv DEF Inv, Overflow

LEMMA ClusterFlatInv == ASSUME Inv, ClusterFlat PROVE Inv'
  <1>1. PICK p \in Partitions(DOMAIN net) :
          /\ clusters' = {c \in p : Cardinality(c) >= opt.minSize}
          /\ orphans' = UNION {c \in p : Cardinality(c) < opt.minSize}
    BY DEF ClusterFlat
  <1>2. \A c \in p : c \subseteq DOMAIN net
    BY PartsAreAmong
  <1>3. FoundPart'
    BY <1>1, <1>2 DEF Inv, FoundPart, ClusterFlat
  <1>4. PhasesPart'
    BY DEF Inv, PhasesPart, ClusterFlat
  <1>5. TokensPart'
    BY DEF Inv, TokensPart, ClusterFlat
  <1> QED BY <1>3, <1>4, <1>5 DEF Inv, ClusterFlat

LEMMA PlaceByAffinityInv == ASSUME Inv, PlaceByAffinity PROVE Inv'
  <1>1. PICK f \in orphans, c \in clusters :
          clusters' = Joined(clusters, c, f) /\ orphans' = orphans \ {f}
    <2>1. \A f : BestByAffinity(net, clusters, f) \subseteq clusters
      BY DEF BestByAffinity
    <2> QED BY <2>1 DEF PlaceByAffinity
  <1>2. (clusters \ {c}) \cup {c \cup {f}} \subseteq SUBSET DOMAIN net
    BY DEF Inv, FoundPart
  <1>3. FoundPart'
    BY <1>1, <1>2 DEF Inv, FoundPart, PlaceByAffinity, Joined
  <1>4. PhasesPart'
    BY DEF Inv, PhasesPart, PlaceByAffinity
  <1>5. TokensPart'
    BY DEF Inv, TokensPart, PlaceByAffinity
  <1> QED BY <1>3, <1>4, <1>5 DEF Inv, PlaceByAffinity

LEMMA GroupByDirectoryInv == ASSUME Inv, GroupByDirectory PROVE Inv'
  <1>1. \A d \in GroupsByDir(orphans) : d \subseteq orphans
    BY DEF GroupsByDir
  <1>2. FoundPart'
    BY <1>1 DEF Inv, FoundPart, GroupByDirectory
  <1>3. PhasesPart'
    BY DEF Inv, PhasesPart, GroupByDirectory
  <1>4. TokensPart'
    BY DEF Inv, TokensPart, GroupByDirectory
  <1> QED BY <1>2, <1>3, <1>4 DEF Inv, GroupByDirectory

LEMMA PlaceByPathInv == ASSUME Inv, PlaceByPath PROVE Inv'
  <1>1. PICK f \in orphans :
          /\ orphans' = orphans \ {f}
          /\ LET best == BestByPath(clusters, f)
             IN IF best = {} THEN clusters' = clusters \cup {{f}}
                ELSE \E c \in best : clusters' = Joined(clusters, c, f)
    BY DEF PlaceByPath
  <1>2. BestByPath(clusters, f) \subseteq clusters
    BY DEF BestByPath
  <1>3. \/ clusters' = clusters \cup {{f}}
        \/ \E c \in clusters : clusters' = (clusters \ {c}) \cup {c \cup {f}}
    BY <1>1, <1>2 DEF Joined
  <1>4. FoundPart'
    <2>1. clusters' \subseteq SUBSET DOMAIN net
      BY <1>3 DEF Inv, FoundPart
    <2> QED BY <1>1, <2>1 DEF Inv, FoundPart, PlaceByPath
  <1>5. PhasesPart'
    BY DEF Inv, PhasesPart, PlaceByPath
  <1>6. TokensPart'
    BY DEF Inv, TokensPart, PlaceByPath
  <1> QED BY <1>4, <1>5, <1>6 DEF Inv, PlaceByPath

LEMMA ClusterTreeInv == ASSUME Inv, ClusterTree PROVE Inv'
  <1>1. PICK top \in Trees(DOMAIN net) : tree' = BuildTreeClusters(top)
    BY DEF ClusterTree
  <1>2. IsRow(tree', DOMAIN net)
    <2> DEFINE S == DOMAIN net
               row == BuildTreeClusters(top)
    <2>1. IsTree(top, S)
      BY TreesAre DEF Inv, FoundPart
    <2> HIDE DEF S
    <2>2. IsSequence(row) /\ Once(row, S)
      BY <2>1, TreeIs
    <2>3. tree' = row
      BY <1>1
    <2> HIDE DEF row
    <2> QED BY <2>2, <2>3 DEF IsRow, Once, S
  <1>3. FoundPart'
    BY <1>2 DEF Inv, FoundPart, ClusterTree
  <1>4. PhasesPart'
    BY DEF Inv, PhasesPart, ClusterTree
  <1>5. TokensPart'
    BY DEF Inv, TokensPart, ClusterTree
  <1> QED BY <1>3, <1>4, <1>5 DEF Inv, ClusterTree

\* Steps that make components of them.
LEMMA MapInv ==
  ASSUME Inv, NEW cs, IsRow(cs, DOMAIN net), Map(cs), pc # "naming", UNCHANGED features
  PROVE  PhasesPart'
  <1> DEFINE found == Components(cs, IdentifyHubs(Work))
             ids == NodeIds(found)
  <1>1. IsResult(found)
    <2>1. Len(cs) \in Nat
      BY DEF IsRow, IsSequence
    <2> QED BY <2>1, ComponentsAre
  <1>2. /\ comps' = found
        /\ \/ pc' = "merging" /\ waiting' = waiting
           \/ pc' = "naming" /\ waiting' = SetToSeq(ids)
    BY DEF Map
  <1>3. waiting = <<>> /\ IsFiniteSet(DOMAIN features)
    BY DEF Inv, PhasesPart
  <1> HIDE DEF found
  <1>4. SetToSeq(ids) \in Seq(ids)
    <2>1. IsFiniteSet(ids)
      BY <1>1 DEF IsResult
    <2> HIDE DEF ids
    <2>2. IsSequence(SetToSeq(ids)) /\ ToSet(SetToSeq(ids)) \subseteq ids
      BY <2>1, SetToSeqIs
    <2> QED BY <2>2 DEF IsSequence
  <1>5. <<>> \in Seq(ids)
    OBVIOUS
  <1>6. waiting' \in Seq(ids) /\ (pc' # "naming" => waiting' = <<>>)
    BY <1>2, <1>3, <1>4, <1>5
  <1> QED BY <1>1, <1>2, <1>3, <1>6 DEF PhasesPart

LEMMA MapFlatInv == ASSUME Inv, MapFlat PROVE Inv'
  <1>1. PICK split \in SplitMegaClusters(clusters, opt.maxSize) :
          Map(SplitOversizedByDirectory(BuildFlatClusters(split), opt.maxSize))
    BY DEF MapFlat
  <1> DEFINE S == DOMAIN net
             cs == SplitOversizedByDirectory(BuildFlatClusters(split), opt.maxSize)
  <1>2. split \subseteq SUBSET S /\ IsFiniteSet(S) /\ opt.maxSize \in Nat
    BY SplitMegaAmong DEF Inv, FoundPart
  <1>3. IsRow(cs, S)
    BY <1>2, FlatRow, SplitKeeps
  <1> HIDE DEF cs
  <1>4. PhasesPart'
    BY <1>1, <1>3, MapInv DEF MapFlat, cs
  <1>5. FoundPart'
    BY <1>1 DEF Inv, FoundPart, MapFlat, Map
  <1>6. TokensPart'
    BY DEF Inv, TokensPart, MapFlat
  <1> QED BY <1>4, <1>5, <1>6 DEF Inv, MapFlat

LEMMA MapTreeInv == ASSUME Inv, MapTree PROVE Inv'
  <1> DEFINE S == DOMAIN net
             cs == SplitOversizedByDirectory(tree, opt.maxSize)
  <1>1. IsRow(cs, S)
    BY SplitKeeps DEF Inv, FoundPart
  <1>2. Map(cs) /\ pc = "tree" /\ UNCHANGED features
    BY DEF MapTree
  <1> HIDE DEF cs
  <1>3. PhasesPart'
    BY <1>1, <1>2, MapInv
  <1>4. FoundPart'
    <2>1. IsRow(<<>>, S)
      BY EmptySequence DEF IsRow
    <2> QED BY <1>2, <2>1 DEF Inv, FoundPart, MapTree, Map
  <1>5. TokensPart'
    BY DEF Inv, TokensPart, MapTree
  <1> QED BY <1>3, <1>4, <1>5 DEF Inv, MapTree

\* Steps that ask the LLM.
LEMMA NameBatchInv == ASSUME Inv, NameBatch PROVE Inv'
  <1> DEFINE n == SmallLeast(BatchSize, Len(waiting))
             batch == ToSet(SubSeq(waiting, 1, n))
             cost == NamingTokens(Work, comps, batch)
             S == NodeIds(comps)
  <1>1. /\ waiting # <<>> /\ waiting' = SubSeq(waiting, n + 1, Len(waiting))
        /\ tokens' = tokens + cost
        /\ IF tokens' > TokenBudget THEN spent' = spent ELSE spent' = spent + cost
    BY DEF NameBatch
  <1>2. IsFiniteSet(S) /\ waiting \in Seq(S) /\ IsFiniteSet(NodeIds(Work))
    BY CompletedFinite DEF Inv, PhasesPart, IsResult, Work
  <1>3. IsFiniteSet(batch) /\ waiting' \in Seq(S)
    BY <1>1, <1>2, BatchIs
  <1>4. cost \in Nat
    BY <1>2, <1>3, NamingCosts
  <1> HIDE DEF cost, batch, n
  <1>5. TokensPart'
    BY <1>1, <1>4, InferenceAssumption DEF Inv, TokensPart, InferenceAssumption
  <1>6. PhasesPart'
    BY <1>3 DEF Inv, PhasesPart, NameBatch
  <1>7. FoundPart'
    BY DEF Inv, FoundPart, NameBatch
  <1> QED BY <1>5, <1>6, <1>7 DEF Inv, NameBatch

LEMMA InferFeaturesInv == ASSUME Inv, InferFeatures PROVE Inv'
  <1> DEFINE ids == NodeIds(comps)
             cost == FeatureTokens(ids)
  <1>1. /\ waiting = <<>> /\ tokens' = tokens + cost
        /\ IF tokens' > TokenBudget THEN features' = features /\ spent' = spent
           ELSE spent' = spent + cost
                /\ \E answer \in Answers(ids) : features' \in Kept(Grounded(answer, ids))
    BY DEF InferFeatures
  <1>2. cost \in Nat
    BY FS_CardinalityType DEF FeatureTokens, Inv, PhasesPart, IsResult
  <1> HIDE DEF cost
  <1>3. IsFiniteSet(DOMAIN features')
    BY <1>1, FeaturesFinite DEF Inv, PhasesPart
  <1>4. TokensPart'
    BY <1>1, <1>2, InferenceAssumption DEF Inv, TokensPart, InferenceAssumption
  <1>5. PhasesPart'
    BY <1>1, <1>3 DEF Inv, PhasesPart, InferFeatures
  <1>6. FoundPart'
    BY DEF Inv, FoundPart, InferFeatures
  <1> QED BY <1>4, <1>5, <1>6 DEF Inv, InferFeatures

\* Steps that change what is on disk.
LEMMA MergedIsGraph ==
  ASSUME NEW g, IsGraph(g), NEW r, IsResult(r)
  PROVE  /\ IsGraph(MergeIntoGraph(g, r))
         /\ Files(MergeIntoGraph(g, r)) = Files(g)
  <1> DEFINE h == MergeIntoGraph(g, r)
             nodes == Merged(g, r)
  <1>1. PICK new \in SUBSET r.edges :
          h = [project |-> g.project, nodes |-> nodes, edges |-> Untouched(g) \cup new]
    BY MergedIs
  <1>2. DOMAIN nodes = Theirs(g) \cup NodeIds(r) /\ nodes = [id \in DOMAIN nodes |-> nodes[id]]
    BY DEF Merged
  <1>3. ASSUME NEW id \in Theirs(g)
        PROVE  /\ IsNode(nodes[id]) /\ nodes[id].source # "infer"
               /\ nodes[id].type = g.nodes[id].type
    <2>1. IsNode(g.nodes[id]) /\ g.nodes[id].source # "infer"
      BY <1>3 DEF IsGraph, Theirs
    <2>2. nodes[id] = g.nodes[id] \/ \E title : nodes[id] = [g.nodes[id] EXCEPT !.title = title]
      BY <1>3 DEF Merged
    <2> HIDE DEF nodes
    <2> QED BY <2>1, <2>2 DEF IsNode
  <1>4. ASSUME NEW id \in NodeIds(r) \ Theirs(g) PROVE IsInferredNode(nodes[id])
    BY <1>4 DEF Merged, IsResult
  <1>5. ASSUME NEW id \in NodeIds(g) \ Theirs(g)
        PROVE  g.nodes[id].type \in {"component", "feature"}
    BY <1>5 DEF IsGraph, Theirs
  <1>6. IsFiniteSet(DOMAIN nodes)
    <2>1. IsFiniteSet(Theirs(g)) /\ IsFiniteSet(NodeIds(r))
      BY FS_Subset DEF IsGraph, IsResult, Theirs
    <2>2. IsFiniteSet(Theirs(g) \cup NodeIds(r))
      BY <2>1, FS_Union
    <2> QED BY <1>2, <2>2
  <1> HIDE DEF nodes, h
  <1>7. /\ h.nodes = nodes /\ NodeIds(h) = DOMAIN nodes
        /\ h = [project |-> h.project, nodes |-> h.nodes, edges |-> h.edges]
    BY <1>1 DEF NodeIds
  <1>8. ASSUME NEW id \in DOMAIN nodes, nodes[id].type = "file"
        PROVE  id \in Theirs(g) /\ g.nodes[id].type = "file"
    BY <1>2, <1>3, <1>4, <1>8 DEF IsInferredNode
  <1>9. Files(h) = Files(g)
    <2>1. Files(h) \subseteq Files(g)
      BY <1>7, <1>8 DEF Files, Theirs
    <2>2. ASSUME NEW id \in Files(g) PROVE id \in Files(h)
      <3>1. id \in NodeIds(g) /\ g.nodes[id].type = "file"
        BY <2>2 DEF Files
      <3>2. id \in Theirs(g)
        BY <1>5, <3>1
      <3> QED BY <1>2, <1>3, <1>7, <3>1, <3>2 DEF Files
    <2> QED BY <2>1, <2>2
  <1>10. \A id \in NodeIds(h) :
           /\ IsNode(h.nodes[id])
           /\ h.nodes[id].source = "infer" =>
                 h.nodes[id].type \in {"component", "feature"} /\ h.nodes[id].file = None
    BY <1>2, <1>3, <1>4, <1>7 DEF IsInferredNode
  <1>11. None \notin Files(h)
    BY <1>9 DEF IsGraph
  <1>12. IsGraph(h)
    BY <1>2, <1>6, <1>7, <1>10, <1>11 DEF IsGraph
  <1> QED BY <1>9, <1>12 DEF h

LEMMA ResultIs ==
  ASSUME Inv
  PROVE  IsResult(Result) /\ NodeIds(Result) = NodeIds(comps) \cup {features[k].id : k \in DOMAIN features}
  <1>1. IsResult(comps) /\ IsFiniteSet(DOMAIN features)
    BY DEF Inv, PhasesPart
  <1> DEFINE r == FromPhases(Work, comps, named, features)
             ids == {features[k].id : k \in DOMAIN features}
  <1>2. IsResult(r)
    BY <1>1, PhasesAre
  <1>3. NodeIds(r) = NodeIds(comps) \cup ids
    BY <1>1, PhasesAre
  <1>4. Result = r
    BY DEF Result
  <1> HIDE DEF r
  <1> QED BY <1>2, <1>3, <1>4

LEMMA SaveInv == ASSUME Inv, Save PROVE Inv'
  <1>1. IsGraph(graph')
    BY ResultIs, MergedIsGraph DEF Inv, Save
  <1> QED BY <1>1, IdleInv DEF Save

LEMMA AddEdgeIsGraph ==
  ASSUME NEW g, IsGraph(g), NEW e PROVE IsGraph(AddEdge(g, e))
  <1>1. PICK edges : AddEdge(g, e) = [g EXCEPT !.edges = edges]
    BY DEF AddEdge, AddEdges
  <1> DEFINE h == AddEdge(g, e)
  <1>2. h = [project |-> g.project, nodes |-> g.nodes, edges |-> edges]
    BY <1>1 DEF IsGraph
  <1> HIDE DEF h
  <1>3. /\ h = [project |-> h.project, nodes |-> h.nodes, edges |-> h.edges]
        /\ h.nodes = g.nodes /\ NodeIds(h) = NodeIds(g) /\ Files(h) = Files(g)
    BY <1>2 DEF NodeIds, Files
  <1>4. IsGraph(h)
    BY <1>3 DEF IsGraph
  <1> QED BY <1>4 DEF h

LEMMA AdoptIsGraph == ASSUME IsGraph(graph), Adopt PROVE IsGraph(graph')
  <1>1. PICK id \in NodeIds(graph) :
          graph.nodes[id].source = "infer" /\ graph' = [graph EXCEPT !.nodes[id].source = None]
    BY DEF Adopt, InferredIds
  <1> DEFINE node == [graph.nodes[id] EXCEPT !.source = None]
             nodes == [graph.nodes EXCEPT ![id] = node]
  <1>2. graph' = [graph EXCEPT !.nodes = nodes]
    BY <1>1
  <1>3. IsNode(node) /\ node.source = None /\ node.type = graph.nodes[id].type
        /\ node.type \in {"component", "feature"}
    <2> DEFINE x == graph.nodes[id]
    <2>1. IsNode(x) /\ x.type \in {"component", "feature"}
      BY <1>1 DEF IsGraph
    <2>2. node = [x EXCEPT !.source = None]
      OBVIOUS
    <2> HIDE DEF x, node
    <2>3. IsNode(node) /\ node.source = None /\ node.type = x.type
      BY <2>1, <2>2 DEF IsNode
    <2> QED BY <2>1, <2>3 DEF x
  <1> HIDE DEF node
  <1>4. /\ DOMAIN nodes = NodeIds(graph) /\ nodes = [i \in NodeIds(graph) |-> nodes[i]]
        /\ nodes[id] = node /\ \A i \in NodeIds(graph) : i # id => nodes[i] = graph.nodes[i]
    BY <1>1 DEF NodeIds, IsGraph
  <1> HIDE DEF nodes
  <1>5. graph' = [project |-> graph.project, nodes |-> nodes, edges |-> graph.edges]
    BY <1>2 DEF IsGraph
  <1>6. /\ graph' = [project |-> graph'.project, nodes |-> graph'.nodes, edges |-> graph'.edges]
        /\ graph'.nodes = nodes /\ NodeIds(graph') = NodeIds(graph)
    BY <1>4, <1>5 DEF NodeIds
  <1>7. Files(graph') \subseteq Files(graph)
    BY <1>3, <1>4, <1>6 DEF Files
  <1>8. \A i \in NodeIds(graph') :
          /\ IsNode(graph'.nodes[i])
          /\ graph'.nodes[i].source = "infer" =>
                graph'.nodes[i].type \in {"component", "feature"} /\ graph'.nodes[i].file = None
    <2> TAKE i \in NodeIds(graph')
    <2>1. CASE i = id
      BY <1>3, <1>4, <1>6, <2>1 DEF None
    <2>2. CASE i # id
      BY <1>4, <1>6, <2>2 DEF IsGraph
    <2> QED BY <2>1, <2>2
  <1>9. graph'.nodes = [i \in NodeIds(graph') |-> graph'.nodes[i]] /\ IsFiniteSet(NodeIds(graph'))
        /\ None \notin Files(graph')
    BY <1>4, <1>6, <1>7 DEF IsGraph
  <1> QED BY <1>6, <1>8, <1>9 DEF IsGraph

LEMMA EditInv == ASSUME Inv, Edit PROVE Inv'
  <1>1. IsGraph(graph')
    <2>1. IsGraph(graph)
      BY DEF Inv
    <2>2. CASE Adopt
      BY <2>1, <2>2, AdoptIsGraph
    <2>3. CASE LinkTask
      BY <2>1, <2>3, AddEdgeIsGraph DEF LinkTask
    <2>4. CASE NewImport
      BY <2>1, <2>4, AddEdgeIsGraph DEF NewImport
    <2> QED BY <2>2, <2>3, <2>4 DEF Edit
  <1>2. FoundPart'
    BY DEF Inv, FoundPart, Edit
  <1>3. PhasesPart'
    BY DEF Inv, PhasesPart, Edit
  <1>4. TokensPart'
    BY DEF Inv, TokensPart, Edit
  <1> QED BY <1>1, <1>2, <1>3, <1>4 DEF Inv, Edit

LEMMA StutterInv == ASSUME Inv, UNCHANGED vars PROVE Inv'
  <1>1. FoundPart'
    BY DEF Inv, FoundPart, vars
  <1>2. PhasesPart'
    BY DEF Inv, PhasesPart, vars
  <1>3. TokensPart'
    BY DEF Inv, TokensPart, vars
  <1> QED BY <1>1, <1>2, <1>3 DEF Inv, vars

LEMMA NextInv == ASSUME Inv, [Next]_vars PROVE Inv'
  <1>1. CASE Infer
    BY <1>1, LoadInv, NothingToClusterInv, ClusterFlatInv, PlaceByAffinityInv,
       GroupByDirectoryInv, PlaceByPathInv, MapFlatInv, ClusterTreeInv, MapTreeInv, OverflowInv,
       NameBatchInv, InferFeaturesInv, SaveInv DEF Infer
  <1> QED BY <1>1, EditInv, StutterInv DEF Next

LEMMA SpecInv == Spec => []Inv
  <1>1. Init => Inv
    BY InitInv
  <1>2. Inv /\ [Next]_vars => Inv'
    BY NextInv
  <1> QED BY <1>1, <1>2, PTL DEF Spec

\* A run that was about to save and is done has saved.
LEMMA SavedIsSave ==
  ASSUME [Next]_vars, Saved PROVE graph' = MergeIntoGraph(mem, Result)
  <1>1. pc = "merging" /\ pc' = "idle"
    BY DEF Saved
  <1>2. Save
    BY <1>1 DEF Next, Infer, vars, Load, NothingToCluster, ClusterFlat, PlaceByAffinity,
       GroupByDirectory, PlaceByPath, MapFlat, ClusterTree, MapTree, Overflow, NameBatch,
       InferFeatures, Edit
  <1> QED BY <1>2 DEF Save

-----------------------------------------------------------------------------
(* Theorems *)

\* The prompts that were sent never cost more than the budget, whatever the batches and
\* the answers (labeling.rs, GUARD-4): each is counted before it is compared and sent.
THEOREM InferenceBudgetKept == Spec => []BudgetKept
  <1>1. Inv => BudgetKept
    BY DEF Inv, TokensPart, BudgetKept
  <1> QED BY <1>1, SpecInv, PTL

LEMMA TheirsAfter ==
  ASSUME NEW g, IsGraph(g), NEW r, IsResult(r), NEW h, h = MergeIntoGraph(g, r)
  PROVE  /\ Theirs(g) = Theirs(h)
         /\ \A id \in Theirs(g) :
              LET title == IF id \in NodeIds(r) THEN r.nodes[id].title ELSE g.nodes[id].title
              IN h.nodes[id] = [g.nodes[id] EXCEPT !.title = title]
         /\ TheirEdges(g) \subseteq h.edges
         /\ NodeIds(h) = Theirs(g) \cup NodeIds(r)
  <1> DEFINE nodes == Merged(g, r)
  <1>1. PICK new \in SUBSET r.edges :
          h = [project |-> g.project, nodes |-> nodes, edges |-> Untouched(g) \cup new]
    BY MergedIs
  <1>2. DOMAIN nodes = Theirs(g) \cup NodeIds(r)
    BY DEF Merged
  <1>3. ASSUME NEW id \in Theirs(g)
        PROVE  LET title == IF id \in NodeIds(r) THEN r.nodes[id].title ELSE g.nodes[id].title
               IN nodes[id] = [g.nodes[id] EXCEPT !.title = title]
    <2>1. CASE id \in NodeIds(r)
      BY <1>3, <2>1 DEF Merged
    <2>2. CASE id \notin NodeIds(r)
      <3>1. nodes[id] = g.nodes[id]
        BY <1>3, <2>2 DEF Merged
      <3>2. IsNode(g.nodes[id])
        BY <1>3 DEF IsGraph, Theirs
      <3> DEFINE x == g.nodes[id]
      <3> HIDE DEF x
      <3>3. x = [x EXCEPT !.title = x.title]
        BY <3>2 DEF IsNode, x
      <3> HIDE DEF nodes
      <3> QED BY <2>2, <3>1, <3>3 DEF x
    <2> QED BY <2>1, <2>2
  <1>4. ASSUME NEW id \in Theirs(g) PROVE nodes[id].source # "infer"
    <2>1. IsNode(g.nodes[id]) /\ g.nodes[id].source # "infer"
      BY <1>4 DEF IsGraph, Theirs
    <2>2. \E title : nodes[id] = [g.nodes[id] EXCEPT !.title = title]
      BY <1>3, <1>4
    <2> HIDE DEF nodes
    <2> QED BY <2>1, <2>2 DEF IsNode
  <1>5. ASSUME NEW id \in NodeIds(r) \ Theirs(g) PROVE nodes[id].source = "infer"
    BY <1>5 DEF Merged, IsResult, IsInferredNode
  <1>6. TheirEdges(g) \subseteq Untouched(g)
    BY DEF TheirEdges, Untouched
  <1> HIDE DEF nodes
  <1>7. h.nodes = nodes /\ NodeIds(h) = DOMAIN nodes /\ h.edges = Untouched(g) \cup new
    BY <1>1 DEF NodeIds
  <1>8. Theirs(h) = Theirs(g)
    BY <1>2, <1>4, <1>5, <1>7 DEF Theirs
  <1>9. \A id \in Theirs(g) :
           LET title == IF id \in NodeIds(r) THEN r.nodes[id].title ELSE g.nodes[id].title
           IN h.nodes[id] = [g.nodes[id] EXCEPT !.title = title]
    BY <1>3, <1>7
  <1> QED BY <1>2, <1>6, <1>7, <1>8, <1>9

\* Whatever is inferred, what is saved has all the user's nodes as they were loaded but
\* for a title, the edges between them, and of what is inferred only this run's result
\* (integration.rs, merge_into_graph).
THEOREM InferenceKeepsUserWork == Spec => UserWorkKept
  <1>1. ASSUME Inv, [Next]_vars, Saved
        PROVE  /\ Theirs(mem) = Theirs(graph')
               /\ \A id \in Theirs(mem) :
                    LET title == IF id \in NodeIds(Result) THEN Result.nodes[id].title
                                 ELSE mem.nodes[id].title
                    IN graph'.nodes[id] = [mem.nodes[id] EXCEPT !.title = title]
               /\ TheirEdges(mem) \subseteq graph'.edges
               /\ NodeIds(graph') = Theirs(mem) \cup NodeIds(Result)
    <2>1. graph' = MergeIntoGraph(mem, Result)
      BY <1>1, SavedIsSave
    <2>2. IsGraph(mem) /\ IsResult(Result)
      BY <1>1, ResultIs DEF Inv
    <2> QED BY <2>1, <2>2, TheirsAfter
  <1>2. Inv /\ [Next]_vars =>
          (Saved =>
            /\ Theirs(mem) = Theirs(graph')
            /\ \A id \in Theirs(mem) :
                 LET title == IF id \in NodeIds(Result) THEN Result.nodes[id].title
                              ELSE mem.nodes[id].title
                 IN graph'.nodes[id] = [mem.nodes[id] EXCEPT !.title = title]
            /\ TheirEdges(mem) \subseteq graph'.edges
            /\ NodeIds(graph') = Theirs(mem) \cup NodeIds(Result))
    BY <1>1
  <1> QED BY <1>2, SpecInv, PTL DEF Spec, UserWorkKept

-----------------------------------------------------------------------------
(* What is inferred is no input *)

\* For what the network is made of, a merge changes nothing.
LEMMA SameFiles ==
  ASSUME NEW g, IsGraph(g), KeepsIds(g), NEW r, IsResult(r), \A id \in NodeIds(r) : Reserved(id),
         NEW h, h = MergeIntoGraph(g, r)
  PROVE  /\ KeepsIds(h) /\ Files(h) = Files(g)
         /\ \A id : FileOf(h, id) = FileOf(g, id)
         /\ Links(h) = Links(g)
         /\ \A f \in Files(g) : SymbolWords(h, f) = SymbolWords(g, f)
  <1> DEFINE nodes == Merged(g, r)
  <1>1. PICK new \in SUBSET r.edges :
          h = [project |-> g.project, nodes |-> nodes, edges |-> Untouched(g) \cup new]
    BY MergedIs
  <1>2. DOMAIN nodes = Theirs(g) \cup NodeIds(r)
    BY DEF Merged
  <1>3. ASSUME NEW id \in Theirs(g)
        PROVE  /\ nodes[id].type = g.nodes[id].type /\ nodes[id].file = g.nodes[id].file
               /\ id \notin NodeIds(r) => nodes[id] = g.nodes[id]
    <2>1. IsNode(g.nodes[id])
      BY <1>3 DEF IsGraph, Theirs
    <2>2. \/ nodes[id] = g.nodes[id]
          \/ id \in NodeIds(r) /\ \E title : nodes[id] = [g.nodes[id] EXCEPT !.title = title]
      BY <1>3 DEF Merged
    <2> HIDE DEF nodes
    <2> QED BY <2>1, <2>2 DEF IsNode
  <1>4. ASSUME NEW id \in NodeIds(r) \ Theirs(g)
        PROVE  nodes[id].type # "file" /\ nodes[id].file = None
    BY <1>4 DEF Merged, IsResult, IsInferredNode
  <1>5. ASSUME NEW id \in NodeIds(g) \ Theirs(g)
        PROVE  g.nodes[id].type # "file" /\ g.nodes[id].file = None
    BY <1>5 DEF IsGraph, Theirs
  <1> HIDE DEF nodes
  <1>6. h.nodes = nodes /\ NodeIds(h) = DOMAIN nodes /\ h.edges = Untouched(g) \cup new
    BY <1>1 DEF NodeIds
  <1>7. Files(h) = Files(g) /\ None \notin Files(g)
    BY MergedIsGraph DEF IsGraph
  <1>8. Theirs(g) \subseteq NodeIds(g)
    BY DEF Theirs
  <1>9. KeepsIds(h)
    BY <1>2, <1>3, <1>4, <1>6, <1>8 DEF KeepsIds
  <1>10. ASSUME NEW id PROVE FileOf(h, id) = FileOf(g, id)
    <2>1. CASE id \in Files(g)
      BY <1>7, <2>1 DEF FileOf
    <2>2. CASE id \notin Files(g) /\ id \in Theirs(g)
      BY <1>2, <1>3, <1>6, <1>7, <1>8, <2>2 DEF FileOf
    <2>3. CASE id \notin Files(g) /\ id \notin Theirs(g)
      <3>1. FileOf(g, id) = None
        BY <1>5, <1>7, <2>3 DEF FileOf
      <3>2. FileOf(h, id) = None
        BY <1>2, <1>4, <1>6, <1>7, <2>3 DEF FileOf
      <3> QED BY <3>1, <3>2
    <2> QED BY <2>1, <2>2, <2>3
  <1>11. ASSUME NEW id, FileOf(g, id) # None PROVE id \in Theirs(g) /\ ~ Reserved(id)
    <2>1. id \in NodeIds(g) /\ (g.nodes[id].type = "file" \/ g.nodes[id].file \in Files(g))
      BY <1>11 DEF FileOf, Files
    <2>2. id \in Theirs(g)
      BY <1>5, <1>7, <2>1
    <2>3. ~ Reserved(id)
      BY <1>7, <2>1 DEF KeepsIds
    <2> QED BY <2>2, <2>3
  <1>12. Links(h) = Links(g)
    <2>1. ASSUME NEW e \in Links(h) PROVE e \in Links(g)
      <3>1. /\ e \in h.edges /\ FileOf(g, e.from) # None /\ FileOf(g, e.to) # None
            /\ FileOf(g, e.from) # FileOf(g, e.to)
        BY <1>10, <2>1 DEF Links
      <3>2. e \notin new
        BY <1>11, <3>1 DEF IsResult
      <3> QED BY <1>6, <3>1, <3>2 DEF Links, Untouched
    <2>2. ASSUME NEW e \in Links(g) PROVE e \in Links(h)
      <3>1. /\ e \in g.edges /\ FileOf(g, e.from) # None /\ FileOf(g, e.to) # None
            /\ FileOf(g, e.from) # FileOf(g, e.to)
        BY <2>2 DEF Links
      <3>2. e.from \in Theirs(g) /\ e.to \in Theirs(g)
        BY <1>11, <3>1
      <3>3. e \in Untouched(g)
        BY <3>1, <3>2 DEF Untouched, Ends
      <3> QED BY <1>6, <1>10, <3>1, <3>3 DEF Links
    <2> QED BY <2>1, <2>2
  <1>13. ASSUME NEW f \in Files(g) PROVE SymbolWords(h, f) = SymbolWords(g, f)
    <2> DEFINE in(k) == {id \in NodeIds(k) : k.nodes[id].type \in Symbols /\ k.nodes[id].file = f}
    <2>1. f # None
      BY <1>7
    <2>2. ASSUME NEW id \in in(h) PROVE id \in in(g) /\ h.nodes[id] = g.nodes[id]
      <3>1. id \in Theirs(g)
        BY <1>2, <1>4, <1>6, <2>1, <2>2
      <3>2. id \notin NodeIds(r)
        BY <1>3, <1>6, <1>8, <2>1, <2>2, <3>1 DEF KeepsIds
      <3> QED BY <1>3, <1>6, <1>8, <2>2, <3>1, <3>2
    <2>3. ASSUME NEW id \in in(g) PROVE id \in in(h)
      <3>1. id \in Theirs(g)
        BY <1>5, <2>1, <2>3
      <3> QED BY <1>2, <1>3, <1>6, <2>3, <3>1
    <2>4. in(h) = in(g) /\ \A id \in in(g) : h.nodes[id] = g.nodes[id]
      BY <2>2, <2>3
    <2>5. SymbolWords(h, f) = UNION {Words[h.nodes[id].title] : id \in in(h)}
      BY DEF SymbolWords
    <2>6. SymbolWords(g, f) = UNION {Words[g.nodes[id].title] : id \in in(g)}
      BY DEF SymbolWords
    <2> HIDE DEF in
    <2> QED BY <2>4, <2>5, <2>6
  <1> QED BY <1>7, <1>9, <1>10, <1>12, <1>13

\* Graphs with the same files, links and symbols have the same network.
LEMMA SameNetwork ==
  ASSUME NEW g, NEW h, Files(h) = Files(g), \A id : FileOf(h, id) = FileOf(g, id),
         Links(h) = Links(g), \A f \in Files(g) : SymbolWords(h, f) = SymbolWords(g, f)
  PROVE  Network(h) = Network(g) /\ IdentifyHubs(h) = IdentifyHubs(g)
  <1>1. ASSUME NEW f PROVE LinksTo(h, f) = LinksTo(g, f)
    BY DEF LinksTo
  <1>2. IdentifyHubs(h) = IdentifyHubs(g)
    BY <1>1 DEF IdentifyHubs
  <1>3. BuildNetwork(h) = BuildNetwork(g)
    <2>1. ASSUME NEW f, NEW i
          PROVE  {e \in Links(h) : FileOf(h, e.from) = f /\ FileOf(h, e.to) = i}
                   = {e \in Links(g) : FileOf(g, e.from) = f /\ FileOf(g, e.to) = i}
      OBVIOUS
    <2> QED BY <2>1 DEF BuildNetwork
  <1> DEFINE within == ExcludeHubs(BuildNetwork(g), IdentifyHubs(g))
             cited == AddCoCitation(within, g)
  <1>4. AddCoCitation(within, h) = cited
    <2>1. ASSUME NEW f
          PROVE  {FileOf(h, e.from) : e \in LinksTo(h, f)} = {FileOf(g, e.from) : e \in LinksTo(g, f)}
      BY <1>1
    <2> HIDE DEF within
    <2>2. [f \in DOMAIN within |-> {FileOf(h, e.from) : e \in LinksTo(h, f)} \cap DOMAIN within]
            = [f \in DOMAIN within |-> {FileOf(g, e.from) : e \in LinksTo(g, f)} \cap DOMAIN within]
      BY <2>1
    <2> QED BY <2>2 DEF AddCoCitation
  <1>5. DOMAIN cited \subseteq Files(g)
    <2>1. DOMAIN cited = DOMAIN within
      BY DEF AddCoCitation, WithTies
    <2>2. DOMAIN within = Files(g) \ IdentifyHubs(g)
      BY DEF ExcludeHubs, ExtractSubgraph, BuildNetwork
    <2> QED BY <2>1, <2>2
  <1> HIDE DEF cited, within
  <1>6. AddSymbolSimilarity(cited, h) = AddSymbolSimilarity(cited, g)
    <2> DEFINE tie(words) == [f \in DOMAIN cited |-> [i \in DOMAIN cited |->
                  LET shared == Cardinality(words[f] \cap words[i])
                      all == Cardinality(words[f] \cup words[i])
                  IN IF shared >= MinShared /\ 100 * shared >= 15 * all
                     THEN (50 * shared) \div all ELSE 0]]
               after == [f \in DOMAIN cited |-> SymbolWords(h, f)]
               before == [f \in DOMAIN cited |-> SymbolWords(g, f)]
    <2>1. after = before
      BY <1>5
    <2>2. AddSymbolSimilarity(cited, h) = WithTies(cited, tie(after))
      BY DEF AddSymbolSimilarity
    <2>3. AddSymbolSimilarity(cited, g) = WithTies(cited, tie(before))
      BY DEF AddSymbolSimilarity
    <2> HIDE DEF tie, after, before
    <2> QED BY <2>1, <2>2, <2>3
  <1>7. Network(g) = AddDirColocation(AddSymbolSimilarity(cited, g))
    BY DEF Network, cited, within
  <1>8. Network(h) = AddDirColocation(AddSymbolSimilarity(AddCoCitation(within, h), h))
    BY <1>2, <1>3 DEF Network, within
  <1> QED BY <1>2, <1>4, <1>6, <1>7, <1>8

\* What is in the graph, loaded or found has ids that are kept apart.
IdsInv ==
  /\ KeepsIds(graph) /\ KeepsIds(mem)
  /\ \A id \in NodeIds(comps) : Reserved(id)
  /\ \A k \in DOMAIN features : Reserved(features[k].id)

LEMMA ResultReserved == ASSUME Inv, IdsInv PROVE \A id \in NodeIds(Result) : Reserved(id)
  BY ResultIs DEF IdsInv

LEMMA NewGraphKeepsIds == KeepsIds(NewGraph) /\ NodeIds(NewGraph) = {}
  BY DEF KeepsIds, NewGraph, NodeIds

LEMMA IdleIds == ASSUME Idle, KeepsIds(graph') PROVE IdsInv'
  BY NewGraphKeepsIds DEF Idle, IdsInv

LEMMA FeaturesReserved ==
  ASSUME NEW ids, NEW answer \in Answers(ids), NEW fs \in Kept(Grounded(answer, ids))
  PROVE  \A k \in DOMAIN fs : Reserved(fs[k].id)
  <1> DEFINE grounded == Grounded(answer, ids)
  <1>1. \A k \in DOMAIN answer : answer[k].title \in DOMAIN Slug
    <2>1. CASE answer = <<>>
      BY <2>1
    <2>2. CASE answer # <<>>
      <3> DEFINE any == CHOOSE t \in DOMAIN Slug : TRUE
      <3>0. PICK b \in DOMAIN Slug :
              \E x, y : answer = <<[title |-> any, refs |-> x], [title |-> b, refs |-> y]>>
        BY <2>2 DEF Answers
      <3>1. PICK x, y : answer = <<[title |-> any, refs |-> x], [title |-> b, refs |-> y]>>
        BY <3>0
      <3>2. any \in DOMAIN Slug
        OBVIOUS
      <3> HIDE DEF any
      <3>3. DOMAIN answer = {1, 2} /\ answer[1].title = any /\ answer[2].title = b
        BY <3>1
      <3> QED BY <3>2, <3>3
    <2> QED BY <2>1, <2>2
  <1>2. \A k \in DOMAIN grounded : k \in DOMAIN answer /\ grounded[k].id = Slug[answer[k].title]
    BY DEF Grounded
  <1> HIDE DEF grounded
  <1>3. \A k \in DOMAIN grounded : Reserved(grounded[k].id)
    BY <1>1, <1>2 DEF Reserved
  <1>4. fs = grounded \/ \E place \in [1..MaxFeatures -> DOMAIN grounded] :
                             fs = [i \in 1..MaxFeatures |-> grounded[place[i]]]
    <2>1. fs \in Kept(grounded)
      BY DEF grounded
    <2> QED BY <2>1 DEF Kept
  <1> QED BY <1>3, <1>4

LEMMA MapIds == ASSUME Inv, IdsInv, NEW cs, IsRow(cs, DOMAIN net), Map(cs)
                PROVE  \A id \in NodeIds(comps') : Reserved(id)
  <1>1. Len(cs) \in Nat
    BY DEF IsRow, IsSequence
  <1>2. comps' = Components(cs, IdentifyHubs(Work))
    BY DEF Map
  <1> QED BY <1>1, <1>2, ComponentsAre

\* Edits by others give no file one of these ids.
LEMMA EditIds == ASSUME Inv, IdsInv, Edit PROVE KeepsIds(graph')
  <1>1. KeepsIds(graph) /\ IsGraph(graph)
    BY DEF Inv, IdsInv
  <1>2. ASSUME NEW e PROVE AddEdge(graph, e).nodes = graph.nodes
    <2>1. PICK edges : AddEdge(graph, e) = [graph EXCEPT !.edges = edges]
      BY DEF AddEdge, AddEdges
    <2> QED BY <1>1, <2>1 DEF IsGraph
  <1>3. CASE LinkTask \/ NewImport
    <2>1. graph'.nodes = graph.nodes
      <3>1. \E e : graph' = AddEdge(graph, e)
        BY <1>3, Zenon DEF LinkTask, NewImport
      <3> QED BY <1>2, <3>1
    <2> QED BY <1>1, <2>1 DEF KeepsIds, NodeIds
  <1>4. CASE Adopt
    <2>1. PICK id \in NodeIds(graph) : graph' = [graph EXCEPT !.nodes[id].source = None]
      BY <1>4 DEF Adopt, InferredIds
    <2> DEFINE node == [graph.nodes[id] EXCEPT !.source = None]
               nodes == [graph.nodes EXCEPT ![id] = node]
    <2>2. graph' = [graph EXCEPT !.nodes = nodes]
      BY <2>1
    <2>3. node.type = graph.nodes[id].type /\ node.file = graph.nodes[id].file
      BY <1>1 DEF IsGraph, IsNode
    <2> HIDE DEF node
    <2>4. /\ DOMAIN nodes = NodeIds(graph) /\ nodes[id] = node
          /\ \A i \in NodeIds(graph) : i # id => nodes[i] = graph.nodes[i]
      BY <1>1 DEF NodeIds, IsGraph
    <2> HIDE DEF nodes
    <2>5. graph'.nodes = nodes
      BY <1>1, <2>2 DEF IsGraph
    <2> QED BY <1>1, <2>3, <2>4, <2>5 DEF KeepsIds, NodeIds
  <1> QED BY <1>3, <1>4 DEF Edit

LEMMA InitIds == ASSUME \A g \in StartGraphs : KeepsIds(g), Init PROVE IdsInv
  <1>1. KeepsIds(graph) /\ mem = NewGraph /\ comps = NewGraph /\ features = <<>>
    BY DEF Init
  <1>2. DOMAIN features = {}
    BY <1>1
  <1> QED BY <1>1, <1>2, NewGraphKeepsIds DEF IdsInv

LEMMA NextIds == ASSUME Inv, IdsInv, [Next]_vars PROVE IdsInv'
  <1>1. CASE Load
    BY <1>1 DEF Load, IdsInv
  <1>2. CASE NothingToCluster \/ Overflow
    BY <1>2, IdleIds DEF NothingToCluster, Overflow, IdsInv
  <1>3. CASE \/ ClusterFlat \/ PlaceByAffinity \/ GroupByDirectory \/ PlaceByPath
             \/ ClusterTree \/ NameBatch \/ UNCHANGED vars
    BY <1>3 DEF ClusterFlat, PlaceByAffinity, GroupByDirectory, PlaceByPath, ClusterTree,
       NameBatch, vars, IdsInv
  <1>4. CASE MapFlat
    <2>1. PICK split \in SplitMegaClusters(clusters, opt.maxSize) :
            Map(SplitOversizedByDirectory(BuildFlatClusters(split), opt.maxSize))
      BY <1>4 DEF MapFlat
    <2>2. split \subseteq SUBSET DOMAIN net /\ IsFiniteSet(DOMAIN net) /\ opt.maxSize \in Nat
      BY SplitMegaAmong DEF Inv, FoundPart
    <2>3. IsRow(SplitOversizedByDirectory(BuildFlatClusters(split), opt.maxSize), DOMAIN net)
      BY <2>2, FlatRow, SplitKeeps
    <2> QED BY <1>4, <2>1, <2>3, MapIds DEF MapFlat, IdsInv
  <1>5. CASE MapTree
    <2>1. IsRow(SplitOversizedByDirectory(tree, opt.maxSize), DOMAIN net)
      BY SplitKeeps DEF Inv, FoundPart
    <2>2. Map(SplitOversizedByDirectory(tree, opt.maxSize))
      BY <1>5 DEF MapTree
    <2> QED BY <1>5, <2>1, <2>2, MapIds DEF MapTree, IdsInv
  <1>6. CASE InferFeatures
    <2>1. \/ features' = features
          \/ \E answer \in Answers(NodeIds(comps)) :
               features' \in Kept(Grounded(answer, NodeIds(comps)))
      BY <1>6 DEF InferFeatures
    <2>2. \A k \in DOMAIN features' : Reserved(features'[k].id)
      BY <2>1, FeaturesReserved DEF IdsInv
    <2> QED BY <1>6, <2>2 DEF InferFeatures, IdsInv
  <1>7. CASE Save
    <2>1. KeepsIds(graph')
      <3>1. IsGraph(mem) /\ IsResult(Result) /\ KeepsIds(mem) /\ \A id \in NodeIds(Result) : Reserved(id)
        BY ResultIs, ResultReserved DEF Inv, IdsInv
      <3> QED BY <1>7, <3>1, SameFiles DEF Save
    <2> QED BY <1>7, <2>1, IdleIds DEF Save
  <1>8. CASE Edit
    BY <1>8, EditIds DEF Edit, IdsInv
  <1> QED BY <1>1, <1>2, <1>3, <1>4, <1>5, <1>6, <1>7, <1>8 DEF Next, Infer

\* No run feeds on what an earlier one inferred: if at first no file, nor anything in a
\* file, has an id of the kind that inference makes, the network and the hubs of the
\* graph that is saved are those of the graph that was loaded (integration.rs,
\* merge_into_graph against clustering.rs, build_network and identify_hubs).
THEOREM InferenceDoesNotFeedItself ==
  ASSUME \A g \in StartGraphs : KeepsIds(g) PROVE Spec => NoFeedback
  <1>1. Init => IdsInv
    BY InitIds
  <1>2. Inv /\ IdsInv /\ [Next]_vars => IdsInv'
    BY NextIds
  <1>3. ASSUME Inv, IdsInv, [Next]_vars, Saved
        PROVE  Network(graph') = Network(mem) /\ IdentifyHubs(graph') = IdentifyHubs(mem)
    <2>1. graph' = MergeIntoGraph(mem, Result)
      BY <1>3, SavedIsSave
    <2>2. IsGraph(mem) /\ IsResult(Result) /\ KeepsIds(mem) /\ \A id \in NodeIds(Result) : Reserved(id)
      BY <1>3, ResultIs, ResultReserved DEF Inv, IdsInv
    <2>3. /\ Files(graph') = Files(mem) /\ \A id : FileOf(graph', id) = FileOf(mem, id)
          /\ Links(graph') = Links(mem)
          /\ \A f \in Files(mem) : SymbolWords(graph', f) = SymbolWords(mem, f)
      BY <2>1, <2>2, SameFiles
    <2> QED BY <2>3, SameNetwork
  <1>4. Inv /\ IdsInv /\ [Next]_vars =>
          (Saved => Network(graph') = Network(mem) /\ IdentifyHubs(graph') = IdentifyHubs(mem))
    BY <1>3
  <1> QED BY <1>1, <1>2, <1>4, SpecInv, PTL DEF Spec, NoFeedback

-----------------------------------------------------------------------------
(* Where the files end up *)

\* On the way from the network to the components no file of it is lost or taken twice, trees
\* refer to clusters they have, and what the phases connect is a component or a file.
FilesInv ==
  /\ pc # "idle" => DOMAIN net = Files(Work) \ IdentifyHubs(Work)
  /\ IsForest(tree) /\ (pc = "tree" => Once(tree, DOMAIN net))
  /\ pc \in {"orphans", "strays"} => Divides(clusters, orphans, DOMAIN net)
  /\ pc \notin {"naming", "merging"} => comps.edges = {}
  /\ pc # "merging" => DOMAIN features = {}
  /\ EndsIn(comps, Files(Work))
  /\ pc \in {"naming", "merging"} => \A f \in Files(Work) : Reserved(f) \/ Owned(comps, f)
  /\ \A k \in DOMAIN features : features[k].components \subseteq NodeIds(comps)

LEMMA NothingHeld ==
  /\ IsForest(<<>>) /\ NewGraph.edges = {} /\ DOMAIN <<>> = {}
  /\ \A files : EndsIn(NewGraph, files)
  <1>1. DOMAIN <<>> = {} /\ NewGraph.edges = {}
    BY EmptySequence DEF NewGraph
  <1> QED BY <1>1 DEF IsForest, EndsIn

LEMMA InitFiles == ASSUME Init PROVE FilesInv
  <1>1. pc = "idle" /\ comps = NewGraph /\ tree = <<>> /\ features = <<>>
    BY DEF Init
  <1> QED BY <1>1, NothingHeld DEF FilesInv

LEMMA IdleFiles == ASSUME Idle PROVE FilesInv'
  <1>1. pc' = "idle" /\ comps' = NewGraph /\ tree' = <<>> /\ features' = <<>>
    BY DEF Idle
  <1> QED BY <1>1, NothingHeld DEF FilesInv

LEMMA SameWork == ASSUME mem' = mem, opt' = opt PROVE Work' = Work
  BY DEF Work

LEMMA LoadFiles == ASSUME Inv, FilesInv, Load PROVE FilesInv'
  <1>1. /\ pc = "idle" /\ pc' = "clustering" /\ mem' = graph
        /\ tree' = tree /\ comps' = comps /\ features' = features
    BY DEF Load
  <1>2. net' = Network(Completed(graph, opt'.source))
    BY DEF Load
  <1>3. Work' = Completed(graph, opt'.source)
    BY <1>1 DEF Work
  <1>4. DOMAIN net' = Files(Work') \ IdentifyHubs(Work')
    BY <1>2, <1>3, NetworkOfFiles
  <1>5. comps.edges = {} /\ DOMAIN features = {} /\ IsForest(tree)
    BY <1>1 DEF FilesInv
  <1>6. EndsIn(comps', Files(Work'))
    BY <1>1, <1>5 DEF EndsIn
  <1> QED BY <1>1, <1>4, <1>5, <1>6 DEF FilesInv

\* Flat clusters.
LEMMA PartitionIs ==
  ASSUME NEW S, NEW p \in Partitions(S) PROVE Divides(p, {}, S)
  <1>1. PICK f \in [S -> S] : p = {{x \in S : f[x] = k} : k \in {f[x] : x \in S}}
    BY DEF Partitions
  <1> DEFINE with(k) == {x \in S : f[x] = k}
  <1>2. p = {with(k) : k \in {f[x] : x \in S}}
    BY <1>1
  <1>3. \A x \in S : x \in with(f[x])
    OBVIOUS
  <1>4. \A k : with(k) \subseteq S
    OBVIOUS
  <1>5. ASSUME NEW k, NEW l, with(k) # with(l) PROVE with(k) \cap with(l) = {}
    <2>1. k # l
      BY <1>5
    <2> QED BY <2>1
  <1> HIDE DEF with
  <1>6. \A x \in S : \E c \in p : x \in c
    BY <1>2, <1>3
  <1>7. \A c \in p : c \subseteq S
    BY <1>2, <1>4
  <1>8. \A c, d \in p : c # d => c \cap d = {}
    BY <1>2, <1>5
  <1> QED BY <1>6, <1>7, <1>8 DEF Divides

LEMMA SplitMegaDivides ==
  ASSUME NEW cs, NEW S, Divides(cs, {}, S), NEW n, NEW split \in SplitMegaClusters(cs, n)
  PROVE  Divides(split, {}, S)
  <1>1. PICK s \in [cs -> UNION {Partitions(c) : c \in cs}] :
          /\ split = UNION {s[c] : c \in cs}
          /\ \A c \in cs : IF Cardinality(c) > n THEN UNION s[c] = c ELSE s[c] = {c}
    BY DEF SplitMegaClusters
  <1>2. ASSUME NEW c \in cs
        PROVE  /\ \A d \in s[c] : d \subseteq c
               /\ \A x \in c : \E d \in s[c] : x \in d
               /\ \A d, e \in s[c] : d # e => d \cap e = {}
    <2>1. UNION s[c] = c
      BY <1>1
    <2>2. PICK b \in cs : s[c] \in Partitions(b)
      BY <1>1
    <2>3. Divides(s[c], {}, b)
      BY <2>2, PartitionIs
    <2>4. \A d, e \in s[c] : d # e => d \cap e = {}
      BY <2>3 DEF Divides
    <2> QED BY <2>1, <2>4
  <1>3. \A x \in S : \E c \in split : x \in c
    BY <1>1, <1>2 DEF Divides
  <1>4. \A c \in split : c \subseteq S
    BY <1>1, <1>2 DEF Divides
  <1>5. ASSUME NEW d \in split, NEW e \in split, d # e PROVE d \cap e = {}
    <2>1. PICK a \in cs : d \in s[a]
      BY <1>1
    <2>2. PICK b \in cs : e \in s[b]
      BY <1>1
    <2>3. CASE a = b
      BY <1>2, <1>5, <2>1, <2>2, <2>3
    <2>4. CASE a # b
      <3>1. a \cap b = {}
        BY <2>4 DEF Divides
      <3>2. d \subseteq a /\ e \subseteq b
        BY <1>2, <2>1, <2>2
      <3> QED BY <3>1, <3>2
    <2> QED BY <2>3, <2>4
  <1> QED BY <1>3, <1>4, <1>5 DEF Divides

LEMMA JoinedDivides ==
  ASSUME NEW cs, NEW rest, NEW S, Divides(cs, rest, S), NEW c \in cs, NEW f \in rest
  PROVE  Divides(Joined(cs, c, f), rest \ {f}, S)
  <1> DEFINE more == c \cup {f}
             after == Joined(cs, c, f)
  <1>1. /\ rest \subseteq S /\ \A d \in cs : d \subseteq S /\ d \cap rest = {}
        /\ \A x \in S : x \in rest \/ \E d \in cs : x \in d
        /\ \A d, e \in cs : d # e => d \cap e = {}
    BY DEF Divides
  <1>2. after = (cs \ {c}) \cup {more}
    BY DEF Joined
  <1>3. more \subseteq S /\ more \cap (rest \ {f}) = {} /\ c \subseteq more /\ f \in more
    BY <1>1
  <1>4. \A d \in cs : d # c => d \cap more = {}
    BY <1>1
  <1> HIDE DEF more, after
  <1>10. more \in after /\ \A d \in cs : d # c => d \in after
    BY <1>2
  <1>5. \A x \in S : x \in rest \ {f} \/ \E d \in after : x \in d
    <2> SUFFICES ASSUME NEW x \in S, x \notin rest \ {f} PROVE \E d \in after : x \in d
      OBVIOUS
    <2>1. CASE x \in c \/ x = f
      BY <1>3, <1>10, <2>1
    <2>2. CASE ~ (x \in c \/ x = f)
      <3>1. PICK d \in cs : x \in d
        BY <1>1, <2>2
      <3> QED BY <1>10, <2>2, <3>1
    <2> QED BY <2>1, <2>2
  <1>6. \A d \in after : d \subseteq S /\ d \cap (rest \ {f}) = {}
    BY <1>1, <1>2, <1>3
  <1>7. \A d, e \in after : d # e => d \cap e = {}
    BY <1>1, <1>2, <1>4
  <1>8. rest \ {f} \subseteq S
    BY <1>1
  <1> QED BY <1>5, <1>6, <1>7, <1>8 DEF Divides, after

LEMMA GroupedDivides ==
  ASSUME NEW cs, NEW rest, NEW S, Divides(cs, rest, S),
         NEW groups, UNION groups \subseteq rest, \A c, d \in groups : c # d => c \cap d = {}
  PROVE  Divides(cs \cup groups, rest \ UNION groups, S)
  <1> DEFINE all == UNION groups
  <1>1. /\ rest \subseteq S /\ \A d \in cs : d \subseteq S /\ d \cap rest = {}
        /\ \A x \in S : x \in rest \/ \E d \in cs : x \in d
        /\ \A d, e \in cs : d # e => d \cap e = {}
    BY DEF Divides
  <1>2. /\ all \subseteq rest /\ \A d \in groups : d \subseteq all
        /\ \A x \in all : \E d \in groups : x \in d
    OBVIOUS
  <1> HIDE DEF all
  <1>3. \A x \in S : x \in rest \ all \/ \E d \in cs \cup groups : x \in d
    BY <1>1, <1>2
  <1>4. \A d \in cs \cup groups : d \subseteq S /\ d \cap (rest \ all) = {}
    BY <1>1, <1>2
  <1>5. ASSUME NEW d \in cs \cup groups, NEW e \in cs \cup groups, d # e PROVE d \cap e = {}
    <2>1. \A x \in cs, y \in groups : x \cap y = {}
      BY <1>1, <1>2
    <2> QED BY <1>1, <1>5, <2>1
  <1>6. rest \ all \subseteq S
    BY <1>1
  <1> QED BY <1>3, <1>4, <1>5, <1>6 DEF Divides, all

LEMMA AloneDivides ==
  ASSUME NEW cs, NEW rest, NEW S, Divides(cs, rest, S), NEW f \in rest
  PROVE  Divides(cs \cup {{f}}, rest \ {f}, S)
  <1> DEFINE groups == {{f}}
  <1>1. UNION groups = {f} /\ \A c, d \in groups : c = d
    OBVIOUS
  <1> HIDE DEF groups
  <1>2. Divides(cs \cup groups, rest \ UNION groups, S)
    BY <1>1, GroupedDivides
  <1> QED BY <1>1, <1>2 DEF groups

LEMMA ClusteredDivides ==
  ASSUME Inv, ClusterFlat PROVE Divides(clusters', orphans', DOMAIN net)
  <1> DEFINE kept(c) == Cardinality(c) >= opt.minSize
             lost(c) == Cardinality(c) < opt.minSize
             S == DOMAIN net
  <1>1. PICK p \in Partitions(DOMAIN net) :
          /\ clusters' = {c \in p : Cardinality(c) >= opt.minSize}
          /\ orphans' = UNION {c \in p : Cardinality(c) < opt.minSize}
    BY DEF ClusterFlat
  <1>2. Divides(p, {}, S)
    BY PartitionIs
  <1>3. /\ \A x \in S : \E c \in p : x \in c
        /\ \A c \in p : c \subseteq S
        /\ \A c, d \in p : c # d => c \cap d = {}
    BY <1>2 DEF Divides
  <1>4. ASSUME NEW c \in p PROVE kept(c) <=> ~ lost(c)
    <2>1. opt.minSize \in Nat /\ IsFiniteSet(S)
      BY DEF Inv, FoundPart
    <2>2. IsFiniteSet(c)
      BY <1>3, <2>1, FS_Subset
    <2>3. Cardinality(c) \in Nat
      BY <2>2, FS_CardinalityType
    <2> QED BY <2>1, <2>3
  <1>5. \A c : c \in clusters' <=> c \in p /\ kept(c)
    BY <1>1
  <1>6. \A x : x \in orphans' <=> \E c \in p : lost(c) /\ x \in c
    BY <1>1
  <1> HIDE DEF kept, lost, S
  <1>7. \A x \in S : x \in orphans' \/ \E c \in clusters' : x \in c
    BY <1>3, <1>4, <1>5, <1>6
  <1>8. orphans' \subseteq S
    BY <1>3, <1>6
  <1>9. ASSUME NEW c \in clusters' PROVE c \subseteq S /\ c \cap orphans' = {}
    BY <1>3, <1>4, <1>5, <1>6
  <1>10. \A c, d \in clusters' : c # d => c \cap d = {}
    BY <1>3, <1>5
  <1> QED BY <1>7, <1>8, <1>9, <1>10 DEF Divides, S

LEMMA FlatFiles ==
  ASSUME Inv, FilesInv, ClusterFlat \/ PlaceByAffinity \/ GroupByDirectory \/ PlaceByPath
  PROVE  FilesInv'
  <1> DEFINE S == DOMAIN net
  <1>1. /\ UNCHANGED <<mem, opt, net, tree, comps, features>>
        /\ pc \in {"clustering", "orphans", "strays"} /\ pc' \in {"orphans", "strays"}
    BY DEF ClusterFlat, PlaceByAffinity, GroupByDirectory, PlaceByPath
  <1>2. Work' = Work
    BY <1>1, SameWork
  <1>3. orphans \subseteq S /\ IsFiniteSet(S)
    BY DEF Inv, FoundPart
  <1>4. Divides(clusters', orphans', S)
    <2>1. CASE ClusterFlat
      BY <2>1, ClusteredDivides
    <2>2. CASE PlaceByAffinity
      <3>1. PICK f \in orphans : \E c \in BestByAffinity(net, clusters, f) :
              clusters' = Joined(clusters, c, f) /\ orphans' = orphans \ {f}
        BY <2>2 DEF PlaceByAffinity
      <3>2. \E c \in clusters : clusters' = Joined(clusters, c, f) /\ orphans' = orphans \ {f}
        BY <3>1 DEF BestByAffinity
      <3>3. Divides(clusters, orphans, S)
        BY <2>2 DEF FilesInv, PlaceByAffinity
      <3> QED BY <3>2, <3>3, JoinedDivides
    <2>3. CASE GroupByDirectory
      <3> DEFINE groups == {d \in GroupsByDir(orphans) : clusters = {} \/ Cardinality(d) >= opt.minSize}
      <3>1. clusters' = clusters \cup groups /\ orphans' = orphans \ UNION groups
        BY <2>3 DEF GroupByDirectory
      <3>2. Divides(clusters, orphans, S)
        BY <2>3 DEF FilesInv, GroupByDirectory
      <3>3. IsFiniteSet(orphans)
        BY <1>3, FS_Subset
      <3>4. UNION groups \subseteq orphans /\ \A c, d \in groups : c # d => c \cap d = {}
        BY <3>3, GroupsAre
      <3> HIDE DEF groups
      <3> QED BY <3>1, <3>2, <3>4, GroupedDivides
    <2>4. CASE PlaceByPath
      <3>1. PICK f \in orphans :
              /\ orphans' = orphans \ {f}
              /\ LET best == BestByPath(clusters, f)
                 IN IF best = {} THEN clusters' = clusters \cup {{f}}
                    ELSE \E c \in best : clusters' = Joined(clusters, c, f)
        BY <2>4 DEF PlaceByPath
      <3>2. BestByPath(clusters, f) \subseteq clusters
        BY DEF BestByPath
      <3>3. clusters' = clusters \cup {{f}} \/ \E c \in clusters : clusters' = Joined(clusters, c, f)
        BY <3>1, <3>2
      <3>4. Divides(clusters, orphans, S)
        BY <2>4 DEF FilesInv, PlaceByPath
      <3> QED BY <3>1, <3>3, <3>4, JoinedDivides, AloneDivides
    <2> QED BY <2>1, <2>2, <2>3, <2>4
  <1> QED BY <1>1, <1>2, <1>4 DEF FilesInv

\* What makes components of clusters.
LEMMA MapFiles ==
  ASSUME Inv, FilesInv, pc # "idle", NEW cs, IsSequence(cs), IsForest(cs), Once(cs, DOMAIN net),
         Map(cs), Work' = Work
  PROVE  /\ EndsIn(comps', Files(Work)) /\ pc' \in {"naming", "merging"}
         /\ \A f \in Files(Work) : Reserved(f) \/ Owned(comps', f)
  <1> DEFINE files == Files(Work)
             hubs == IdentifyHubs(Work)
  <1>1. hubs \subseteq files
    BY DEF IdentifyHubs
  <1>2. DOMAIN net = files \ hubs
    BY DEF FilesInv
  <1>3. comps' = Components(cs, hubs) /\ pc' \in {"naming", "merging"}
    BY DEF Map
  <1> HIDE DEF files, hubs
  <1>4. Once(cs, files \ hubs)
    BY <1>2
  <1>5. /\ EndsIn(Components(cs, hubs), files)
        /\ \A f \in files : Reserved(f) \/ Owned(Components(cs, hubs), f)
    BY <1>1, <1>4, ComponentsHold
  <1> QED BY <1>3, <1>5 DEF files

LEMMA MapFlatFiles == ASSUME Inv, FilesInv, MapFlat PROVE FilesInv'
  <1>1. PICK split \in SplitMegaClusters(clusters, opt.maxSize) :
          Map(SplitOversizedByDirectory(BuildFlatClusters(split), opt.maxSize))
    BY DEF MapFlat
  <1> DEFINE S == DOMAIN net
             flat == BuildFlatClusters(split)
             cs == SplitOversizedByDirectory(flat, opt.maxSize)
  <1>2. /\ pc \in {"orphans", "strays"} /\ orphans = {} /\ UNCHANGED <<mem, opt, net, tree, features>>
    BY DEF MapFlat
  <1>3. split \subseteq SUBSET S /\ IsFiniteSet(S) /\ opt.maxSize \in Nat
    BY SplitMegaAmong DEF Inv, FoundPart
  <1>4. Divides(clusters, {}, S)
    BY <1>2 DEF FilesInv
  <1> HIDE DEF S
  <1>5. Divides(split, {}, S)
    BY <1>4, SplitMegaDivides
  <1>6. IsFiniteSet(split)
    BY <1>3, FS_SUBSET, FS_Subset
  <1>7. Once(flat, S) /\ IsForest(flat)
    BY <1>5, <1>6, FlatIs
  <1>8. IsRow(flat, S)
    BY <1>3, FlatRow
  <1> HIDE DEF flat
  <1>9. IsRow(cs, S) /\ IsForest(cs) /\ Once(cs, S)
    BY <1>3, <1>7, <1>8, SplitKeeps
  <1>10. Map(cs)
    BY <1>1 DEF flat
  <1>11. Work' = Work
    BY <1>2, SameWork
  <1> HIDE DEF cs
  <1>12. IsSequence(cs) /\ pc # "idle"
    BY <1>2, <1>9 DEF IsRow
  <1>13. /\ EndsIn(comps', Files(Work)) /\ pc' \in {"naming", "merging"}
         /\ \A f \in Files(Work) : Reserved(f) \/ Owned(comps', f)
    BY <1>9, <1>10, <1>11, <1>12, MapFiles DEF S
  <1> QED BY <1>2, <1>11, <1>13 DEF FilesInv

LEMMA TreeFiles == ASSUME Inv, FilesInv, ClusterTree PROVE FilesInv'
  <1>1. PICK top \in Trees(DOMAIN net) : tree' = BuildTreeClusters(top)
    BY DEF ClusterTree
  <1>2. pc' = "tree" /\ pc = "clustering" /\ UNCHANGED <<mem, opt, net, comps, features>>
    BY DEF ClusterTree
  <1>3. IsTree(top, DOMAIN net)
    BY TreesAre DEF Inv, FoundPart
  <1>4. Once(tree', DOMAIN net) /\ IsForest(tree')
    BY <1>1, <1>3, TreeIs
  <1>5. Work' = Work
    BY <1>2, SameWork
  <1> QED BY <1>2, <1>4, <1>5 DEF FilesInv

LEMMA MapTreeFiles == ASSUME Inv, FilesInv, MapTree PROVE FilesInv'
  <1> DEFINE S == DOMAIN net
             cs == SplitOversizedByDirectory(tree, opt.maxSize)
  <1>1. Map(cs) /\ pc = "tree" /\ tree' = <<>> /\ UNCHANGED <<mem, opt, net, features>>
    BY DEF MapTree
  <1>2. IsRow(tree, S) /\ IsFiniteSet(S) /\ opt.maxSize \in Nat
    BY DEF Inv, FoundPart
  <1>3. IsForest(tree) /\ Once(tree, S)
    BY <1>1 DEF FilesInv
  <1> HIDE DEF S
  <1>4. IsRow(cs, S) /\ IsForest(cs) /\ Once(cs, S)
    BY <1>2, <1>3, SplitKeeps
  <1>5. Work' = Work
    BY <1>1, SameWork
  <1> HIDE DEF cs
  <1>6. IsSequence(cs) /\ pc # "idle"
    BY <1>1, <1>4 DEF IsRow
  <1>7. /\ EndsIn(comps', Files(Work)) /\ pc' \in {"naming", "merging"}
        /\ \A f \in Files(Work) : Reserved(f) \/ Owned(comps', f)
    BY <1>1, <1>4, <1>5, <1>6, MapFiles DEF S
  <1> QED BY <1>1, <1>5, <1>7, NothingHeld DEF FilesInv

LEMMA NextFiles == ASSUME Inv, FilesInv, [Next]_vars PROVE FilesInv'
  <1>1. CASE Load
    BY <1>1, LoadFiles
  <1>2. CASE NothingToCluster \/ Overflow \/ Save
    BY <1>2, IdleFiles DEF NothingToCluster, Overflow, Save
  <1>3. CASE ClusterFlat \/ PlaceByAffinity \/ GroupByDirectory \/ PlaceByPath
    BY <1>3, FlatFiles
  <1>4. CASE MapFlat
    BY <1>4, MapFlatFiles
  <1>5. CASE ClusterTree
    BY <1>5, TreeFiles
  <1>6. CASE MapTree
    BY <1>6, MapTreeFiles
  <1>7. CASE NameBatch \/ Edit \/ UNCHANGED vars
    <2>1. UNCHANGED <<pc, mem, opt, net, tree, clusters, orphans, comps, features>>
      BY <1>7 DEF NameBatch, Edit, vars
    <2>2. Work' = Work
      BY <2>1, SameWork
    <2> QED BY <2>1, <2>2 DEF FilesInv
  <1>8. CASE InferFeatures
    <2>1. /\ pc = "naming" /\ pc' = "merging"
          /\ UNCHANGED <<mem, opt, net, tree, clusters, orphans, comps>>
          /\ \/ features' = features
             \/ \E answer \in Answers(NodeIds(comps)) :
                  features' \in Kept(Grounded(answer, NodeIds(comps)))
      BY <1>8 DEF InferFeatures
    <2>2. \A k \in DOMAIN features' : features'[k].components \subseteq NodeIds(comps)
      BY <2>1, FeaturesKnown DEF FilesInv
    <2>3. Work' = Work
      BY <2>1, SameWork
    <2> QED BY <2>1, <2>2, <2>3 DEF FilesInv
  <1> QED BY <1>1, <1>2, <1>3, <1>4, <1>5, <1>6, <1>7, <1>8 DEF Next, Infer

LEMMA MergedDangles ==
  ASSUME NEW g, IsGraph(g), NEW r, IsResult(r), EndsIn(r, Files(g))
  PROVE  Dangling(MergeIntoGraph(g, r)) \subseteq Dangling(g)
  <1> DEFINE h == MergeIntoGraph(g, r)
             nodes == Merged(g, r)
  <1>1. PICK new \in SUBSET r.edges :
          h = [project |-> g.project, nodes |-> nodes, edges |-> Untouched(g) \cup new]
    BY MergedIs
  <1>2. DOMAIN nodes = Theirs(g) \cup NodeIds(r)
    BY DEF Merged
  <1> HIDE DEF h, nodes
  <1>3. NodeIds(h) = Theirs(g) \cup NodeIds(r) /\ h.edges = Untouched(g) \cup new
    BY <1>1, <1>2 DEF NodeIds
  <1>4. Files(g) \subseteq Theirs(g)
    BY DEF Files, Theirs, IsGraph
  <1>5. ASSUME NEW e \in new PROVE Ends(e) \subseteq NodeIds(h)
    BY <1>3, <1>4 DEF EndsIn, IsResult, Ends
  <1>6. ASSUME NEW e \in Untouched(g), ~ Ends(e) \subseteq NodeIds(h) PROVE e \in Dangling(g)
    <2>1. e \in g.edges /\ Ends(e) \cap (NodeIds(g) \ Theirs(g)) = {}
      BY DEF Untouched
    <2>2. ~ Ends(e) \subseteq Theirs(g)
      BY <1>3, <1>6
    <2>3. ~ Ends(e) \subseteq NodeIds(g)
      BY <2>1, <2>2
    <2> QED BY <2>1, <2>3 DEF Dangling
  <1> QED BY <1>3, <1>5, <1>6 DEF Dangling, h

\* Without an extraction in the copy, a run adds no edge that lacks a node at one end,
\* whatever Infomap and the LLM answer (integration.rs, merge_into_graph, with what
\* clustering.rs and labeling.rs make).
THEOREM InferenceDanglesOnlyFromCopy == Spec => DanglesOnlyFromCopy
  <1>1. ASSUME Inv, FilesInv, [Next]_vars, Saved
        PROVE  Work # mem \/ Dangling(graph') \subseteq Dangling(mem)
    <2> SUFFICES ASSUME Work = mem PROVE Dangling(graph') \subseteq Dangling(mem)
      OBVIOUS
    <2>1. graph' = MergeIntoGraph(mem, Result)
      BY <1>1, SavedIsSave
    <2>2. IsGraph(mem) /\ IsResult(Result) /\ IsResult(comps) /\ IsFiniteSet(DOMAIN features)
      BY <1>1, ResultIs DEF Inv, PhasesPart
    <2>3. EndsIn(comps, Files(mem)) /\ \A k \in DOMAIN features : features[k].components \subseteq NodeIds(comps)
      BY <1>1 DEF FilesInv
    <2>4. EndsIn(Result, Files(mem))
      BY <2>2, <2>3, PhasesEnd DEF Result
    <2> QED BY <2>1, <2>2, <2>4, MergedDangles
  <1>2. Inv /\ FilesInv /\ [Next]_vars =>
          (Saved => Work # mem \/ Dangling(graph') \subseteq Dangling(mem))
    BY <1>1
  <1>3. Init => FilesInv
    BY InitFiles
  <1>4. Inv /\ FilesInv /\ [Next]_vars => FilesInv'
    BY NextFiles
  <1> QED BY <1>2, <1>3, <1>4, SpecInv, PTL DEF Spec, DanglesOnlyFromCopy

\* No file that is worked on has an id of the kind that inference makes.
LEMMA FilesNotReserved ==
  ASSUME NEW g, IsGraph(g), KeepsIds(g), KeepsIds(Extracted), NEW source,
         NEW f \in Files(Completed(g, source))
  PROVE  ~ Reserved(f)
  <1>1. CASE CodeNodes(g) = {} /\ source
    <2> DEFINE old == g.nodes
               found == Extracted.nodes
               nodes == Over(old, found)
               edges == g.edges \cup Extracted.edges
    <2>1. DOMAIN nodes = DOMAIN old \cup DOMAIN found
      BY DEF Over
    <2>2. f \in DOMAIN old => nodes[f] = old[f]
      BY DEF Over
    <2>3. f \in DOMAIN found /\ f \notin DOMAIN old => nodes[f] = found[f]
      BY DEF Over
    <2>4. Completed(g, source) = [g EXCEPT !.nodes = nodes, !.edges = edges]
      BY <1>1 DEF Completed
    <2> HIDE DEF nodes, edges
    <2>5. Completed(g, source).nodes = nodes
      BY <2>4, WithNodesAndEdges DEF IsGraph
    <2>6. f \in DOMAIN nodes /\ nodes[f].type = "file"
      BY <2>5 DEF Files, NodeIds
    <2>7. CASE f \in DOMAIN old
      BY <2>2, <2>6, <2>7 DEF KeepsIds, NodeIds
    <2>8. CASE f \notin DOMAIN old
      <3>1. f \in DOMAIN found /\ found[f].type = "file"
        BY <2>1, <2>3, <2>6, <2>8
      <3> QED BY <3>1 DEF KeepsIds, NodeIds
    <2> QED BY <2>7, <2>8
  <1>2. CASE ~ (CodeNodes(g) = {} /\ source)
    <2>1. Completed(g, source) = g
      BY <1>2 DEF Completed
    <2> QED BY <2>1 DEF Files, KeepsIds
  <1> QED BY <1>1, <1>2

\* Every file that is worked on is in exactly one component, whichever way Infomap, the
\* orphans' rules and the splits put it, in flat and in hierarchical mode, even where
\* components share an id; if at first and in what is extracted no file has an id of the
\* kind that inference makes (clustering.rs, "every file belongs to exactly one
\* component").
THEOREM InferencePutsEachFileOnce ==
  ASSUME \A g \in StartGraphs : KeepsIds(g), KeepsIds(Extracted)
  PROVE  Spec => []EachFileOnce
  <1>1. Inv /\ IdsInv /\ FilesInv => EachFileOnce
    <2> SUFFICES ASSUME Inv, IdsInv, FilesInv, pc \in {"naming", "merging"}, NEW f \in Files(Work)
                 PROVE  Cardinality({id \in NodeIds(comps) : f \in MembersOf(comps, id)}) = 1
      BY DEF EachFileOnce
    <2>1. ~ Reserved(f)
      BY FilesNotReserved DEF Inv, IdsInv, Work
    <2>2. Owned(comps, f)
      BY <2>1 DEF FilesInv
    <2>3. PICK id \in NodeIds(comps) : {i \in NodeIds(comps) : f \in MembersOf(comps, i)} = {id}
      BY <2>2 DEF Owned
    <2>4. Cardinality({id}) = 1
      BY FS_Singleton
    <2> QED BY <2>3, <2>4
  <1>2. Init => IdsInv /\ FilesInv
    BY InitIds, InitFiles
  <1>3. Inv /\ IdsInv /\ [Next]_vars => IdsInv'
    BY NextIds
  <1>4. Inv /\ FilesInv /\ [Next]_vars => FilesInv'
    BY NextFiles
  <1> QED BY <1>1, <1>2, <1>3, <1>4, SpecInv, PTL DEF Spec

=============================================================================
