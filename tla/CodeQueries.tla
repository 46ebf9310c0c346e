---- MODULE CodeQueries ----
(***************************************************************************)
(* What the code commands answer from a code graph: impact, related tests, *)
(* causal chains and the reading of test failures (code_graph/query.rs,    *)
(* analysis.rs, test_analysis.rs, format.rs), complexity.rs, and the       *)
(* impact of changed files (working_mem.rs).                               *)
(*                                                                         *)
(* A code graph has its nodes as a function from ids to [kind, name, file, *)
(* test], where test says that the path is that of a test; its edges are a *)
(* set of [from, to, relation].  The node of a file f is FileNode[f].      *)
(***************************************************************************)
EXTENDS Naturals, FiniteSets, SequencesExt

CONSTANTS
    FileNode,    \* file -> the id of its node
    Package,     \* file -> its directory
    Entries,     \* names that run, are public or special without a call
    Hits,        \* keyword -> the names and files that contain it, or are in it
    Named        \* keyword -> the names that contain it, or are in it

AnyRelation == {}
Classes == {"class", "interface", "enum", "type", "trait"}

Nodes(cg) == DOMAIN cg.nodes
Outgoing(cg, id) == {e \in cg.edges : e.from = id}
Incoming(cg, id) == {e \in cg.edges : e.to = id}
Along(edges, relation) == {e \in edges : e.relation = relation}

GetCallers(cg, id) == {e.from : e \in Along(Incoming(cg, id), "calls")} \cap Nodes(cg)
GetCallees(cg, id) == {e.to : e \in Along(Outgoing(cg, id), "calls")} \cap Nodes(cg)

-----------------------------------------------------------------------------
(* Impact *)

\* collect_dependents, depth first: the list it makes, which has a node as often
\* as an edge leads to it, and the ids it has visited.  It does not go on from an
\* id without a node.
RECURSIVE CollectDependents(_, _, _, _)
CollectDependents(cg, relations, id, acc) ==
    IF id \in acc.visited THEN acc
    ELSE LET edges == {e \in Incoming(cg, id) :
                         /\ relations = AnyRelation \/ e.relation \in relations
                         /\ e.from \in Nodes(cg)}
             push(e, a) == CollectDependents(cg, relations, e.from,
                                             [a EXCEPT !.result = Append(@, e.from)])
         IN FoldSet(push, [acc EXCEPT !.visited = @ \cup {id}], edges)

GetImpact(cg, id, relations) ==
    CollectDependents(cg, relations, id, [visited |-> {}, result |-> <<>>]).result

FilesOf(cg, ids) == {cg.nodes[id].file : id \in ids \cap Nodes(cg)}
Within(cg, files) == {id \in Nodes(cg) : cg.nodes[id].file \in files}
Tests(cg, ids) == {id \in ids : cg.nodes[id].test}

\* The files that test the changed ones, with all they define, and the callers
\* in test files.
FindRelatedTests(cg, changed) ==
    LET testers == UNION {{e.from : e \in Along(Incoming(cg, FileNode[f]), "tests_for")} :
                            f \in FilesOf(cg, changed)} \cap Nodes(cg)
        inside == {id \in Within(cg, FilesOf(cg, testers)) : cg.nodes[id].kind # "file"}
    IN testers \cup inside \cup Tests(cg, UNION {GetCallers(cg, id) : id \in changed})

\* Mutant of ImpactAnalysis: only what touches the changed nodes is asked.
ImpactAnalysisDirect(cg, changed, relations) ==
    LET impacted == UNION {{e.from : e \in Incoming(cg, id)} : id \in changed} \cap Nodes(cg)
    IN [source |-> impacted \ Tests(cg, impacted), tests |-> Tests(cg, impacted)]

\* A changed node that depends on itself through others is among the affected.
ImpactAnalysis(cg, changed, relations) ==
    LET impacted == UNION {ToSet(GetImpact(cg, id, relations)) : id \in changed}
        related == FindRelatedTests(cg, changed)
    IN [source |-> impacted \ Tests(cg, impacted),
        tests |-> Tests(cg, impacted) \cup (related \ impacted)]

CountCallers(cg, id) == Cardinality(Along(Incoming(cg, id), "calls"))

\* The functions and classes of the files; the largest number of callers of one.
QueryGidContext(cg, files) ==
    LET touched == {id \in Within(cg, files) : cg.nodes[id].kind \in {"function", "class"}
                                                 /\ ~ cg.nodes[id].test}
    IN [touched |-> touched, callers |-> Max({0} \cup {CountCallers(cg, id) : id \in touched}),
        blast |-> MapThenSumSet(LAMBDA id : CountCallers(cg, id), touched)]

Level(n, low, medium, high) ==
    IF n <= low THEN "low" ELSE IF n <= medium THEN "medium"
    ELSE IF n <= high THEN "high" ELSE "critical"

\* gid code-impact: the changed files, not the nodes.
AnalyzeImpact(cg, files, relations) ==
    LET impacted == UNION {ToSet(GetImpact(cg, id, relations)) : id \in Within(cg, files)}
        context == QueryGidContext(cg, files)
    IN [source |-> impacted \ Tests(cg, impacted), tests |-> Tests(cg, impacted),
        risk |-> Level(context.callers, 5, 20, 50)]

\* Functions next to the files that failed, with few callers.
LowRiskAlternatives(cg, failed, maxCallers) ==
    {id \in Nodes(cg) :
        /\ cg.nodes[id].kind = "function" /\ ~ cg.nodes[id].test
        /\ cg.nodes[id].file \notin failed
        /\ \E f \in failed : Package[cg.nodes[id].file] = Package[f]
        /\ CountCallers(cg, id) <= maxCallers}

-----------------------------------------------------------------------------
(* Relevance and complexity *)

\* get_inheritance_chain: at most ten steps up, so that a cycle ends too.
RECURSIVE ChainFrom(_, _)
ChainFrom(cg, chain) ==
    LET parents == {e.to : e \in Along(Outgoing(cg, Last(chain)), "inherits")}
    IN IF parents = {} \/ Len(chain) > 10 THEN chain
       ELSE ChainFrom(cg, Append(chain, CHOOSE p \in parents : TRUE))

Relatives(cg, id) ==
    ToSet(ChainFrom(cg, <<id>>)) \cup {e.from : e \in Along(Incoming(cg, id), "inherits")}

Matching(cg, keywords) ==
    {id \in Nodes(cg) : \E k \in keywords : {cg.nodes[id].name, cg.nodes[id].file} \cap Hits[k] # {}}

\* What the keywords hit, the rest of those files, the relatives of the classes
\* among them with their files, and the files they import, one step far, in
\* which a keyword hits something.
FindRelevantNodes(cg, keywords) ==
    LET withFiles(ids) == ids \cup Within(cg, FilesOf(cg, ids))
        hit == withFiles(Matching(cg, keywords))
        family == UNION {Relatives(cg, id) : id \in {id \in hit : cg.nodes[id].kind = "class"}}
        known == hit \cup withFiles((family \cap Nodes(cg)) \ hit)
        imported == UNION {{e.to : e \in Along(Outgoing(cg, id), "imports")} :
                             id \in {id \in known : cg.nodes[id].kind = "file"}} \cap Nodes(cg)
        named(f) == \E id \in Within(cg, {f}) : /\ cg.nodes[id].kind # "file"
                                                /\ \E k \in keywords : cg.nodes[id].name \in Named[k]
    IN known \cup Within(cg, {f \in FilesOf(cg, {id \in imported : cg.nodes[id].kind = "file"}) :
                                named(f)})

AssessComplexity(cg, keywords, tests) ==
    LET relevant == FindRelevantNodes(cg, keywords)
        files == Cardinality(FilesOf(cg, relevant))
        touching(relation) ==
            Cardinality({e \in Along(cg.edges, relation) : {e.from, e.to} \cap relevant # {}})
        classes == {id \in relevant : cg.nodes[id].kind = "class"}
    IN IF Cardinality(relevant) <= 2 /\ files <= 1 /\ classes = {} /\ tests <= 1 THEN "simple"
       ELSE IF \/ Cardinality(relevant) >= 6 \/ files >= 3 \/ touching("inherits") >= 2
               \/ touching("imports") >= 4 \/ tests > 3 THEN "complex"
       ELSE "medium"

TotalCallers(cg, ids) == MapThenSumSet(LAMBDA id : Cardinality(GetCallers(cg, id)), ids)
AssessRiskLevel(cg, ids) == Level(TotalCallers(cg, ids), 5, 20, 50)

OfKinds(cg, ids, kinds) == {id \in ids : cg.nodes[id].kind \in kinds}

\* gid code-search --format-llm: which nodes, edges and families are shown, before
\* the text is cut; without a match the files with their types.
FormatForLlm(cg, keywords) ==
    LET relevant == FindRelevantNodes(cg, keywords)
    IN IF relevant = {} THEN [nodes |-> OfKinds(cg, Nodes(cg), {"file"} \cup Classes),
                              edges |-> {}, families |-> {}]
       ELSE [nodes |-> relevant,
             edges |-> {e \in cg.edges : /\ {e.from, e.to} \cap relevant # {}
                                         /\ e.relation # "defined_in"},
             families |-> {chain \in {ChainFrom(cg, <<id>>) : id \in OfKinds(cg, relevant, Classes)} :
                               Len(chain) > 1}]

\* gid file-summary.
GetFileSummary(cg, file) ==
    [types |-> OfKinds(cg, Within(cg, {file}), Classes),
     functions |-> OfKinds(cg, Within(cg, {file}), {"function"})]

\* The library's own search for dead code, which asks less than the advice does.
IsTraitImpl(cg, id) ==
    \E p \in {e.to : e \in Along(Outgoing(cg, id), "defined_in")} :
        Along(Outgoing(cg, p), "inherits") # {}

AnalyzeCodeGraph(cg) ==
    {id \in OfKinds(cg, Nodes(cg), {"function"}) :
        /\ Along(Incoming(cg, id), "calls") = {}
        /\ ~ cg.nodes[id].test
        /\ cg.nodes[id].name \notin Entries
        /\ ~ IsTraitImpl(cg, id)}

-----------------------------------------------------------------------------
(* Causal chains and failing tests *)

\* One search from a symptom, to at most depth nodes in a chain.  What has been
\* met is not met again.  The heap gives the chain of the greatest weight; the
\* weights are left out, so that any of its chains may be next.  The value is the
\* set of the results the search may have.
RECURSIVE ChainsFrom(_, _, _, _)
ChainsFrom(next, depth, heap, chains) ==
    LET met == UNION {ToSet(c) : c \in chains \cup heap}
        longer(c) == {Append(c, n) : n \in next[Last(c)] \ met}
        kept(c) == IF Len(c) + 1 < depth THEN longer(c) ELSE {}
    IN IF heap = {} THEN {chains}
       ELSE UNION {ChainsFrom(next, depth, (heap \ {c}) \cup kept(c), chains \cup longer(c)) :
                     c \in heap}

ForwardRelations == {"calls", "inherits", "imports", "overrides", "tests_for"}
ReverseRelations == {"calls", "imports", "overrides"}

Forward(cg, id) ==
    {e.to : e \in {e \in Outgoing(cg, id) : e.relation \in ForwardRelations}} \cap Nodes(cg)
Backward(cg, id) ==
    LET callers == {e.from : e \in {e \in Incoming(cg, id) : e.relation \in ReverseRelations}}
                   \cap Nodes(cg)
    IN callers \ Tests(cg, callers)

\* A chain that another one goes on from is dropped.
WithoutPrefixes(chains) == {c \in chains : ~ \E d \in chains : IsStrictPrefix(c, d)}

\* Both searches.  The results there may be.
TraceChains(cg, symptom, depth) ==
    LET search(Next(_, _)) ==
            ChainsFrom([i \in Nodes(cg) |-> Next(cg, i)], depth, {<<symptom>>}, {})
    IN IF symptom \notin Nodes(cg) THEN {{}}
       ELSE {WithoutPrefixes(f \cup b) : f \in search(Forward), b \in search(Backward)}

\* A shortest path of at most max steps; the test for the goal is made on the
\* edges, so that from an id to itself it is a cycle.
RECURSIVE BfsFrom(_, _, _, _)
BfsFrom(cg, to, max, paths) ==
    LET seen == UNION {ToSet(p) : p \in paths}
        last == {p \in paths : \A q \in paths : Len(q) <= Len(p)}
        next(p) == {e.to : e \in Outgoing(cg, Last(p))}
        arrived == {p \in last : to \in next(p)}
        new == (UNION {next(p) : p \in last}) \ seen
    IN IF \E p \in last : Len(p) > max THEN <<>>
       ELSE IF arrived # {} THEN Append(CHOOSE p \in arrived : TRUE, to)
       ELSE IF new = {} THEN <<>>
       ELSE BfsFrom(cg, to, max,
                    paths \cup {Append(CHOOSE p \in last : n \in next(p), n) : n \in new})

BfsPath(cg, from, to, max) == BfsFrom(cg, to, max, {<<from>>})

SharesImport(cg, test, changed) ==
    LET imports == {e.to : e \in Along(Outgoing(cg, test), "imports")}
        known == changed \cap Nodes(cg)
    IN imports \cap (known \cup {FileNode[f] : f \in FilesOf(cg, known)}) # {}

\* gid code-failures: what it says of one test that broke.
TraceCausalChains(cg, changed, test) ==
    LET chains == {Reverse(BfsPath(cg, test, c, 5)) : c \in changed} \ {<<>>}
    IN IF test \notin Nodes(cg) THEN "not found"
       ELSE IF chains # {} THEN "chain"
       ELSE IF cg.nodes[test].file \in FilesOf(cg, changed) \/ SharesImport(cg, test, changed)
            THEN "indirect" ELSE "unknown"

\* The library's reading of a failure: a call, a call of a call, then the files.
AnalyzeTestFailure(cg, changed, test) ==
    LET names == {cg.nodes[c].name : c \in changed \cap Nodes(cg)}
        touched(id) == id \in changed \/ cg.nodes[id].name \in names
        direct == {id \in GetCallees(cg, test) : touched(id)}
        further == {id \in UNION {GetCallees(cg, c) : c \in GetCallees(cg, test)} : touched(id)}
        tested == {e.to : e \in Along(Outgoing(cg, FileNode[cg.nodes[test].file]), "tests_for")}
    IN IF test \notin Nodes(cg) THEN "not found"
       ELSE IF direct # {} THEN "direct" ELSE IF further # {} THEN "two steps"
       ELSE IF FilesOf(cg, tested) \cap FilesOf(cg, changed) # {} THEN "files"
       ELSE "unknown"

\* gid code-symptoms: the tests of those names, and what the text names; if that
\* is nothing, the code outside tests that shares words with a test.
FindSymptomNodes(cg, named, tests, similar) ==
    LET failed == {id \in Tests(cg, Nodes(cg)) : cg.nodes[id].kind = "function"
                                                   /\ cg.nodes[id].name \in tests}
        said == {id \in Nodes(cg) : cg.nodes[id].kind \in {"function", "class"}
                                      /\ cg.nodes[id].name \in named}
    IN IF failed \cup said # {} THEN failed \cup said
       ELSE {id \in Nodes(cg) \ Tests(cg, Nodes(cg)) : \E t \in tests : cg.nodes[id].name \in similar[t]}

-----------------------------------------------------------------------------
(* What the answers must have in common *)

Levels == <<"low", "medium", "high", "critical">>
Height(levels, level) == CHOOSE k \in DOMAIN levels : levels[k] = level

\* What a change hits is what leads to it, each node on one side only: source or
\* test.  A test that calls its way to the change is never left out, by the
\* tracing of its failure either, which goes further than the library's reading of
\* it; and a test that failed is a symptom by its name alone.
ImpactAgrees(cg) ==
    \A c \in Nodes(cg) :
        LET report == ImpactAnalysis(cg, {c}, AnyRelation)
            leading == {i \in Nodes(cg) \ {c} : BfsPath(cg, i, c, Cardinality(Nodes(cg))) # <<>>}
        IN /\ leading \subseteq report.source \cup report.tests
           /\ report.source \ {c} \subseteq leading
           /\ report.source \cap report.tests = {}
           /\ \A t \in Tests(cg, Nodes(cg)) \ {c} :
                 /\ TraceCausalChains(cg, {c}, t) = "chain" => t \in report.tests
                 /\ AnalyzeTestFailure(cg, {c}, t) \in {"direct", "two steps"}
                       => TraceCausalChains(cg, {c}, t) = "chain"
           /\ \A t \in OfKinds(cg, Tests(cg, Nodes(cg)), {"function"}) :
                 t \in FindSymptomNodes(cg, {cg.nodes[c].name}, {cg.nodes[t].name}, <<>>)

\* A causal chain is a walk from the symptom over nodes that are there, none of
\* them twice, and none of the chains is the beginning of another.
ChainsAgree(cg, depth) ==
    \A s \in Nodes(cg) : \A chains \in TraceChains(cg, s, depth) : \A chain \in chains :
        /\ chain[1] = s /\ IsInjective(chain) /\ Len(chain) \in 2..depth
        /\ \/ \A k \in 2..Len(chain) : chain[k] \in Forward(cg, chain[k - 1])
           \/ \A k \in 2..Len(chain) : chain[k] \in Backward(cg, chain[k - 1])
        /\ \A longer \in chains : ~ IsStrictPrefix(chain, longer)

\* A file of which something is relevant is so as a whole, also for the model
\* that is shown the code; a task with more tests is not simpler; the risk of a
\* file is not above that of what it defines, and what is recommended instead of
\* the files that failed is itself at no more than a low risk.
RelevanceAgrees(cg, keywords) ==
    LET relevant == FindRelevantNodes(cg, keywords)
        complexity == <<"simple", "medium", "complex">>
        height(tests) == Height(complexity, AssessComplexity(cg, keywords, tests))
    IN /\ Within(cg, FilesOf(cg, relevant)) \subseteq relevant
       /\ \A tests \in 0..3 : height(tests) <= height(tests + 1)
       /\ \A f \in FilesOf(cg, Nodes(cg)) :
             Height(Levels, AnalyzeImpact(cg, {f}, AnyRelation).risk)
                <= Height(Levels, AssessRiskLevel(cg, Within(cg, {f})))
       /\ \A f \in FilesOf(cg, Nodes(cg)) : \A id \in LowRiskAlternatives(cg, {f}, 5) :
             AssessRiskLevel(cg, {id}) = "low"
       /\ \A f \in FilesOf(cg, FormatForLlm(cg, keywords).nodes) :
             relevant = {} \/ GetFileSummary(cg, f).functions \subseteq FormatForLlm(cg, keywords).nodes

====
