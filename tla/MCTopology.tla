----------------------------- MODULE MCTopology -----------------------------
(***************************************************************************)
(* Every graph over three tasks, each still to do, done, cancelled or not  *)
(* there, and one node of another type: to plan, to query as a project     *)
(* graph, and to query as a code graph of the same shape.                  *)
(***************************************************************************)
EXTENDS TaskViews
CONSTANTS t1, t2, t3, other

Tasks3 == {t1, t2, t3}
Ids4 == {t1, t2, t3, other}

\* A task and what it depends on; only unfinished tasks are ever asked.
TaskStates ==
  {<<"todo", d>> : d \in SUBSET Ids4} \cup {<<s, {}>> : s \in {"absent", "done", "cancelled"}}

Graphs3 ==
  {[status |-> [i \in Ids4 |-> IF i = other THEN s ELSE k[i][1]],
    deps |-> [i \in Ids4 |-> IF i = other THEN {} ELSE k[i][2]]] :
   k \in [Tasks3 -> TaskStates], s \in {"absent", "todo", "done"}}

-----------------------------------------------------------------------------
(* The graph as the query commands load it *)

Q == INSTANCE GraphQueries WITH
  Ranks <- [interface |-> 4, domain |-> 2, feature |-> 1],
  EntryNames <- {t2}, EntryFiles <- {}, TestNames <- {}, TestFiles <- {"tests"},
  SpecialNames <- {}, TraitNames <- {},
  MermaidId <- [i \in Ids4 |-> IF i = t3 THEN t2 ELSE i], HighFan <- 3, DeepChain <- 3

AsNode(i, type) ==
  [type |-> type, status |-> graph.status[i], source |-> IF type = "function" THEN "extract" ELSE Q!None,
   title |-> i, file |-> IF i = t3 THEN "tests" ELSE "main", signature |-> Q!None,
   description |-> IF i = t1 THEN Q!None ELSE "text",
   layer |-> CASE i = t1 -> "interface" [] i = t2 -> "domain" [] OTHER -> Q!None]

AsGraph(relation, type) ==
  [project |-> Q!NoProject,
   nodes |-> [i \in Present |-> AsNode(i, IF i = other THEN "feature" ELSE type)],
   edges |-> {[Q!NewEdge(i, d, relation) EXCEPT !.source =
                  IF type = "function" THEN "extract" ELSE Q!None] : <<i, d>> \in {p \in Present \X Ids4 : p[2] \in graph.deps[p[1]]}}]

-----------------------------------------------------------------------------
(* The same shape as functions that call each other: t1 and t2 in one file, t3  *)
(* in a test file, other a class of a third file.                              *)

FileNames == {"main", "tests", "model"}
FileId == [main |-> "file:main", tests |-> "file:tests", model |-> "file:model"]
InFile(i) == CASE i = t3 -> "tests" [] i = other -> "model" [] OTHER -> "main"

C == INSTANCE CodeQueries WITH
  FileNode <- FileId, Package <- [f \in FileNames |-> "src"],
  Entries <- {t2}, Hits <- [k \in Ids4 |-> {k}], Named <- [k \in Ids4 |-> {k}]

AsCode ==
  LET calls == {p \in Present \X Present : p[2] \in graph.deps[p[1]]}
      edge(from, to, relation) == [from |-> from, to |-> to, relation |-> relation]
      imports == {<<InFile(p[1]), InFile(p[2])>> : p \in calls} \ {<<f, f>> : f \in FileNames}
      files == {[kind |-> "file", name |-> FileId[f], file |-> f, test |-> f = "tests"] : f \in FileNames}
  IN [nodes |-> [i \in Present \cup {FileId[f] : f \in FileNames} |->
                   IF i \in Present
                   THEN [kind |-> IF i = other THEN "class" ELSE "function", name |-> i,
                         file |-> InFile(i), test |-> i = t3]
                   ELSE CHOOSE n \in files : n.name = i],
      edges |-> {edge(p[1], p[2], "calls") : p \in calls}
                \cup {edge(FileId[p[1]], FileId[p[2]], "imports") : p \in imports}
                \cup {edge(FileId["tests"], FileId[p[2]], "tests_for") :
                        p \in {p \in imports : p[1] = "tests"}}
                \cup {edge(i, FileId[InFile(i)], "defined_in") : i \in Present}]

\* What sorting, validation, drawing and advice say of one graph fits together
\* (query.rs, validator.rs, visual.rs, advise.rs), and so does what the code commands
\* say of one code graph (code_graph/query.rs, analysis.rs, complexity.rs,
\* working_mem.rs); and what the advice calls dead, the search for dead code of the
\* library finds too.
QueriesAgree ==
  Asked =>
    LET g == AsGraph("depends_on", "task")
        code == AsGraph("calls", "function")
    IN /\ Q!CyclesAgree(g) /\ Q!WouldCycleAgrees(g) /\ Q!DrawnOnce(g) /\ Q!CommandsAgree(g)
       /\ Q!AdviceAgrees(g) /\ Q!AdviceAgrees(code)
       /\ C!ImpactAgrees(AsCode) /\ C!ChainsAgree(AsCode, 3)
       /\ \A k \in Ids4 : C!RelevanceAgrees(AsCode, {k})
       /\ Q!DeadCode(code) \subseteq C!AnalyzeCodeGraph(AsCode)

-----------------------------------------------------------------------------
(* The same shape to read: a file that has become shorter than the graph says, *)
(* a whole file, and a node that has only a description.                       *)

Headings == {[level |-> 1, number |-> n] : n \in {<<1>>, <<2>>}}
            \cup {[level |-> 2, number |-> n] : n \in {<<1, 1>>, <<1, 2>>, <<2, 1>>}}

TextsOf ==
  [i \in Ids4 |->
     [type |-> IF i = other THEN "feature" ELSE "task", status |-> "todo", source |-> None,
      file |-> CASE i = t3 -> "tests" [] i = other -> None [] OTHER -> "main",
      start |-> CASE i = t1 -> 1 [] i = t2 -> 5 [] OTHER -> 0, end |-> CASE i = t1 -> 4 [] i = t2 -> 9 [] OTHER -> 0,
      heading |-> 10, signature |-> 20, description |-> IF i = other THEN 300 ELSE 0,
      design_doc |-> "feature", design_ref |-> <<1>>, satisfies |-> {"g1"}, guards |-> None]]

RelationsOf ==
  [p \in Ids4 \X Ids4 |-> CASE p[2] = other -> "implements" [] p[1] = t2 -> "tests_for" [] p[1] = t3 -> "calls"
                             [] OTHER -> "depends_on"]

DocumentsOf == UNION {[1..n -> Headings] : n \in 1..4}

TypeOf == [i \in Ids4 |-> "task"]
CandidatesOf == [i \in Ids4 |-> <<i>>]
MatchesOf == [tier \in 2..2 |-> [i \in Ids4 |-> {}]]
LinesOf == [main |-> 6, tests |-> 3]
DesignOf == [root |-> <<[level |-> 1, number |-> <<1>>]>>, feature |-> <<>>]
GoalsOf == [root |-> {"g1"}, feature |-> {}]
TargetsOf == {{t1}, {t1, t3}}
BudgetsOf == {100, 135, 170}

-----------------------------------------------------------------------------
(* The same graph as the work of a ritual, in projects of every language *)

WildOf ==
  [s \in {"*.md", "*.py", "*.go", "RESEARCH-*", "RESEARCH-*.md"} |->
     CASE s = "*.md" -> {"DESIGN.md", "RESEARCH-auth.md"} [] s = "*.py" -> {"setup.py", "auth.py"}
       [] s = "*.go" -> {"auth.go"} [] OTHER -> {"RESEARCH-auth.md"}]

StartingOf ==
  [d \in {"src", "lib", "tests", "crates", ".gid", "docs", "memory"} |->
     IF d = "src" THEN {"src-gen"} ELSE {}]

ProjectFilesOf == {"DESIGN.md", "graph.yml", "src", "Cargo.toml", "package.json", "setup.py", "go.mod"}

PathsOf ==
  {<<f>> : f \in {"DESIGN.md", "setup.py", "Cargo.toml", "src", ".gid"}}
  \cup {<<d, f>> : d \in {"src", "src-gen", "docs", "tests"}, f \in {"RESEARCH-auth.md", "auth.py", "auth.go"}}
  \cup {<<".gid", "graph.yml">>, <<".gid", "features", "auth", "design.md">>, <<"src", "docs", "auth.py">>}

TemplatesOf == {"bugfix", "mine"}
=============================================================================
