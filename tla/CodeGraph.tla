---- MODULE CodeGraph ----
(***************************************************************************)
(* Extraction of the code graph (code_graph/extract.rs and the resolvers   *)
(* of lang/) and its place in the project's graph (unify.rs), as operators.*)
(*                                                                         *)
(* What a parser finds in a file is its content: the functions and types   *)
(* it defines, the types its functions are methods of, the types those     *)
(* inherit from, the calls, and the modules and names it imports.  A file  *)
(* has one function of a name.  Weights, counts, lines and the order of    *)
(* nodes are left out; where the first or last of several types of a name  *)
(* is taken, one is chosen, and what a type inherits from is known in      *)
(* whatever order the files are walked.                                    *)
(***************************************************************************)
EXTENDS Naturals, FiniteSets, SequencesExt

CONSTANTS
    Files,        \* the source files there may be
    Language,     \* file -> "rust", "python" or "typescript"
    Package,      \* the directory of a file, "" for the root
    Above,        \* directory -> the directories it is in, without the root
    ModuleName,   \* the full module path of a file
    PartialNames, \* its suffixes
    NamedTests,   \* <<test, source>>: files whose names say one tests the other
    TestFiles,    \* the Python files whose paths say they are tests
    Builtins,     \* language -> names of its own library
    Named,        \* task -> the files its code_paths or its id name
    GlobalLimit,  \* a name with more definitions than this is not resolved globally
    MethodLimit,  \* language -> the same for calls of methods
    SelfLimit     \* language -> the same for calls on self

ASSUME CodeAssumption ==
    /\ NamedTests \subseteq Files \X Files
    /\ TestFiles \subseteq Files
    /\ GlobalLimit \in Nat

File(f) == <<"file", f, "">>
Module(p) == <<"module", p, "">>
Func(f, n) == <<"func", f, n>>
Class(f, t) == <<"class", f, t>>
ClassRef(t) == <<"class_ref", t, "">>
ModuleRef(m) == <<"module_ref", m, "">>

CodeGraph(nodes, edges) == [nodes |-> nodes, edges |-> edges]
NoCode == CodeGraph({}, {})

-----------------------------------------------------------------------------
(* One file *)

Entities(f, c) ==
    {File(f)} \cup {Func(f, n) : n \in c.funcs} \cup {Class(f, t) : t \in c.types}

TypeEdges(f, c) == {<<Class(f, t), "defined_in", File(f)>> : t \in c.types}

FunctionEdges(f, c) ==
    {<<Func(f, n), "defined_in", File(f)>> : n \in c.funcs \ {i[1] : i \in c.impls}}

\* A method is defined in its type, which it takes to be in the same file.
MethodEdges(f, c) == {<<Func(f, i[1]), "defined_in", Class(f, i[2])>> : i \in c.impls}

\* What a type inherits from and a file imports is only a name yet.
InheritEdges(f, c) == {<<Class(f, p[1]), "inherits", ClassRef(p[2])>> : p \in c.parents}

ImportEdges(f, c) == {<<File(f), "imports", ModuleRef(m)>> : m \in c.modules}

OwnEdges(f, c) ==
    TypeEdges(f, c) \cup FunctionEdges(f, c) \cup MethodEdges(f, c)
        \cup InheritEdges(f, c) \cup ImportEdges(f, c)

-----------------------------------------------------------------------------
(* Calls: which are looked up, and what a name may mean *)

\* The innermost function around the call.
Caller(f, call) == Func(f, call.from)

\* Names of the language's own library are not looked up, in Rust even on self.
RustCalls(c) == {call \in c.calls : call.to \notin Builtins["rust"]}

PythonCalls(c) ==
    {call \in c.calls : call.kind = "self" \/ call.to \notin Builtins["python"]}

TypescriptCalls(c) ==
    {call \in c.calls : call.kind \in {"self", "new"} \/ call.to \notin Builtins["typescript"]}

Sought(f, c) ==
    CASE Language[f] = "rust" -> RustCalls(c)
      [] Language[f] = "python" -> PythonCalls(c)
      [] Language[f] = "typescript" -> TypescriptCalls(c)

Functions(name, nodes) == {x \in nodes : x[1] = "func" /\ x[3] = name}

\* The types a function is a method of.
Owners(x, edges) ==
    {e[3] : e \in {e \in edges : e[1] = x /\ e[2] = "defined_in" /\ e[3][1] = "class"}}

\* Those of the file, or else all of an imported name, or else those of the
\* package, or else all if they are few.
Nearest(found, here, f, imported, limit) ==
    LET same_pkg == {x \in found : Package[x[2]] = Package[f]}
    IN IF found \cap here # {} THEN found \cap here
       ELSE IF imported THEN found
       ELSE IF same_pkg # {} THEN same_pkg
       ELSE IF Cardinality(found) <= limit THEN found ELSE {}

Limit(f, call) == IF call.kind = "method" THEN MethodLimit[Language[f]] ELSE GlobalLimit

\* here: the functions taken to be in the file of the call.
RustCallees(f, c, call, g, here) ==
    LET found == Functions(call.to, g.nodes)
        typed == {x \in found : \E k \in Owners(x, g.edges) : k[3] = call.receiver}
    IN IF typed # {} THEN typed
       ELSE Nearest(found, here, f, call.to \in c.imports, Limit(f, call))

\* A type's name means its constructors.
PythonCallees(f, c, call, g, here) ==
    LET found == Functions(call.to, g.nodes)
        inits == {x \in Functions("__init__", g.nodes) :
                     \E k \in Owners(x, g.edges) : k[3] = call.to}
    IN IF found # {} THEN Nearest(found, here, f, call.to \in c.imports, Limit(f, call))
       ELSE Nearest(inits, {x \in inits : x[2] = f}, f, call.to \in c.imports, GlobalLimit)

TypescriptCallees(f, c, call, g, here) ==
    Nearest(Functions(call.to, g.nodes), here, f, call.to \in c.imports, Limit(f, call))

\* new T(): a function of the type's name.
NewCallees(f, call, g, here) ==
    LET found == Functions(call.to, g.nodes)
    IN IF Cardinality(found) <= SelfLimit[Language[f]] THEN found ELSE found \cap here

\* A call on self: the methods of the caller's type, in Python also of those it
\* inherits from.
SelfCallees(f, call, g, here) ==
    LET found == Functions(call.to, g.nodes)
        own == Owners(Caller(f, call), g.edges)
        parents == {e[3] : e \in {e \in g.edges : e[2] = "inherits" /\ e[1] \in own}}
        types == IF Language[f] = "python" THEN own \cup parents ELSE own
        scoped == {x \in found : Owners(x, g.edges) \cap types # {}}
    IN IF own = {} THEN found \cap here
       ELSE IF scoped # {} THEN scoped
       ELSE IF Cardinality(found) <= SelfLimit[Language[f]] THEN found ELSE found \cap here

Callees(f, c, call, g, here) ==
    CASE call.kind = "self" -> SelfCallees(f, call, g, here)
      [] call.kind = "new" -> NewCallees(f, call, g, here)
      [] call.kind \in {"plain", "method"} ->
            CASE Language[f] = "rust" -> RustCallees(f, c, call, g, here)
              [] Language[f] = "python" -> PythonCallees(f, c, call, g, here)
              [] Language[f] = "typescript" -> TypescriptCallees(f, c, call, g, here)

Calls(f, c, g, here) ==
    UNION {{<<Caller(f, call), "calls", x>> : x \in Callees(f, c, call, g, here) \ {Caller(f, call)}} :
             call \in Sought(f, c)}

-----------------------------------------------------------------------------
(* A directory: disk is a function from the files that are there to contents *)

EntitiesOf(disk) == UNION {Entities(f, disk[f]) : f \in DOMAIN disk}
OwnEdgesOf(disk) == UNION {OwnEdges(f, disk[f]) : f \in DOMAIN disk}

\* listed: the nodes from which the functions of a file are collected.
CallsOf(disk, g, listed) ==
    UNION {Calls(f, disk[f], g, {x \in listed : x[2] = f}) : f \in DOMAIN disk}

Within(edges, nodes) == {e \in edges : {e[1], e[3]} \subseteq nodes}

\* Which files a module's name may mean: the one with this path, or else the
\* only one it is a suffix of.
ModuleFiles(m, disk) ==
    LET full == {f \in DOMAIN disk : ModuleName[f] = m}
        partial == {f \in DOMAIN disk : m \in PartialNames[f]}
    IN IF full # {} THEN full ELSE IF Cardinality(partial) = 1 THEN partial ELSE {}

Classes(t, nodes) == {x \in nodes : x[1] = "class" /\ x[3] = t}

\* A name that means nothing here drops its edge.
Resolved(edges, nodes, disk) ==
    LET means(x) == CASE x[1] = "class_ref" -> Classes(x[2], nodes)
                      [] x[1] = "module_ref" -> {File(f) : f \in ModuleFiles(x[2], disk)}
                      [] OTHER -> {x}
    IN {<<e[1], e[2], CHOOSE x \in means(e[3]) : TRUE>> :
          e \in {e \in edges : means(e[3]) # {}}}

\* A method of a type of another file is given the type of that name.
Remapped(edges, nodes) ==
    {IF /\ e[2] = "defined_in" /\ e[3][1] = "class" /\ e[3] \notin nodes
        /\ Classes(e[3][3], nodes) # {}
     THEN <<e[1], e[2], CHOOSE x \in Classes(e[3][3], nodes) : TRUE>>
     ELSE e : e \in edges}

\* A method of a type overrides that of the same name of a type it inherits from.
Overrides(edges) ==
    LET methods(k) == {e[1] : e \in {e \in edges : e[2] = "defined_in" /\ e[3] = k}}
    IN UNION {{<<p[1], "overrides", p[2]>> :
                 p \in {p \in methods(e[3]) \X methods(e[1]) :
                           p[1] # p[2] /\ p[1][3] = p[2][3]}} :
                e \in {e \in edges : e[2] = "inherits"}}

Finalized(edges, nodes) ==
    LET remapped == Remapped(edges, nodes)
    IN remapped \cup Overrides(remapped)

\* The directories that hold a file, and all they are in.
Directories(disk) ==
    LET held == {Package[f] : f \in DOMAIN disk} \ {""}
    IN held \cup UNION {Above[d] : d \in held}

Modules(disk) == {Module(d) : d \in Directories(disk)}

\* A directory's parent is the one that is in all the others it is in.
ModuleToParent(disk) ==
    {<<Module(e[1]), "belongs_to", Module(e[2])>> :
        e \in {e \in Directories(disk) \X Directories(disk) :
                  Above[e[1]] = {e[2]} \cup Above[e[2]]}}

FileToModule(disk) ==
    {<<File(f), "belongs_to", Module(Package[f])>> :
        f \in {f \in DOMAIN disk : Package[f] # ""}}

BelongsTo(disk) == ModuleToParent(disk) \cup FileToModule(disk)

TestsFor(disk) ==
    {<<File(t[1]), "tests_for", File(t[2])>> :
        t \in {t \in NamedTests : {t[1], t[2]} \subseteq DOMAIN disk}}

\* A Python test tests what it imports.
TestsByImport(parsed, disk) ==
    UNION {UNION {{<<File(f), "tests_for", File(g)>> : g \in ModuleFiles(m, disk)} :
                     m \in parsed[f].modules} : f \in TestFiles \cap DOMAIN parsed}

FullRebuild(disk) ==
    LET nodes == Modules(disk) \cup EntitiesOf(disk)
        own == OwnEdgesOf(disk)
        calls == CallsOf(disk, CodeGraph(nodes, Resolved(own, nodes, disk)), nodes)
        all == own \cup calls \cup TestsByImport(disk, disk) \cup BelongsTo(disk) \cup TestsFor(disk)
    IN CodeGraph(nodes, Finalized(Resolved(all, nodes, disk), nodes))

\* meta holds the contents the previous extraction saw, by their hashes.
Delta(disk, meta) ==
    LET both == DOMAIN disk \cap DOMAIN meta
    IN [added |-> DOMAIN disk \ DOMAIN meta,
        modified |-> {f \in both : disk[f] # meta[f]},
        deleted |-> DOMAIN meta \ DOMAIN disk]

\* Mutant of Stale: what was in a deleted file stays.
StaleKeepsDeleted(delta, meta) ==
    UNION {{File(f)} \cup Entities(f, meta[f]) : f \in delta.modified}

Stale(delta, meta) ==
    UNION {{File(f)} \cup Entities(f, meta[f]) : f \in delta.modified \cup delta.deleted}

WithoutPhantoms(g, disk) ==
    LET nodes == {x \in g.nodes : x[1] = "file" => x[2] \in DOMAIN disk}
    IN IF nodes = g.nodes THEN g ELSE CodeGraph(nodes, Within(g.edges, nodes))

\* Only what was added or modified is parsed, and only its calls are resolved,
\* when the list of nodes has moved to the graph: no function is known to be of
\* the file.  Modules and tests named after new files are not added.
Incremental(prior, disk, meta) ==
    LET delta == Delta(disk, meta)
        kept == prior.nodes \ Stale(delta, meta)
        parsed == Restrict(disk, delta.added \cup delta.modified)
        nodes == kept \cup EntitiesOf(parsed)
        old == Within(prior.edges, kept)
        own == OwnEdgesOf(parsed)
        calls == CallsOf(parsed, CodeGraph(nodes, old \cup Resolved(own, nodes, disk)), {})
                     \cup TestsByImport(parsed, disk)
    IN WithoutPhantoms(
          CodeGraph(nodes, Finalized(old \cup Resolved(own \cup calls, nodes, disk), nodes)),
          disk)

-----------------------------------------------------------------------------
(* The project's graph: its tasks, what they link to, and the code layer *)

EmptyGraph == [tasks |-> {}, links |-> {}, code |-> NoCode, bridges |-> {}]

\* Mutant of Pruned: nothing is pruned.
PrunedNothing(code) == code

\* Code edges with an end that is not there are pruned.
Pruned(code) == [code EXCEPT !.edges = Within(@, code.nodes)]

\* Mutant of MergeCodeLayer: a link to code that is gone is pruned with it.
MergePrunesLinks(g, code) ==
    [g EXCEPT !.links = {l \in @ : l[2] \in code.nodes},
              !.code = Pruned(code), !.bridges = {}]

\* A link of a task to code that is gone is kept.
MergeCodeLayer(g, code) == [g EXCEPT !.code = Pruned(code), !.bridges = {}]

\* A file has every node of its own; modules are named after no file.
GenerateBridges(g) ==
    [g EXCEPT !.bridges = UNION {{<<t, x>> : x \in {x \in g.code.nodes : x[2] \in Named[t]}} :
                                    t \in g.tasks}]

====
