----------------------------- MODULE TaskViews -----------------------------
(***************************************************************************)
(* The planned graph as others read it: the queries of the command line,   *)
(* with every dependency as it is, the assembly of contexts, with nodes    *)
(* that have texts and edges of several relations, and the phases of a     *)
(* ritual whose work it is.                                                *)
(***************************************************************************)
EXTENDS Topology, Traversal, ContextAssembly

CONSTANTS
  Texts,       \* id -> its node, but for the status
  Relations,   \* <<id, id>> -> the relation of the edge between them
  TargetSets,  \* what contexts are asked for
  Budgets,     \* and their budgets
  MaxDepth,    \* how far contexts reach
  Documents,   \* design documents, each the sequence of its headings
  Wild,        \* what the segments with a star and the names of directories
  Starting,    \*   stand for, see RitualPhases
  ProjectFiles,\* files of a project by which its ritual is composed
  Paths,       \* what is to be written in it
  Templates    \* names of rituals, shipped or not

Numbers == {"start", "end", "heading", "signature", "description"}

ASSUME TextsAssumption ==
  \A i \in Ids, field \in Numbers : field \in DOMAIN Texts[i] /\ Texts[i][field] \in Nat

ASSUME AskedAssumption ==
  /\ Budgets \subseteq Nat /\ MaxDepth \in Nat
  /\ Documents \subseteq Seq([level : Nat, number : Seq(Nat)])

Rituals == INSTANCE RitualPhases

\* A star is not in the name of a file, what matches a pattern with one is no directory
\* of the patterns, and the names of these do not begin with each other.
ASSUME NamesAssumption ==
  /\ DOMAIN Wild = {"*.md", "*.py", "*.go", "RESEARCH-*", "RESEARCH-*.md"}
  /\ DOMAIN Starting = {"src", "lib", "tests", "crates", ".gid", "docs", "memory"}
  /\ \A s \in DOMAIN Wild :
       Wild[s] # {} /\ Wild[s] \cap (DOMAIN Wild \cup DOMAIN Starting) = {}
  /\ \A d \in DOMAIN Starting : Starting[d] \cap DOMAIN Starting = {}

ASSUME PathsAssumption ==
  \A path \in Paths :
    /\ path \in Seq(STRING) /\ path # <<>>
    /\ \A i \in 1..Len(path) : path[i] \notin DOMAIN Wild

\* Once for each shape: no more than which nodes and edges there are is asked about.
Asked == plan \in {"planned", "cyclic"} /\ \A i \in Ids : graph.status[i] \in {"todo", "absent"}

Present == {i \in Ids : graph.status[i] # "absent"}

AsRead(relations) ==
  [project |-> NoProject,
   nodes |-> [i \in Present |-> [Texts[i] EXCEPT !.status = graph.status[i]]],
   edges |-> {NewEdge(p[1], p[2], relations[p]) :
                p \in {p \in Present \X Ids : p[2] \in graph.deps[p[1]]}}]

AllDepend == [p \in Ids \X Ids |-> "depends_on"]

\* What the queries answer fits together, and the sort and the question for cycles fail
\* just where tasks are stuck (query.rs, validator.rs).
TraversalsFit ==
  Asked => LET g == AsRead(AllDepend)
           IN TraversalsAgree(g) /\ PathsAreShortest(g) /\ SortsInOrder(g) /\ CyclesForeseen(g)

\* A section of a design document is whole (context.rs).
SectionsAreWhole ==
  \A headings \in Documents : \A k \in DOMAIN headings : SectionIsWhole(headings, headings[k].number)

\* What an agent is given to read is all of what it should be, in the order of its
\* importance and within the budget (context.rs); a section of a design document is
\* whole, and the context of a task names only what is there.
ContextsFit ==
  Asked =>
    LET g == AsRead(Relations)
    IN /\ SectionsAreWhole
       /\ \A targets \in TargetSets, budget \in Budgets :
            \A answer \in AssembleContext(g, targets, budget, MaxDepth, {}) :
              /\ EverythingIsFound(g, targets, MaxDepth, answer)
              /\ BudgetIsSpent(Asks(g, targets), budget, answer)
       /\ \A c \in GraphContext(g) : c.interfaces \subseteq Present

RitualsFit ==
  /\ Rituals!PhasesCanPass(ProjectFiles) /\ Rituals!PromptsFitScopes(ProjectFiles)
  /\ Rituals!GatesFitScopes(Paths) /\ Rituals!MatchersAgree(Paths) /\ Rituals!ListedIsLoaded(Templates)
  /\ \A planned, work \in BOOLEAN : Rituals!FailuresShow(planned, work)

\* The phases of the shipped and of the composed rituals can pass, with the tools, paths
\* and commands they are given, when their work is done (executor.rs, scope.rs, gating.rs,
\* template.rs, composer.rs), but for those the code itself makes impossible; and a ritual
\* does not get through when its graph cannot be planned, a task of it fails or it cannot
\* be saved.
PhasesFit == plan = "none" => RitualsFit
=============================================================================
