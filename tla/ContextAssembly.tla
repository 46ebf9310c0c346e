--------------------------- MODULE ContextAssembly ---------------------------
(***************************************************************************)
(* What an agent is given to read (harness/context.rs): the context of a   *)
(* task for the harness and the ritual, and the answer of `gid context`,   *)
(* which fills a budget of tokens with targets, dependencies, callers and  *)
(* tests.                                                                  *)
(*                                                                         *)
(* A text is its length in bytes; all lines of a file are equally long.    *)
(* Characters of several bytes, the files a pattern matches and what is    *)
(* printed are left out.  The order of the edges, which decides between    *)
(* equally good choices, is CHOOSE's.                                      *)
(***************************************************************************)
EXTENDS ProjectGraph

CONSTANTS
    Lines,       \* file in the project -> how many lines it has now
    LineBytes,   \* bytes of a line with its end
    MinUseful,   \* MIN_USEFUL_TOKENS_TRUNC
    Design,      \* directory -> the headings of design.md, <<>> if there is none
    Goals        \* directory -> the goals in requirements.md

ASSUME LinesAssumption == (\A f \in DOMAIN Lines : Lines[f] \in Nat) /\ LineBytes \in Nat \ {0}

\* The code has 32, four tokens of which are the mark of a cut.
ASSUME MinUsefulAssumption == MinUseful \in Nat /\ MinUseful >= 4

Lesser(a, b) == IF a <= b THEN a ELSE b

Total(s) ==
    LET total[k \in 0..Len(s)] == IF k = 0 THEN 0 ELSE total[k - 1] + s[k]
    IN total[Len(s)]

\* In the order of a relation; among equals any.
Sorted(S, before) ==
    CHOOSE s \in [1..Cardinality(S) -> S] :
        IsInjective(s) /\ \A i, j \in DOMAIN s : i < j => <<s[i], s[j]>> \in before

-----------------------------------------------------------------------------
(* The context of a task *)

\* A reference is the beginning of a heading's number.
Matching(headings, ref) == {i \in 1..Len(headings) : IsPrefix(ref, headings[i].number)}

\* From the first heading that matches to the next that is not below it.
DesignSection(headings, ref) ==
    LET first == Min(Matching(headings, ref))
        after == {j \in (first + 1)..Len(headings) : headings[j].level <= headings[first].level}
    IN IF Matching(headings, ref) = {} THEN <<>>
       ELSE SubSeq(headings, first, Min(after \cup {Len(headings) + 1}) - 1)

Related(g, id, relation) == {e.to : e \in {e \in g.edges : e.from = id /\ e.relation = relation}}

\* The directory of the documents of the task's feature, or the root's.
DocDir(g, task) ==
    LET features == Related(g, task, "implements")
        feature == CHOOSE f \in features : TRUE
    IN IF features # {} /\ feature \in NodeIds(g) /\ g.nodes[feature].design_doc # None
       THEN g.nodes[feature].design_doc ELSE "root"

\* Those of the first node that has some.
Guards(g) ==
    LET having == {id \in NodeIds(g) : g.nodes[id].guards # None}
    IN IF having = {} THEN None ELSE g.nodes[CHOOSE id \in having : TRUE].guards

TaskContext(g, task) ==
    LET node == g.nodes[task]
    IN [excerpt    |-> DesignSection(Design[DocDir(g, task)], node.design_ref),
        goals      |-> node.satisfies \cap Goals[DocDir(g, task)],
        interfaces |-> Related(g, task, "depends_on") \cap NodeIds(g),
        guards     |-> Guards(g)]

\* For the implementation phase of a ritual: all tasks that are not done.
GraphContext(g) ==
    {TaskContext(g, id) : id \in {id \in NodeIds(g) : g.nodes[id].type = "task"
                                                      /\ g.nodes[id].status # "done"}}

-----------------------------------------------------------------------------
(* What a node has to show *)

JoinedLines(n) == n * LineBytes - 1

\* The lines the graph gives for a node may be those of an older file; 0 for none.
Source(node) ==
    LET n == Lines[node.file]
    IN CASE node.file \notin DOMAIN Lines -> 0
         [] node.file \in DOMAIN Lines /\ node.start >= 1 /\ (node.end = 0 \/ node.end >= node.start) ->
              IF node.start > n THEN 0
              ELSE JoinedLines((IF node.end = 0 THEN n ELSE Lesser(node.end, n)) - node.start + 1)
         [] OTHER -> n * LineBytes

Tokens(bytes) == IF bytes = 0 THEN 0 ELSE Max({1, bytes \div 4})
Shown(node) == Source(node) + node.signature + node.description
TargetTokens(node) == Tokens(Shown(node) + node.heading + 50)

Rank(relation) ==
    CASE relation \in {"calls", "imports"} -> 1
      [] relation \in {"type_reference", "inherits", "implements", "uses"} -> 2
      [] relation \in {"contains", "defined_in"} -> 3
      [] relation \in {"depends_on", "part_of", "blocks", "tests_for"} -> 4
      [] OTHER -> 5

\* In hundredths of 600, exact up to six hops.
Score(c) ==
    LET near == 60 * (12 * (6 - Rank(c.relation)) + 10) + 1800 \div c.hop
    IN IF c.hop > 1 THEN (near * 8) \div 10 ELSE near

Candidate(g, id, hop, e) ==
    [id |-> id, hop |-> hop, relation |-> e.relation, node |-> g.nodes[id],
     tokens |-> Tokens(Shown(g.nodes[id]) + 30)]

-----------------------------------------------------------------------------
(* Gathering *)

\* No pattern lets everything pass; one is a type or the files it matches.
Passes(node, include) ==
    include = {} \/ \E p \in include : p = [type |-> node.type] \/ ("files" \in DOMAIN p /\ node.file \in p.files)

\* Ids that have no node are reached, and lead nowhere.
Dependencies(g, targets, depth, include) ==
    LET near[k \in 0..depth] ==
          IF k = 0 THEN targets
          ELSE LET before == near[k - 1]
               IN before \cup {e.to : e \in {e \in g.edges : e.from \in before \cap NodeIds(g)}}
        hop(id) == Min({k \in 0..depth : id \in near[k]})
        last(id) == CHOOSE e \in g.edges : /\ e.to = id
                                           /\ e.from \in near[hop(id) - 1] \cap NodeIds(g)
    IN {Candidate(g, id, hop(id), last(id)) :
          id \in {id \in (near[depth] \ targets) \cap NodeIds(g) : Passes(g.nodes[id], include)}}

\* Of all that lead to a target, whatever the pattern.
CallersAndTests(g, targets) ==
    LET into(id) == {e \in g.edges : e.from = id /\ e.to \in targets}
    IN {Candidate(g, id, 1, CHOOSE e \in into(id) : TRUE) :
          id \in {id \in NodeIds(g) \ targets : into(id) # {}}}

-----------------------------------------------------------------------------
(* The budget *)

\* The last end of a line before the place to cut, or just there.
Cut(content, line, place) ==
    LET ends == {p \in {k * line - 1 : k \in 1..(content \div line)} : p < place}
    IN IF ends = {} THEN place ELSE Max(ends)

\* Mutant of Truncated: the mark at the end is not counted.
TruncatedUnmarked(c, left) ==
    LET source == Source(c.node)
        content == IF source > 0 THEN source ELSE c.node.description
        line == IF source > 0 THEN LineBytes ELSE content + 1
    IN Tokens(IF content <= 4 * left THEN content ELSE 16 + Cut(content, line, 4 * left))

\* What is shown is the source, or else the description.
Truncated(c, left) ==
    LET source == Source(c.node)
        content == IF source > 0 THEN source ELSE c.node.description
        line == IF source > 0 THEN LineBytes ELSE content + 1
    IN Tokens(IF content <= 4 * left THEN content ELSE 16 + Cut(content, line, Max({4 * left, 16}) - 16))

Item(c, tokens, cut) == [id |-> c.id, hop |-> c.hop, full |-> c.tokens, tokens |-> tokens, cut |-> cut]

\* The whole if it fits, a piece if that is worth it, or nothing.
Fit(filled, c) ==
    CASE c.tokens <= filled.left /\ filled.left > 0 ->
           [filled EXCEPT !.left = @ - c.tokens, !.items = Append(@, Item(c, c.tokens, FALSE))]
      [] c.tokens > filled.left /\ filled.left >= MinUseful ->
           LET tokens == Truncated(c, filled.left)
           IN [filled EXCEPT !.left = Max({@, tokens}) - tokens,
                             !.items = Append(@, Item(c, tokens, TRUE))]
      [] OTHER -> [filled EXCEPT !.dropped = Append(@, Item(c, 0, TRUE))]

\* Equally good ones in any order.
ByScore(S) == Sorted(S, {p \in S \X S : Score(p[1]) >= Score(p[2])})
ByHop(S) ==
    Sorted(S, {p \in S \X S : \/ p[1].hop < p[2].hop
                              \/ p[1].hop = p[2].hop /\ Score(p[1]) >= Score(p[2])})

\* In the order of their categories.
InCategories(deps, callers) ==
    ByScore({c \in deps : c.hop = 1})
    \o ByScore({c \in callers : c.relation # "tests_for"})
    \o ByScore({c \in callers : c.relation = "tests_for"})
    \o ByHop({c \in deps : c.hop > 1})

\* Targets are never cut, and may take more than the budget.
BudgetFit(asked, order, budget) ==
    LET filled[k \in 0..Len(order)] ==
          IF k = 0 THEN [left |-> IF asked > budget THEN 0 ELSE budget - asked, items |-> <<>>, dropped |-> <<>>]
          ELSE Fit(filled[k - 1], order[k])
    IN filled[Len(order)]

Asks(g, targets) ==
    LET order == SetToSeq(targets)
    IN Total([i \in DOMAIN order |-> TargetTokens(g.nodes[order[i]])])

\* None of the targets may be missing; estimated_tokens is the budget without the rest.
AssembleContext(g, targets, budget, depth, include) ==
    IF targets = {} \/ ~ targets \subseteq NodeIds(g) THEN {}
    ELSE LET order == InCategories(Dependencies(g, targets, depth, include), CallersAndTests(g, targets))
             filled == BudgetFit(Asks(g, targets), order, budget)
         IN {[items |-> filled.items, dropped |-> filled.dropped,
              estimated_tokens |-> budget - filled.left]}

-----------------------------------------------------------------------------
(* Properties *)

Taken(items) == Total([i \in DOMAIN items |-> items[i].tokens])

\* The items take no more than what the targets leave of the budget, pieces and
\* all (greedy_fill, truncate_text); and while something nearer is dropped, what
\* is farther only gets in whole, and if it is smaller (budget_fit_by_category).
BudgetIsSpent(asked, budget, answer) ==
    /\ asked <= budget => Taken(answer.items) <= budget - asked
    /\ asked >= budget => answer.items = <<>>
    /\ answer.estimated_tokens = IF asked <= budget THEN asked + Taken(answer.items) ELSE budget
    /\ \A d \in ToSet(answer.dropped), i \in ToSet(answer.items) :
         i.hop > d.hop => i.full < d.full /\ ~ i.cut

\* Nothing is lost without a trace: what is in the answer or was dropped from it are
\* all nodes that the dependencies of the targets reach so far, at the length of the
\* shortest walk, and all that lead to a target (gather_dependencies,
\* gather_callers_and_tests).
EverythingIsFound(g, targets, depth, answer) ==
    LET walks[k \in 0..depth] ==
          IF k = 0 THEN targets
          ELSE {e.to : e \in {e \in g.edges : e.from \in walks[k - 1] \cap NodeIds(g)}}
        lengths(id) == {k \in 1..depth : id \in walks[k]}
        callers == {e.from : e \in {e \in g.edges : e.to \in targets}} \ targets
        told == ToSet(answer.items) \cup ToSet(answer.dropped)
    IN /\ {i.id : i \in told} = {id \in NodeIds(g) \ targets : lengths(id) # {} \/ id \in callers}
       /\ \A i \in told : (i.hop = 1 /\ i.id \in callers) \/ i.hop = Min(lengths(i.id))

\* Of a document that is in order, in which every heading is below the one its number
\* belongs to, a section is exactly what has its number (extract_design_section).
Before(a, b) ==
    \E k \in 1..Len(b) : /\ k <= Len(a) + 1
                         /\ \A j \in 1..(k - 1) : a[j] = b[j]
                         /\ k <= Len(a) => a[k] < b[k]

InOrder(headings) ==
    LET number(i) == headings[i].number
    IN /\ \A i, j \in DOMAIN headings : i < j => Before(number(i), number(j))
       /\ \A i \in DOMAIN headings : Len(number(i)) > 1 =>
            \E j \in DOMAIN headings : number(j) = Front(number(i))
       /\ \A i, j \in DOMAIN headings :
            headings[i].level <= headings[j].level <=> Len(number(i)) <= Len(number(j))

SectionIsWhole(headings, ref) ==
    InOrder(headings) /\ (\E i \in DOMAIN headings : headings[i].number = ref) =>
        ToSet(DesignSection(headings, ref)) = {headings[i] : i \in Matching(headings, ref)}
=============================================================================
