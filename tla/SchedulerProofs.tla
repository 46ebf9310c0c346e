-------------------------- MODULE SchedulerProofs --------------------------
(***************************************************************************)
(* First planning: compute_layers is right on every graph.  The argument   *)
(* is an invariant of its loop: what is placed is closed under unfinished  *)
(* dependencies and has no cycle, what is queued waits for placed tasks    *)
(* only, and whatever else is to be planned waits for something that is    *)
(* not placed.                                                             *)
(*                                                                         *)
(* Then the scheduler, which keeps its board and its books: tasks start    *)
(* with their dependencies done and merged, nothing is left in progress by *)
(* an execution that has ended, no task counts twice, and every step on    *)
(* the board is one that the life of a task allows.                        *)
(*                                                                         *)
(* Last, what is read of a planned graph, or of any finite graph: searches *)
(* are the least closed sets and find shortest paths, the sort finds an    *)
(* order just when there is one, and a context has all that is near, the   *)
(* nearest first, within its budget.  And the phases of a ritual have what *)
(* they need for the work of a plan, whatever the project's paths are.     *)
(***************************************************************************)
EXTENDS Scheduler, TaskViews, SequenceLemmas

-----------------------------------------------------------------------------
(* Planning *)

Blockers(t) == {d \in graph.deps[t] : d \notin Placed /\ ~ Satisfied(graph, d)}

NoCycleIn(S) == \A U \in (SUBSET S) \ {{}} : \E t \in U : graph.deps[t] \cap U = {}

\* The invariant of the loop.
LoopInv ==
  /\ PlanTypeOK
  /\ Placed \subseteq Pending(graph) /\ queue \cap Placed = {}
  /\ depth <= Cardinality(Placed) /\ (\A t \in Ids : layer[t] <= depth)
  /\ depth > 0 => \E t \in Placed : layer[t] = depth
  /\ LayersInOrder /\ EarliestLayer
  /\ NoCycleIn(Placed)
  /\ \A t \in queue : graph.deps[t] \cap Pending(graph) \subseteq Placed
  /\ depth > 0 => \A t \in queue : \E d \in graph.deps[t] : d \in Placed /\ layer[d] = depth
  /\ plan # "none" => \A t \in Pending(graph) \ (Placed \cup queue) : Blockers(t) # {}
  /\ plan \in {"planned", "cyclic"} => queue = {}
  /\ plan = "planned" => Pending(graph) \subseteq Placed
  /\ plan = "cyclic" => ~ (Pending(graph) \subseteq Placed)

LEMMA PendingIsUnsatisfied ==
  ASSUME NEW g \in TaskGraphs, NEW t \in Pending(g)
  PROVE  t \in TaskIds /\ t \in Ids /\ ~ Satisfied(g, t)
  BY TopologyAssumption DEF Pending, Satisfied, TopologyAssumption

\* A set of names has a size; so has every part of it, and no larger one.
LEMMA NamesAreFinite ==
  ASSUME NEW S \in SUBSET Ids
  PROVE  IsFiniteSet(S) /\ Cardinality(S) \in Nat /\ Cardinality(S) <= Cardinality(Ids)
         /\ Cardinality(Ids) \in Nat
  BY FS_Subset, FS_CardinalityType, TopologyAssumption DEF TopologyAssumption

\* A non-empty layer makes what is placed larger.
LEMMA PlacedGrows ==
  ASSUME NEW S \in SUBSET Ids, NEW T \in SUBSET Ids, S \cap T = {}, T # {}
  PROVE  Cardinality(S) + 1 <= Cardinality(S \cup T)
<1>1. PICK t \in T : t \notin S
  OBVIOUS
<1>2. IsFiniteSet(S \cup {t}) /\ Cardinality(S \cup {t}) = Cardinality(S) + 1
  BY <1>1, NamesAreFinite, FS_AddElement
<1>3. S \cup {t} \in SUBSET (S \cup T) /\ IsFiniteSet(S \cup T)
  BY <1>1, NamesAreFinite
<1>4. Cardinality(S \cup {t}) <= Cardinality(S \cup T)
  BY <1>3, FS_Subset
<1> QED BY <1>2, <1>4

-----------------------------------------------------------------------------
\* The loop starts with nothing placed and the tasks that wait for none queued.
LEMMA LoopStarts ==
  ASSUME graph \in TaskGraphs, StartLayers(graph), graph' = graph
  PROVE  LoopInv'
<1>0. /\ plan' = "layering" /\ depth' = 0 /\ layer' = [t \in Ids |-> 0]
      /\ queue' = FirstLayer(graph) /\ graph' = graph
  BY DEF StartLayers
<1>1. Placed' = {}
  BY <1>0 DEF Placed
<1>2. Pending(graph)' = Pending(graph)
  BY <1>0 DEF Pending
<1>3. Cardinality(Placed') = 0 /\ Cardinality(Ids) \in Nat
  BY <1>1, FS_EmptySet, NamesAreFinite
<1>4. PlanTypeOK'
  BY <1>0, <1>2, <1>3 DEF PlanTypeOK, FirstLayer
<1>5. \A t \in queue' : graph.deps[t] \cap Pending(graph) = {}
  BY <1>0 DEF FirstLayer
<1>6. \A t \in Pending(graph) \ queue' : Blockers(t)' # {}
  <2> TAKE t \in Pending(graph) \ queue'
  <2>1. PICK d : d \in graph.deps[t] /\ d \in Pending(graph)
    BY <1>0 DEF FirstLayer
  <2>2. ~ Satisfied(graph, d)
    BY <2>1, PendingIsUnsatisfied
  <2> QED BY <2>1, <2>2, <1>0, <1>1 DEF Blockers, Satisfied
<1>7. LayersInOrder' /\ EarliestLayer' /\ NoCycleIn(Placed)'
  BY <1>1 DEF LayersInOrder, EarliestLayer, NoCycleIn
<1> QED BY <1>0, <1>1, <1>2, <1>3, <1>4, <1>5, <1>6, <1>7 DEF LoopInv

\* What a turn of the loop does to what is placed.
LEMMA TurnPlaces ==
  ASSUME LoopInv, NextLayer, graph' = graph
  PROVE  /\ Placed' = Placed \cup queue /\ Pending(graph)' = Pending(graph)
         /\ \A t \in Placed : layer'[t] = layer[t] /\ layer'[t] <= depth
         /\ \A t \in queue : layer'[t] = depth + 1
         /\ depth' = depth + 1 /\ depth \in Nat /\ depth + 1 <= Cardinality(Placed')
         /\ Cardinality(Placed') <= Cardinality(Ids) /\ Cardinality(Ids) \in Nat
         /\ Placed' \subseteq Ids
<1>0. /\ depth' = depth + 1 /\ graph' = graph /\ queue # {}
      /\ layer' = [t \in Ids |-> IF t \in queue THEN depth + 1 ELSE layer[t]]
  BY DEF NextLayer
<1>1. /\ depth \in Nat /\ layer \in [Ids -> Nat] /\ queue \subseteq Ids /\ Placed \subseteq Ids
      /\ queue \cap Placed = {} /\ \A t \in Ids : layer[t] <= depth
  BY TopologyAssumption DEF LoopInv, PlanTypeOK, Pending, Placed, TopologyAssumption
<1>2. Placed' = Placed \cup queue
  BY <1>0, <1>1 DEF Placed
<1>3. Cardinality(Placed) + 1 <= Cardinality(Placed \cup queue)
  BY <1>0, <1>1, PlacedGrows
<1>4. /\ Cardinality(Placed) \in Nat /\ Cardinality(Placed \cup queue) \in Nat
      /\ Cardinality(Placed \cup queue) <= Cardinality(Ids) /\ Cardinality(Ids) \in Nat
  BY <1>1, NamesAreFinite
<1>5. depth <= Cardinality(Placed)
  BY DEF LoopInv
<1>6. Pending(graph)' = Pending(graph)
  BY <1>0 DEF Pending
<1> QED BY <1>0, <1>1, <1>2, <1>3, <1>4, <1>5, <1>6

\* A turn of the loop keeps the invariant.
LEMMA LoopTurns ==
  ASSUME LoopInv, NextLayer, graph' = graph
  PROVE  LoopInv'
<1> DEFINE P == Placed
           W == Pending(graph)
<1>0. /\ plan = "layering" /\ plan' = plan /\ queue' = Ready(graph, P \cup queue)
      /\ layer' = [t \in Ids |-> IF t \in queue THEN depth + 1 ELSE layer[t]]
  BY DEF NextLayer
<1>1. /\ Placed' = P \cup queue /\ Pending(graph)' = W
      /\ \A t \in P : layer'[t] = layer[t] /\ layer'[t] <= depth
      /\ \A t \in queue : layer'[t] = depth + 1
      /\ depth' = depth + 1 /\ depth \in Nat /\ depth + 1 <= Cardinality(Placed')
      /\ Cardinality(Placed') <= Cardinality(Ids) /\ Cardinality(Ids) \in Nat
      /\ Placed' \subseteq Ids
  BY TurnPlaces
<1>2. /\ graph \in TaskGraphs /\ queue \subseteq W /\ P \subseteq W /\ queue \cap P = {}
      /\ W \subseteq Ids /\ layer \in [Ids -> 0..Cardinality(Ids)]
      /\ \A t \in Ids : layer[t] <= depth
  BY TopologyAssumption DEF LoopInv, PlanTypeOK, Pending, TopologyAssumption
<1>3. Cardinality(Placed') \in Nat
  BY <1>1, NamesAreFinite
<1>4. queue' = {t \in W \ (P \cup queue) : \A d \in graph.deps[t] :
                  d \in P \cup queue \/ Satisfied(graph, d)}
  BY <1>0 DEF Ready
<1>5. \A t \in queue : graph.deps[t] \cap W \subseteq P
  BY DEF LoopInv
<1>6. \A t \in P : graph.deps[t] \cap W \subseteq P
  BY DEF LoopInv, LayersInOrder
<1>7. \A t \in W \ (P \cup queue) : Blockers(t) # {}
  BY <1>0 DEF LoopInv
<1>8. \A t \in W : ~ Satisfied(graph, t)
  BY <1>2, PendingIsUnsatisfied
<1>9. \A d : Satisfied(graph, d)' <=> Satisfied(graph, d)
  BY DEF Satisfied
<1>10. PlanTypeOK'
  <2>1. layer' \in [Ids -> 0..Cardinality(Ids)]
    BY <1>0, <1>1, <1>2, <1>3
  <2>2. depth' \in 0..Cardinality(Ids)
    BY <1>1, <1>3
  <2>3. queue' \subseteq W
    BY <1>4
  <2> HIDE DEF P, W
  <2> QED BY <2>1, <2>2, <2>3, <1>0, <1>1, <1>2 DEF PlanTypeOK
<1>11. \A t \in Ids : layer'[t] <= depth'
  BY <1>0, <1>1, <1>2
<1>12. LayersInOrder'
  <2> SUFFICES ASSUME NEW t \in P \cup queue, NEW d \in graph.deps[t] \cap W
               PROVE  d \in P \cup queue /\ layer'[d] < layer'[t]
    BY <1>1 DEF LayersInOrder
  <2>1. CASE t \in P
    BY <2>1, <1>1, <1>6 DEF LoopInv, LayersInOrder
  <2>2. CASE t \in queue
    <3>1. d \in P /\ layer'[d] = layer[d] /\ d \in Ids
      BY <2>2, <1>1, <1>2, <1>5
    <3> QED BY <3>1, <2>2, <1>1, <1>2
  <2> QED BY <2>1, <2>2
<1>13. EarliestLayer'
  <2> SUFFICES ASSUME NEW t \in P \cup queue, layer'[t] > 1
               PROVE  \E d \in graph.deps[t] : d \in P \cup queue /\ layer'[t] = layer'[d] + 1
    BY <1>1 DEF EarliestLayer
  <2>1. CASE t \in P
    <3>1. PICK d \in graph.deps[t] : d \in P /\ layer[t] = layer[d] + 1
      BY <2>1, <1>1 DEF LoopInv, EarliestLayer
    <3> QED BY <3>1, <2>1, <1>1
  <2>2. CASE t \in queue
    <3>1. layer'[t] = depth + 1 /\ depth > 0
      BY <2>2, <1>1
    <3>2. PICK d \in graph.deps[t] : d \in P /\ layer[d] = depth
      BY <3>1, <2>2 DEF LoopInv
    <3> QED BY <3>1, <3>2, <1>1
  <2> QED BY <2>1, <2>2
<1>14. NoCycleIn(Placed)'
  <2> SUFFICES ASSUME NEW U \in SUBSET (P \cup queue), U # {}
               PROVE  \E t \in U : graph.deps[t] \cap U = {}
    BY <1>1 DEF NoCycleIn
  <2>1. CASE U \cap P = {}
    BY <2>1, <1>2, <1>5
  <2>2. CASE U \cap P # {}
    <3>1. PICK t \in U \cap P : graph.deps[t] \cap (U \cap P) = {}
      BY <2>2 DEF LoopInv, NoCycleIn
    <3>2. graph.deps[t] \cap U \subseteq W
      BY <1>2
    <3> QED BY <3>1, <3>2, <1>6
  <2> QED BY <2>1, <2>2
<1>15. \A t \in queue' : graph.deps[t] \cap W \subseteq P \cup queue
  BY <1>4, <1>8
<1>16. \A t \in queue' : \E d \in graph.deps[t] : d \in P \cup queue /\ layer'[d] = depth + 1
  <2> TAKE t \in queue'
  <2>1. PICK d \in graph.deps[t] : d \notin P /\ ~ Satisfied(graph, d)
    BY <1>4, <1>7 DEF Blockers
  <2>2. d \in queue
    BY <2>1, <1>4
  <2> QED BY <2>1, <2>2, <1>1
<1>17. \A t \in W \ (P \cup queue \cup queue') : Blockers(t)' # {}
  <2> TAKE t \in W \ (P \cup queue \cup queue')
  <2>1. PICK d \in graph.deps[t] : d \notin P \cup queue /\ ~ Satisfied(graph, d)
    BY <1>4
  <2> QED BY <2>1, <1>1, <1>9 DEF Blockers
<1>18. \E t \in P \cup queue : layer'[t] = depth + 1
  BY <1>1 DEF NextLayer
<1> QED
  BY <1>0, <1>1, <1>2, <1>4, <1>10, <1>11, <1>12, <1>13, <1>14, <1>15, <1>16, <1>17, <1>18 DEF LoopInv

\* So does the end of the loop.
LEMMA LoopEnds ==
  ASSUME LoopInv, EndLayers, graph' = graph
  PROVE  LoopInv' /\ queue = {} /\ (plan' = "planned" => Pending(graph) \subseteq Placed)
<1>0. /\ plan = "layering" /\ queue = {} /\ UNCHANGED <<layer, depth, queue, graph>>
      /\ plan' = IF Pending(graph) \subseteq Placed THEN "planned" ELSE "cyclic"
  BY DEF EndLayers
<1>1. Placed' = Placed /\ Pending(graph)' = Pending(graph)
  BY <1>0 DEF Placed, Pending
<1>2. PlanTypeOK'
  BY <1>0, <1>1 DEF LoopInv, PlanTypeOK
<1>3. LayersInOrder' /\ EarliestLayer' /\ NoCycleIn(Placed)'
  BY <1>0, <1>1 DEF LoopInv, LayersInOrder, EarliestLayer, NoCycleIn
<1>4. \A t \in Pending(graph) \ (Placed \cup queue) : Blockers(t)' # {}
  BY <1>0, <1>1 DEF LoopInv, Blockers, Satisfied
<1> QED BY <1>0, <1>1, <1>2, <1>3, <1>4 DEF LoopInv

-----------------------------------------------------------------------------
LEMMA PlanningStarts == PlanInit => LoopInv
<1> SUFFICES ASSUME PlanInit PROVE LoopInv
  OBVIOUS
<1>0. graph \in TaskGraphs /\ plan = "none" /\ layer = [t \in Ids |-> 0] /\ depth = 0 /\ queue = {}
  BY TopologyAssumption DEF PlanInit, TopologyAssumption
<1>1. Placed = {}
  BY <1>0 DEF Placed
<1>2. Cardinality(Placed) = 0 /\ Cardinality(Ids) \in Nat
  BY <1>1, FS_EmptySet, NamesAreFinite
<1> QED BY <1>0, <1>1, <1>2 DEF LoopInv, PlanTypeOK, LayersInOrder, EarliestLayer, NoCycleIn

\* The invariant holds throughout planning.
THEOREM PlanLoopInv == PlanSpec => []LoopInv
<1>1. LoopInv /\ [PlanNext]_<<graph, planVars>> => LoopInv'
  <2> SUFFICES ASSUME LoopInv, [PlanNext]_<<graph, planVars>> PROVE LoopInv'
    OBVIOUS
  <2>0. graph \in TaskGraphs
    BY DEF LoopInv, PlanTypeOK
  <2>1. CASE StartPlan /\ graph' = graph
    BY <2>0, <2>1, LoopStarts DEF StartPlan
  <2>2. CASE NextLayer /\ graph' = graph
    BY <2>2, LoopTurns
  <2>3. CASE EndLayers /\ graph' = graph
    BY <2>3, LoopEnds
  <2>4. CASE UNCHANGED <<graph, planVars>>
    BY <2>4 DEF planVars, LoopInv, PlanTypeOK, Placed, Pending, LayersInOrder, EarliestLayer,
                NoCycleIn, Blockers, Satisfied
  <2> QED BY <2>1, <2>2, <2>3, <2>4 DEF PlanNext
<1> QED BY <1>1, PlanningStarts, PTL DEF PlanSpec

\* Plans are well typed and no deeper than there are names (topology.rs, the
\* loop of compute_layers).
THEOREM PlanTypes == PlanSpec => []PlanTypeOK
<1>1. LoopInv => PlanTypeOK
  BY DEF LoopInv
<1> QED BY <1>1, PlanLoopInv, PTL

\* Once all is planned, every task has a layer, and what waits for it a later one; only
\* the first layer has nothing right before it.
LEMMA PlannedLayers ==
  ASSUME LoopInv, plan = "planned"
  PROVE  /\ depth \in Nat
         /\ \A t \in Pending(graph) : layer[t] \in 1..depth
         /\ \A d, t \in Pending(graph) : d \in graph.deps[t] => layer[d] < layer[t]
         /\ \A t \in Pending(graph) : layer[t] > 1 =>
              \E d \in Pending(graph) : d \in graph.deps[t] /\ layer[t] = layer[d] + 1
         /\ depth > 0 => \E t \in Pending(graph) : layer[t] = depth
<1>1. Placed = Pending(graph) /\ PlanTypeOK /\ LayersInOrder /\ EarliestLayer
      /\ (\A t \in Ids : layer[t] <= depth) /\ (depth > 0 => \E t \in Placed : layer[t] = depth)
  BY DEF LoopInv
<1>2. depth \in Nat /\ \A t \in Placed : layer[t] \in Nat /\ layer[t] > 0 /\ layer[t] <= depth
  BY <1>1, NamesAreFinite DEF PlanTypeOK, Placed
<1>3. \A d, t \in Placed : d \in graph.deps[t] => layer[d] < layer[t]
  BY <1>1 DEF LayersInOrder
<1>4. \A t \in Placed : layer[t] > 1 => \E d \in Placed : d \in graph.deps[t] /\ layer[t] = layer[d] + 1
  BY <1>1 DEF EarliestLayer
<1> QED BY <1>1, <1>2, <1>3, <1>4

\* The critical path of a plan has one task in every layer: no task reaches farther than
\* the layers after its own, and going down from the last layer there is one in each that
\* reaches that far.
LEMMA CriticalIs ==
  ASSUME LoopInv, plan = "planned"
  PROVE  CriticalLength = depth
<1> DEFINE tasks == Pending(graph)
           blocked(d) == {t \in tasks : d \in graph.deps[t]}
           step(f, d) == 1 + Max({0} \cup {f[t] : t \in blocked(d)})
           L(m) == {d \in tasks : layer[d] + m > depth}
           Is(f, m) == f = [d \in L(m) |-> step(f, d)]
           longest == CHOOSE f : f = [d \in tasks |-> step(f, d)]
<1>1. /\ depth \in Nat
      /\ \A t \in tasks : layer[t] \in Nat /\ layer[t] > 0 /\ layer[t] <= depth
      /\ \A d, t \in tasks : d \in graph.deps[t] => layer[d] < layer[t]
      /\ \A t \in tasks : layer[t] > 1 =>
           \E d \in tasks : d \in graph.deps[t] /\ layer[t] = layer[d] + 1
      /\ depth > 0 => \E t \in tasks : layer[t] = depth
  BY PlannedLayers
<1> HIDE DEF tasks
<1>2. L(0) = {} /\ L(depth) = tasks /\ \A m \in Nat : L(m) \subseteq L(m + 1) /\ L(m) \subseteq tasks
  BY <1>1
<1>3. \A m \in Nat : \A d \in L(m + 1) : blocked(d) \subseteq L(m)
  BY <1>1
<1>4. \E f : Is(f, depth)
  <2> DEFINE T == {m \in Nat : \E f : Is(f, m)}
  <2>1. 0 \in T
    <3> DEFINE f == [d \in {} |-> 0]
    <3>1. f = [d \in {} |-> step(f, d)]
      OBVIOUS
    <3> HIDE DEF f
    <3>2. Is(f, 0)
      BY <1>2, <3>1
    <3> QED BY <3>2
  <2>2. ASSUME NEW m \in Nat, m \in T PROVE m + 1 \in T
    <3>1. PICK f : Is(f, m)
      BY <2>2
    <3> DEFINE h == [d \in L(m + 1) |-> step(f, d)]
    <3>2. ASSUME NEW d \in L(m + 1) PROVE step(h, d) = step(f, d)
      <4>1. ASSUME NEW t \in blocked(d) PROVE h[t] = f[t]
        <5>1. t \in L(m) /\ t \in L(m + 1)
          BY <1>2, <1>3
        <5> HIDE DEF L, step
        <5>2. f[t] = step(f, t)
          BY <3>1, <5>1
        <5> QED BY <5>1, <5>2
      <4> HIDE DEF h
      <4>2. {h[t] : t \in blocked(d)} = {f[t] : t \in blocked(d)}
        BY <4>1
      <4> QED BY <4>2
    <3>3. h = [d \in L(m + 1) |-> step(h, d)]
      <4>1. [d \in L(m + 1) |-> step(f, d)] = [d \in L(m + 1) |-> step(h, d)]
        <5> HIDE DEF step, h, L
        <5> QED BY <3>2
      <4> QED BY <4>1
    <3> HIDE DEF h
    <3> QED BY <3>3
  <2> HIDE DEF T
  <2>3. depth \in T
    BY <1>1, <2>1, <2>2, NatSetInduction
  <2> QED BY <2>3 DEF T
<1>5. longest = [d \in tasks |-> step(longest, d)]
  <2>1. \E f : f = [d \in tasks |-> step(f, d)]
    BY <1>2, <1>4
  <2> QED BY <2>1
<1>6. CriticalLength = Max({0} \cup {longest[t] : t \in tasks})
  BY DEF CriticalLength, tasks
<1> HIDE DEF longest
<1>7. ASSUME NEW d \in tasks PROVE longest[d] \in Nat /\ longest[d] > 0 /\ longest[d] + layer[d] <= depth + 1
                                  /\ \A t \in blocked(d) : longest[t] + 1 <= longest[d]
  <2> DEFINE Fits(e) == longest[e] \in Nat /\ longest[e] > 0 /\ longest[e] + layer[e] <= depth + 1
             T == {m \in Nat : \A e \in L(m) : Fits(e)}
  <2>1. 0 \in T
    BY <1>2
  <2>2. ASSUME NEW e \in tasks, \A t \in blocked(e) : Fits(t)
        PROVE  Fits(e) /\ \A t \in blocked(e) : longest[t] + 1 <= longest[e]
    <3> DEFINE S == {0} \cup {longest[t] : t \in blocked(e)}
               b == depth - layer[e]
    <3>1. b \in Nat /\ layer[e] \in Nat
      BY <1>1
    <3>2. \A t \in blocked(e) : longest[t] \in 0..b
      BY <1>1, <2>2
    <3>3. longest[e] = 1 + Max(S)
      BY <1>5
    <3>4. \A t \in blocked(e) : longest[t] \in S
      OBVIOUS
    <3>5. S \in SUBSET (0..b) /\ S # {}
      BY <3>1, <3>2
    <3> HIDE DEF S
    <3>6. Max(S) \in 0..b /\ \A x \in S : x <= Max(S)
      BY <3>1, <3>5, MaxIs
    <3> QED BY <1>1, <3>1, <3>2, <3>3, <3>4, <3>6
  <2>3. ASSUME NEW m \in Nat, m \in T PROVE m + 1 \in T
    <3>1. ASSUME NEW e \in L(m + 1) PROVE Fits(e)
      <4>1. \A t \in blocked(e) : Fits(t)
        BY <1>3, <2>3
      <4>2. e \in tasks
        OBVIOUS
      <4> QED BY <2>2, <4>1, <4>2
    <3> QED BY <3>1
  <2>4. depth \in T
    <3> HIDE DEF T
    <3> QED BY <1>1, <2>1, <2>3, NatSetInduction
  <2>5. \A t \in tasks : Fits(t)
    BY <1>2, <2>4
  <2>6. Fits(d) /\ \A t \in blocked(d) : Fits(t)
    BY <2>5
  <2> QED BY <2>2, <2>6
<1>8. depth > 0 => \E t \in tasks : longest[t] >= depth
  <2> SUFFICES ASSUME depth > 0 PROVE \E t \in tasks : longest[t] >= depth
    OBVIOUS
  <2> DEFINE T == {m \in Nat : m < depth => \E t \in tasks : layer[t] + m = depth /\ longest[t] >= m + 1}
  <2>1. 0 \in T
    <3>1. PICK t \in tasks : layer[t] = depth
      BY <1>1
    <3>2. longest[t] \in Nat /\ longest[t] >= 1
      BY <1>7
    <3> QED BY <1>1, <3>1, <3>2
  <2>2. ASSUME NEW m \in Nat, m \in T PROVE m + 1 \in T
    <3> SUFFICES ASSUME m + 1 < depth
                 PROVE  \E t \in tasks : layer[t] + (m + 1) = depth /\ longest[t] >= (m + 1) + 1
      OBVIOUS
    <3>1. PICK t \in tasks : layer[t] + m = depth /\ longest[t] >= m + 1
      BY <1>1, <2>2
    <3>2. PICK d \in tasks : d \in graph.deps[t] /\ layer[t] = layer[d] + 1
      BY <1>1, <3>1
    <3>3. longest[t] + 1 <= longest[d]
      BY <1>7, <3>2
    <3>4. longest[t] \in Nat /\ longest[d] \in Nat /\ layer[t] \in Nat /\ layer[d] \in Nat
      BY <1>1, <1>7
    <3> QED BY <1>1, <3>1, <3>2, <3>3, <3>4
  <2>3. Nat \subseteq T
    <3> HIDE DEF T
    <3> QED BY <2>1, <2>2, NatSetInduction
  <2>4. depth - 1 \in T /\ depth - 1 < depth
    BY <1>1, <2>3
  <2> QED BY <1>1, <1>7, <2>4
<1> DEFINE S == {0} \cup {longest[t] : t \in tasks}
<1>9. ASSUME NEW t \in tasks PROVE longest[t] \in 0..depth
  BY <1>1, <1>7
<1>10. S \in SUBSET (0..depth) /\ S # {} /\ (depth > 0 => \E x \in S : x >= depth) /\ CriticalLength = Max(S)
  BY <1>1, <1>6, <1>8, <1>9
<1> HIDE DEF S
<1>11. Max(S) \in 0..depth /\ \A x \in S : x <= Max(S)
  BY <1>1, <1>10, MaxIs
<1>12. CASE depth = 0
  BY <1>10, <1>11, <1>12
<1>13. CASE depth > 0
  <2>1. PICK x \in S : x >= depth
    BY <1>10, <1>13
  <2>2. x \in Nat /\ x <= Max(S) /\ Max(S) <= depth /\ Max(S) \in Nat
    BY <1>1, <1>10, <1>11
  <2> QED BY <1>1, <1>10, <2>1, <2>2
<1> QED BY <1>1, <1>12, <1>13

\* Every unfinished dependency of a planned task is in an earlier layer, every task is in
\* the earliest layer it can be in, and critical_path's answer is the number of layers.
THEOREM PlanLayers == PlanSpec => [](LayersFit /\ EarliestLayer)
<1>1. LoopInv => LayersFit /\ EarliestLayer
  BY CriticalIs DEF LoopInv, LayersFit, CriticalIsDepth
<1> QED BY <1>1, PlanLoopInv, PTL

\* A cycle is never planned, so that critical_path's recursion ends.
THEOREM PlanAcyclic == PlanSpec => []PlannedHasNoCycle
<1>1. LoopInv => PlannedHasNoCycle
  BY DEF LoopInv, PlannedHasNoCycle, NoCycleIn
<1> QED BY <1>1, PlanLoopInv, PTL

\* Planning fails only when some tasks wait for each other or for something that
\* is not planned and not done.
THEOREM PlanFailsOnlyIfStuck == PlanSpec => []FailsOnlyIfStuck
<1>1. LoopInv => FailsOnlyIfStuck
  <2> SUFFICES ASSUME LoopInv, plan = "cyclic"
               PROVE  \E U \in (SUBSET Pending(graph)) \ {{}} : \A t \in U :
                        \E d \in graph.deps[t] :
                          d \in U \/ (d \notin Pending(graph) /\ ~ Satisfied(graph, d))
    BY DEF FailsOnlyIfStuck
  <2> DEFINE U == Pending(graph) \ Placed
  <2>1. U # {} /\ U \in SUBSET Pending(graph) /\ \A t \in U : Blockers(t) # {}
    BY DEF LoopInv
  <2>2. \A t \in U : \E d \in graph.deps[t] :
          d \in U \/ (d \notin Pending(graph) /\ ~ Satisfied(graph, d))
    BY <2>1 DEF Blockers
  <2> QED BY <2>1, <2>2
<1> QED BY <1>1, PlanLoopInv, PTL

-----------------------------------------------------------------------------
(* Execution *)

Executing == pc \notin {"idle", "planning"}
Working == pc \in {"chunk", "prepare", "create", "process", "merged"}

\* The tasks of the layer that are taken up and not settled.
Active == eligible \cup chunk \cup prepared \cup ({task} \ {NoTask})

\* The tasks of the plan that this execution has still to settle.
Left == Active \cup {t \in Placed : layer[t] > cur \/ (pc = "layer" /\ layer[t] = cur)}

-----------------------------------------------------------------------------
\* The inductive invariant, part by part: the plan in force ...
PlanPart ==
  /\ pc = "planning" => LoopInv
  /\ pc # "planning" => queue = {}
  /\ ~ Executing => plan_deps = [t \in Ids |-> {}] /\ cur = 0
  /\ pc = "starting" => cur = 0
  /\ pc = "layer" => cur \in 1..(depth + 1)
  /\ Working => cur \in 1..depth
  /\ Executing => \A t \in Placed :
       t \in TaskIds /\ graph.status[t] \notin {"absent", "cancelled"} /\ layer[t] \in 1..depth

\* ... where the tasks of the layer are, each in one place ...
WorkPart ==
  /\ \A t \in Active : t \in Placed /\ layer[t] = cur
  /\ eligible \cap chunk = {} /\ eligible \cap prepared = {} /\ chunk \cap prepared = {}
  /\ task \notin eligible \cup chunk \cup prepared
  /\ task # NoTask <=> pc \in {"create", "merged"}
  /\ ~ Working => eligible = {} /\ chunk = {} /\ prepared = {}
  /\ pc = "chunk" => chunk = {} /\ prepared = {}
  /\ pc \in {"process", "merged"} => chunk = {}
  /\ \A t \in eligible \cup chunk : graph.status[t] # "done"
  /\ \A t \in prepared \cup ({task} \ {NoTask}) : graph.status[t] = "in_progress"

\* ... what they may build on ...
ReadyPart ==
  /\ DoneMeansMerged
  /\ pc = "merged" => task \in merged
  /\ \A t \in Active : \A d \in plan_deps[t] \cap Placed : graph.status[d] = "done"

\* ... what the execution state says ...
FilePart ==
  /\ Executing /\ pc # "starting" =>
       /\ exec_disk.status = "running" /\ exec_state.status = "running"
       /\ exec_state.cancel_requested = FALSE
       /\ exec_disk.cancel_requested => asked
  /\ stop # NoStop => stop.status = "running"
  /\ NoUnrequestedCancel

\* ... and whose task is in progress.
ProgressPart ==
  /\ NoOrphanInProgress
  /\ Executing => \A t \in TaskIds : graph.status[t] = "in_progress" => t \in Left

\* An invariant on top of it: every task of the plan is still to be settled, or is
\* counted at most once.
CountPart ==
  /\ Executing => tasks_completed + tasks_failed + Cardinality(Left) <= Cardinality(Placed)
  /\ ~ Executing => tasks_completed = 0 /\ tasks_failed = 0

SchedInv ==
  SchedulerTypeOK /\ PlanPart /\ WorkPart /\ ReadyPart /\ FilePart /\ ProgressPart

-----------------------------------------------------------------------------
LEMMA StatusesAre ==
  {"todo", "in_progress", "done", "blocked", "failed", "needs_resolution"} \subseteq TaskStatuses
  BY DEF TaskStatuses

\* What WithStatus does to the board.
LEMMA WithStatusSets ==
  ASSUME graph \in TaskGraphs, NEW S, NEW s \in TaskStatuses
  PROVE  /\ WithStatus(S, s) \in TaskGraphs
         /\ \A i \in Ids : WithStatus(S, s).status[i] = IF i \in S THEN s ELSE graph.status[i]
         /\ WithStatus(S, s).deps = graph.deps
  BY DEF WithStatus, TaskGraphs

\* What new tasks do to the board.
LEMMA NewTasksSet ==
  ASSUME graph \in TaskGraphs, NEW t \in Ids, NEW new \in SUBSET Offers
  PROVE  /\ WithTasks(t, new) \in TaskGraphs
         /\ WithTasks(t, new).status[t] = "blocked"
         /\ \A i \in Ids \ {t} :
              \/ WithTasks(t, new).status[i] = graph.status[i]
              \/ graph.status[i] = "absent" /\ WithTasks(t, new).status[i] = "todo"
<1> DEFINE names == {n.id : n \in new}
           w == WithTasks(t, new)
           more(i) == UNION {n.depends_on : n \in {m \in new : m.id = i}}
           own(i) == IF i = t THEN names ELSE {}
<1>1. \A n \in new : n.id \in Ids /\ n.depends_on \subseteq Ids
  BY TopologyAssumption, SchedulerAssumption DEF TopologyAssumption, SchedulerAssumption
<1>2. names \subseteq Ids
  BY <1>1
<1>3. \A i \in Ids : more(i) \subseteq Ids
  BY <1>1
<1>4. /\ w.status = [i \in Ids |-> IF i = t THEN "blocked"
                                   ELSE IF i \in names /\ graph.status[i] = "absent" THEN "todo"
                                   ELSE graph.status[i]]
      /\ w.deps = [i \in Ids |-> graph.deps[i] \cup more(i) \cup own(i)]
      /\ w = [status |-> w.status, deps |-> w.deps]
  BY DEF WithTasks
<1>5. w.deps \in [Ids -> SUBSET Ids]
  <2>1. \A i \in Ids : more(i) \subseteq Ids /\ own(i) \subseteq Ids /\ graph.deps[i] \subseteq Ids
    BY <1>2, <1>3 DEF TaskGraphs
  <2> HIDE DEF more, own, w
  <2> QED BY <2>1, <1>4
<1> HIDE DEF w, names, more, own
<1>6. w.status \in [Ids -> TaskStatuses \cup {"absent"}]
  BY <1>4, StatusesAre DEF TaskGraphs
<1>7. w \in TaskGraphs
  BY <1>4, <1>5, <1>6 DEF TaskGraphs
<1>8. \A i \in Ids : w.status[i] = IF i = t THEN "blocked"
                                   ELSE IF i \in names /\ graph.status[i] = "absent" THEN "todo"
                                   ELSE graph.status[i]
  BY <1>4
<1> QED BY <1>7, <1>8 DEF w

-----------------------------------------------------------------------------
(***************************************************************************)
(* What each step does to the board.                                       *)
(***************************************************************************)
LEMMA FailedAgentSets ==
  ASSUME graph \in TaskGraphs, NEW t \in Ids, AgentFails(t)
  PROVE  /\ graph' \in TaskGraphs
         /\ graph'.status[t] \in {"todo", "failed", "blocked"}
         /\ \A i \in Ids \ {t} : \/ graph'.status[i] = graph.status[i]
                                 \/ graph.status[i] = "absent" /\ graph'.status[i] = "todo"
<1>1. PICK d \in Decisions(t) :
        \/ d[1] = "retry" /\ graph' = WithStatus({t}, "todo")
        \/ d[1] = "escalate" /\ graph' = WithStatus({t}, "failed")
        \/ \E new \in SUBSET Offers : graph' = WithTasks(t, new)
  BY DEF AgentFails
<1>2. CASE graph' = WithStatus({t}, "todo")
  BY <1>2, WithStatusSets, StatusesAre
<1>3. CASE graph' = WithStatus({t}, "failed")
  BY <1>3, WithStatusSets, StatusesAre
<1>4. CASE \E new \in SUBSET Offers : graph' = WithTasks(t, new)
  BY <1>4, NewTasksSet
<1> QED BY <1>1, <1>2, <1>3, <1>4

\* No step takes a node away, or cancels it.
LEMMA BoardKeeps ==
  ASSUME SchedulerTypeOK, [Next]_vars
  PROVE  /\ graph' \in TaskGraphs
         /\ \A i \in Ids : graph.status[i] \notin {"absent", "cancelled"}
                         => graph'.status[i] \notin {"absent", "cancelled"}
<1> DEFINE Kept == /\ graph' \in TaskGraphs
                   /\ \A i \in Ids : graph.status[i] \notin {"absent", "cancelled"}
                                   => graph'.status[i] \notin {"absent", "cancelled"}
<1> SUFFICES Kept
  OBVIOUS
<1>0. graph \in TaskGraphs
  BY DEF SchedulerTypeOK, PlanTypeOK
<1>1. ASSUME NEW S, NEW s \in {"todo", "in_progress", "done", "blocked", "failed",
                                "needs_resolution"},
             graph' = WithStatus(S, s)
      PROVE  Kept
  BY <1>0, <1>1, WithStatusSets, StatusesAre
<1>2. ASSUME NEW t \in Ids, AgentFails(t)
      PROVE  Kept
  BY <1>0, <1>2, FailedAgentSets
<1>3. CASE UNCHANGED graph
  BY <1>0, <1>3
<1> HIDE DEF Kept
<1>4. CASE Cancelled \/ BeginLayer \/ CreateWorktree \/ MarkDone
  <2>1. Cancelled => \E S : graph' = WithStatus(S, "todo")
    BY DEF Cancelled
  <2>2. BeginLayer => \E S : graph' = WithStatus(S, "blocked")
    BY DEF BeginLayer
  <2>3. CreateWorktree => graph' = graph \/ graph' = WithStatus({task}, "failed")
    BY DEF CreateWorktree
  <2>4. MarkDone => graph' = WithStatus({task}, "done")
    BY DEF MarkDone
  <2> QED BY <1>1, <1>3, <1>4, <2>1, <2>2, <2>3, <2>4
<1>5. ASSUME NEW t \in Ids, MarkInProgress(t) \/ TaskFails(t) \/ MergeFails(t)
      PROVE  Kept
  <2>1. graph' \in {WithStatus({t}, "in_progress"), WithStatus({t}, "failed"),
                    WithStatus({t}, "needs_resolution")}
    BY <1>5 DEF MarkInProgress, TaskFails, MergeFails
  <2> QED BY <1>1, <2>1
<1>6. Execute \/ PlanLayer \/ PlanEnds \/ BeginRunning \/ TakeChunk \/ Spawn \/ EndChunk
      \/ EndLayer \/ Complete \/ Crash \/ StopLoads \/ StopSaves \/ UNCHANGED vars
      => UNCHANGED graph
  BY DEF Execute, PlanLayer, PlanEnds, BeginRunning, TakeChunk, Spawn, EndChunk, EndLayer,
         Complete, Crash, StopLoads, StopSaves, vars
<1>7. ASSUME NEW t \in Ids, MergeTask(t)
      PROVE  UNCHANGED graph
  BY <1>7 DEF MergeTask
<1> QED BY <1>2, <1>3, <1>4, <1>5, <1>6, <1>7 DEF Next, SchedulerStep

-----------------------------------------------------------------------------
(***************************************************************************)
(* Every step keeps every part of the invariant.                           *)
(***************************************************************************)
\* While the layers are worked on, the plan stays.
LEMMA PlanStays ==
  ASSUME UNCHANGED plans, queue = {}, PlanTypeOK, graph' \in TaskGraphs
  PROVE  /\ PlanTypeOK' /\ Placed' = Placed /\ layer' = layer /\ depth' = depth
         /\ plan_deps' = plan_deps /\ queue' = {} /\ plan' = plan
  BY DEF plans, planVars, PlanTypeOK, Placed, Pending

\* The plan in force is a sound one, and the scheduler is at one of its layers.
LEMMA PlanKept ==
  ASSUME SchedInv, [Next]_vars
  PROVE  PlanTypeOK' /\ PlanPart'
<1>0. /\ PlanTypeOK /\ PlanPart /\ graph' \in TaskGraphs /\ cur \in 0..(depth + 1) /\ depth \in Nat
      /\ layer \in [Ids -> Nat] /\ Cardinality(Ids) \in Nat /\ Placed \subseteq Ids
      /\ \A i \in Ids : graph.status[i] \notin {"absent", "cancelled"}
                      => graph'.status[i] \notin {"absent", "cancelled"}
  BY BoardKeeps, NamesAreFinite DEF SchedInv, SchedulerTypeOK, PlanTypeOK, Placed
<1>1. CASE Execute
  <2>1. LoopInv'
    BY <1>0, <1>1, LoopStarts DEF Execute, PlanTypeOK
  <2> QED BY <2>1, <1>0, <1>1 DEF Execute, Goto, LoopInv, PlanPart, Executing, Working
<1>2. CASE PlanLayer
  <2>1. LoopInv'
    BY <1>0, <1>2, LoopTurns DEF PlanLayer, PlanPart
  <2> QED BY <2>1, <1>0, <1>2 DEF PlanLayer, cursor, LoopInv, PlanPart, Executing, Working
<1>3. CASE PlanEnds
  <2>1. LoopInv' /\ LoopInv /\ queue = {} /\ graph' = graph /\ UNCHANGED <<layer, depth, queue>>
    BY <1>0, <1>3, LoopEnds DEF PlanEnds, PlanPart, EndLayers
  <2>2. \A t \in Placed : /\ t \in TaskIds /\ graph.status[t] \notin {"absent", "cancelled"}
                          /\ layer[t] \in 1..depth
    BY <2>1, <1>0 DEF LoopInv, Pending, Placed
  <2>3. Placed' = Placed
    BY <2>1 DEF Placed
  <2> QED BY <2>1, <2>2, <2>3, <1>0, <1>3 DEF PlanEnds, Goto, LoopInv, PlanPart, Executing, Working
<1>4. CASE Cancelled \/ Complete \/ Crash \/ (EndLayer /\ Leave)
  <2>1. Leave
    BY <1>4 DEF Cancelled, Complete, Crash, EndLayer
  <2>2. PlanTypeOK'
    BY <2>1, <1>0 DEF Leave, PlanTypeOK
  <2> QED BY <2>1, <2>2 DEF Leave, Goto, PlanPart, Executing, Working
<1>6. CASE Working /\ UNCHANGED <<plans, cur>> /\ Working'
  <2>1. queue = {} /\ pc # "planning" /\ Executing
    BY <1>0, <1>6 DEF PlanPart, Working, Executing
  <2> QED BY <2>1, <1>0, <1>6, PlanStays DEF PlanPart, Executing, Working
<1>7. CASE BeginRunning
  <2>1. queue = {} /\ pc = "starting" /\ pc' = "layer" /\ cur' = 1 /\ UNCHANGED plans
    BY <1>0, <1>7 DEF BeginRunning, PlanPart, Goto
  <2> QED BY <2>1, <1>0, PlanStays DEF PlanPart, Executing, Working
<1>8. CASE BeginLayer
  <2>1. /\ queue = {} /\ pc = "layer" /\ pc' = "chunk" /\ cur' = cur /\ UNCHANGED plans
        /\ cur <= depth
    BY <1>0, <1>8 DEF BeginLayer, PlanPart, Goto
  <2> QED BY <2>1, <1>0, PlanStays DEF PlanPart, Executing, Working
<1>9. CASE EndLayer /\ ~ Leave
  <2>1. queue = {} /\ pc = "chunk" /\ pc' = "layer" /\ cur' = cur + 1 /\ UNCHANGED plans
    BY <1>0, <1>9 DEF EndLayer, PlanPart, Goto
  <2> QED BY <2>1, <1>0, PlanStays DEF PlanPart, Executing, Working
<1>10. CASE UNCHANGED <<graph, plans, pc, cur>>
  BY <1>0, <1>10 DEF plans, planVars, PlanTypeOK, PlanPart, Executing, Working, LoopInv, Placed,
     Pending, LayersInOrder, EarliestLayer, NoCycleIn, Blockers, Satisfied
<1>11. TakeChunk \/ CreateWorktree \/ Spawn \/ MarkDone \/ EndChunk
       => Working /\ UNCHANGED <<plans, cur>> /\ Working'
  BY DEF TakeChunk, CreateWorktree, Spawn, MarkDone, EndChunk, Working, Goto, plans
<1>12. ASSUME NEW t \in Ids,
              MarkInProgress(t) \/ TaskFails(t) \/ MergeFails(t) \/ MergeTask(t) \/ AgentFails(t)
       PROVE  Working /\ UNCHANGED <<plans, cur>> /\ Working'
  BY <1>12 DEF MarkInProgress, TaskFails, MergeFails, MergeTask, AgentFails, Take, Working, Goto
<1>13. StopLoads \/ StopSaves \/ UNCHANGED vars => UNCHANGED <<graph, plans, pc, cur>>
  BY DEF StopLoads, StopSaves, vars, cursor, plans
<1> QED
  BY <1>1, <1>2, <1>3, <1>4, <1>6, <1>7, <1>8, <1>9, <1>10, <1>11, <1>12, <1>13
  DEF Next, SchedulerStep

\* A decision counts as a replan only when the limit allows it.
LEMMA DecisionsAre ==
  ASSUME NEW t, NEW d \in Decisions(t), replan_count \in 0..MaxReplans, MaxReplans \in Nat
  PROVE  replan_count + d[2] \in 0..MaxReplans
<1>1. CASE LimitReached
  BY <1>1 DEF Decisions
<1>2. CASE ~ LimitReached
  <2>1. d[2] \in {0, 1}
    BY <1>2 DEF Decisions
  <2> QED BY <2>1, <1>2 DEF LimitReached
<1> QED BY <1>1, <1>2

\* Every step keeps the types, and the limits on replans and on commands.
LEMMA TypesKept ==
  ASSUME SchedInv, [Next]_vars
  PROVE  SchedulerTypeOK'
<1>0. /\ SchedulerTypeOK /\ PlanTypeOK /\ PlanTypeOK' /\ PlanPart' /\ PlanPart
      /\ \A t \in Placed : Executing => t \in TaskIds
      /\ depth \in Nat /\ cur \in Nat /\ layer \in [Ids -> Nat] /\ TaskIds \subseteq Ids
      /\ MaxExecutions \in Nat /\ MaxStops \in Nat /\ MaxCrashes \in Nat /\ MaxReplans \in Nat
      /\ IdleState \in ExecStates /\ IsFiniteSet(Ids)
  BY PlanKept, TopologyAssumption, SchedulerAssumption
  DEF SchedInv, SchedulerTypeOK, PlanTypeOK, PlanPart, TopologyAssumption, SchedulerAssumption,
      IdleState, ExecStates
<1> DEFINE Place == /\ pc \in Labels /\ plan_deps \in [Ids -> SUBSET Ids]
                    /\ cur \in 0..(depth + 1)
           Work == /\ eligible \subseteq TaskIds /\ chunk \subseteq TaskIds
                   /\ prepared \subseteq TaskIds /\ task \in TaskIds \cup {NoTask}
           Count == /\ tasks_completed \in Nat /\ tasks_failed \in Nat
                    /\ replan_count \in 0..MaxReplans /\ retries \in [Ids -> Nat]
           Files == /\ exec_state \in ExecStates /\ exec_disk \in ExecStates
                    /\ stop \in ExecStates \cup {NoStop} /\ asked \in BOOLEAN
           Done == /\ worktrees \subseteq TaskIds /\ merged \subseteq Ids
                   /\ executions \in 0..MaxExecutions /\ stops \in 0..MaxStops
                   /\ crashes \in 0..MaxCrashes
<1>1. Place /\ Work /\ Count /\ Files /\ Done
  BY <1>0 DEF SchedulerTypeOK
<1>2. SUFFICES Place' /\ Work' /\ Count' /\ Files' /\ Done'
  BY <1>0 DEF SchedulerTypeOK
<1> USE DEF Goto
<1>a. pc' \in Labels => cur' \in 0..(depth' + 1)
  <2>1. depth' \in Nat
    BY <1>0 DEF PlanTypeOK
  <2> QED BY <2>1, <1>0 DEF PlanPart, Executing, Working, Labels
<1>3. CASE Execute \/ PlanLayer \/ PlanEnds
  <2>1. PlanEnds => graph.deps \in [Ids -> SUBSET Ids]
    BY <1>0 DEF PlanTypeOK, TaskGraphs
  <2>2. plan_deps' \in [Ids -> SUBSET Ids]
    BY <2>1, <1>1, <1>3 DEF Execute, PlanLayer, PlanEnds
  <2>3. pc' \in Labels
    BY <1>1, <1>3 DEF Execute, PlanLayer, PlanEnds, Labels, cursor
  <2> QED BY <2>2, <2>3, <1>a, <1>0, <1>1, <1>3
          DEF Execute, PlanLayer, PlanEnds, cursor, counters, others, commands
<1>4. CASE Cancelled \/ Complete \/ Crash \/ (EndLayer /\ Leave)
  <2>1. Leave
    BY <1>4 DEF Cancelled, Complete, Crash, EndLayer
  <2>2. Place' /\ Work' /\ Count'
    BY <2>1, <1>0 DEF Leave, Labels
  <2>3. Files'
    BY <1>0, <1>1, <1>4 DEF Cancelled, Complete, Crash, EndLayer, ExecStates
  <2>4. Done'
    BY <1>0, <1>1, <1>4 DEF Cancelled, Complete, Crash, EndLayer, commands
  <2> QED BY <2>2, <2>3, <2>4
<1>5. CASE \/ BeginRunning \/ TakeChunk \/ CreateWorktree \/ Spawn \/ MarkDone \/ EndChunk
           \/ (EndLayer /\ ~ Leave) \/ StopLoads \/ StopSaves \/ UNCHANGED vars
  <2>1. Place'
    <3>1. pc' \in Labels /\ plan_deps' = plan_deps
      BY <1>1, <1>5 DEF BeginRunning, TakeChunk, CreateWorktree, Spawn, MarkDone, EndChunk,
                        EndLayer, StopLoads, StopSaves, vars, Labels, plans, cursor
    <3> QED BY <1>1, <3>1, <1>a
  <2> HIDE DEF Place
  <2>2. CASE BeginRunning
    BY <2>1, <2>2, <1>0, <1>1 DEF BeginRunning, commands, counters, ExecStates
  <2>3. CASE TakeChunk \/ EndChunk
    BY <2>1, <2>3, <1>0, <1>1 DEF TakeChunk, EndChunk, others, commands, counters
  <2>4. CASE CreateWorktree \/ MarkDone
    <3>1. CreateWorktree => task \in TaskIds
      BY <1>1 DEF CreateWorktree, SchedInv, WorkPart
    <3>2. Work' /\ Count'
      BY <2>4, <3>1, <1>1 DEF CreateWorktree, MarkDone, others
    <3>3. Files' /\ Done'
      BY <2>4, <3>1, <1>1 DEF CreateWorktree, MarkDone, others, commands
    <3> QED BY <2>1, <3>2, <3>3
  <2>5. CASE Spawn \/ (EndLayer /\ ~ Leave)
    BY <2>1, <2>5, <1>0, <1>1 DEF Spawn, EndLayer, counters, commands
  <2>6. CASE StopLoads
    <3>1. Files'
      BY <2>6, <1>1 DEF StopLoads
    <3>2. Work' /\ Count'
      BY <2>6, <1>1 DEF StopLoads, counters, cursor
    <3>3. Done'
      BY <2>6, <1>0, <1>1 DEF StopLoads
    <3> QED BY <2>1, <3>1, <3>2, <3>3
  <2>7. CASE StopSaves
    <3>1. stop \in ExecStates /\ exec_disk' = [stop EXCEPT !.cancel_requested = TRUE]
      BY <2>7, <1>1 DEF StopSaves
    <3>2. exec_disk' \in ExecStates
      BY <3>1 DEF ExecStates
    <3> QED BY <2>1, <2>7, <3>2, <1>0, <1>1 DEF StopSaves, counters, cursor, commands
  <2>8. CASE UNCHANGED vars
    BY <2>1, <2>8, <1>0, <1>1 DEF vars, counters, cursor, commands
  <2> QED BY <1>5, <2>2, <2>3, <2>4, <2>5, <2>6, <2>7, <2>8
<1>6. CASE BeginLayer
  <2>1. LayerTasks \subseteq TaskIds
    BY <1>0, <1>6 DEF BeginLayer, LayerTasks, PlanPart, Placed, Executing
  <2>2. IsFiniteSet({t \in LayerTasks : Unmet(t)})
    BY <2>1, <1>0, NamesAreFinite
  <2>3. Count'
    BY <2>2, <1>0, <1>1, <1>6, FS_CardinalityType DEF BeginLayer
  <2> QED BY <2>1, <2>3, <1>0, <1>1, <1>6 DEF BeginLayer, Labels, plans, planVars, commands
<1>7. ASSUME NEW t \in Ids, MarkInProgress(t) \/ TaskFails(t) \/ MergeFails(t) \/ MergeTask(t)
      PROVE  Place' /\ Work' /\ Count' /\ Files' /\ Done'
  <2>1. Place'
    BY <1>1, <1>7 DEF MarkInProgress, TaskFails, MergeFails, MergeTask, Take, plans, planVars, Labels
  <2> QED BY <2>1, <1>0, <1>1, <1>7 DEF MarkInProgress, TaskFails, MergeFails, MergeTask, Take, Cleanup,
       plans, planVars, Labels, others, commands, counters
<1>8. ASSUME NEW t \in Ids, AgentFails(t)
      PROVE  Place' /\ Work' /\ Count' /\ Files' /\ Done'
  <2>1. PICK d \in Decisions(t) :
          /\ replan_count' = replan_count + d[2]
          /\ \/ retries' = [retries EXCEPT ![t] = @ + 1] /\ UNCHANGED tasks_failed
             \/ tasks_failed' = tasks_failed + 1 /\ UNCHANGED retries
             \/ UNCHANGED <<retries, tasks_failed>>
    BY <1>8 DEF AgentFails
  <2>2. Count'
    BY <2>1, <1>0, <1>1, <1>8, DecisionsAre DEF AgentFails
  <2> QED BY <2>2, <1>0, <1>1, <1>8 DEF AgentFails, Take, Cleanup, plans, planVars, commands
<1> QED BY <1>3, <1>4, <1>5, <1>6, <1>7, <1>8 DEF Next, SchedulerStep

\* Every task that is taken up stays in one place.
LEMMA WorkKept ==
  ASSUME SchedInv, [Next]_vars
  PROVE  WorkPart'
<1>0. /\ SchedulerTypeOK /\ PlanPart /\ WorkPart /\ graph \in TaskGraphs /\ NoTask \notin Ids
      /\ TaskIds \subseteq Ids /\ cur \in Nat /\ layer \in [Ids -> Nat]
      /\ eligible \subseteq Ids /\ chunk \subseteq Ids /\ prepared \subseteq Ids
      /\ task \in Ids \cup {NoTask} /\ Active \subseteq Ids
  BY TopologyAssumption, SchedulerAssumption
  DEF SchedInv, SchedulerTypeOK, PlanTypeOK, TopologyAssumption, SchedulerAssumption, Active
<1> USE DEF Goto
<1>1. CASE Execute \/ PlanLayer \/ PlanEnds \/ BeginRunning
  <2>1. /\ eligible' = {} /\ chunk' = {} /\ prepared' = {} /\ task' = NoTask
        /\ pc' \in {"planning", "idle", "starting", "layer"}
    BY <1>0, <1>1 DEF Execute, PlanLayer, PlanEnds, BeginRunning, WorkPart, Working, cursor
  <2> QED BY <2>1 DEF WorkPart, Working, Active
<1>2. CASE Cancelled \/ Complete \/ Crash \/ (EndLayer /\ Leave)
  <2>1. Leave
    BY <1>2 DEF Cancelled, Complete, Crash, EndLayer
  <2> QED BY <2>1 DEF Leave, WorkPart, Working, Active
<1>3. CASE EndLayer /\ ~ Leave
  <2>1. /\ eligible' = {} /\ chunk' = {} /\ prepared' = {} /\ task' = NoTask /\ pc' = "layer"
    BY <1>0, <1>3 DEF EndLayer, WorkPart, Working
  <2> QED BY <2>1 DEF WorkPart, Working, Active
<1>4. CASE BeginLayer
  <2>1. LayerTasks \subseteq Placed /\ Placed' = Placed /\ cur' = cur /\ layer' = layer
    BY <1>0, <1>4 DEF BeginLayer, LayerTasks, PlanPart, Placed, plans, planVars
  <2>2. /\ eligible' = LayerTasks \ {t \in LayerTasks : Unmet(t)} /\ pc' = "chunk"
        /\ chunk' = {} /\ prepared' = {} /\ task' = NoTask
    BY <1>0, <1>4 DEF BeginLayer, WorkPart, Working
  <2>3. \A t \in eligible' : layer[t] = cur /\ graph.status[t] # "done" /\ t \in Ids
    BY <2>1, <2>2 DEF LayerTasks, Placed
  <2>4. \A t \in eligible' : graph'.status[t] = graph.status[t]
    <3>1. graph' = WithStatus({t \in LayerTasks : Unmet(t)}, "blocked")
      BY <1>4 DEF BeginLayer
    <3> QED BY <3>1, <2>2, <2>3, <1>0, WithStatusSets, StatusesAre
  <2> QED BY <1>0, <2>1, <2>2, <2>3, <2>4 DEF WorkPart, Working, Active
<1>5. CASE TakeChunk \/ Spawn \/ EndChunk \/ UNCHANGED <<graph, plans, cursor>>
  <2>1. UNCHANGED <<graph, cur, layer>> /\ Placed' = Placed
    BY <1>5 DEF TakeChunk, Spawn, EndChunk, plans, planVars, cursor, Placed
  <2>2. CASE TakeChunk
    <3>1. PICK C \in SUBSET eligible : chunk' = C /\ eligible' = eligible \ C
      BY <2>2 DEF TakeChunk
    <3> QED BY <1>0, <2>1, <2>2, <3>1 DEF TakeChunk, WorkPart, Working, Active
  <2>3. CASE Spawn
    BY <1>0, <2>1, <2>3 DEF Spawn, WorkPart, Working, Active
  <2>4. CASE EndChunk
    BY <1>0, <2>1, <2>4 DEF EndChunk, WorkPart, Working, Active
  <2>5. CASE UNCHANGED <<graph, plans, cursor>>
    BY <1>0, <2>1, <2>5 DEF cursor, WorkPart, Working, Active
  <2> QED BY <1>5, <2>2, <2>3, <2>4, <2>5
<1>6. CASE CreateWorktree
  <2>1. UNCHANGED <<cur, layer, eligible, chunk>> /\ Placed' = Placed /\ task \in Ids
    BY <1>0, <1>6 DEF CreateWorktree, plans, planVars, Placed, WorkPart
  <2>2. CASE prepared' = prepared \cup {task} /\ graph' = graph
    BY <1>0, <1>6, <2>1, <2>2 DEF CreateWorktree, WorkPart, Working, Active
  <2>3. CASE prepared' = prepared /\ graph' = WithStatus({task}, "failed")
    <3>1. \A i \in Ids \ {task} : graph'.status[i] = graph.status[i]
      BY <1>0, <2>3, WithStatusSets, StatusesAre
    <3> QED BY <1>0, <1>6, <2>1, <2>3, <3>1 DEF CreateWorktree, WorkPart, Working, Active
  <2> QED BY <1>6, <2>2, <2>3 DEF CreateWorktree
<1>7. CASE MarkDone
  <2>1. UNCHANGED <<cur, layer, eligible, chunk, prepared>> /\ Placed' = Placed /\ task \in Ids
    BY <1>0, <1>7 DEF MarkDone, plans, planVars, Placed, WorkPart
  <2>2. \A i \in Ids \ {task} : graph'.status[i] = graph.status[i]
    BY <1>0, <1>7, WithStatusSets, StatusesAre DEF MarkDone
  <2> QED BY <1>0, <1>7, <2>1, <2>2 DEF MarkDone, WorkPart, Working, Active
<1>8. ASSUME NEW t \in Ids, MarkInProgress(t)
      PROVE  WorkPart'
  <2>1. UNCHANGED <<cur, layer, eligible, prepared>> /\ Placed' = Placed
    BY <1>8 DEF MarkInProgress, plans, planVars, Placed
  <2>2. /\ graph'.status[t] = "in_progress"
        /\ \A i \in Ids \ {t} : graph'.status[i] = graph.status[i]
    BY <1>0, <1>8, WithStatusSets, StatusesAre DEF MarkInProgress
  <2>3. /\ pc = "prepare" /\ t \in chunk /\ task = NoTask
        /\ chunk' = chunk \ {t} /\ task' = t /\ pc' = "create"
    BY <1>0, <1>8 DEF MarkInProgress, WorkPart
  <2>4. /\ Active' = Active
        /\ task' \notin eligible' \cup chunk' \cup prepared'
        /\ eligible' \cap chunk' = {} /\ chunk' \cap prepared' = {}
    BY <1>0, <2>1, <2>3 DEF WorkPart, Active
  <2>5. /\ \A i \in eligible' \cup chunk' : graph'.status[i] # "done"
        /\ \A i \in prepared' \cup ({task'} \ {NoTask}) : graph'.status[i] = "in_progress"
    BY <1>0, <2>1, <2>2, <2>3 DEF WorkPart
  <2> QED BY <1>0, <2>1, <2>3, <2>4, <2>5 DEF WorkPart, Working
<1>9. ASSUME NEW t \in Ids, MergeTask(t)
      PROVE  WorkPart'
  <2>1. UNCHANGED <<graph, cur, layer, eligible, chunk>> /\ Placed' = Placed
    BY <1>9 DEF MergeTask, plans, planVars, Placed
  <2> QED BY <1>0, <1>9, <2>1 DEF MergeTask, Take, WorkPart, Working, Active
<1>10. ASSUME NEW t \in Ids, TaskFails(t) \/ MergeFails(t) \/ AgentFails(t)
       PROVE  WorkPart'
  <2>1. /\ UNCHANGED <<cur, layer, eligible, chunk, task, pc>> /\ Placed' = Placed
        /\ Take(t)
    BY <1>10 DEF TaskFails, MergeFails, AgentFails, plans, planVars, Placed, Take
  <2>2. /\ \A i \in prepared' : graph'.status[i] = graph.status[i]
        /\ \A i \in eligible : graph'.status[i] # "done"
    <3>1. CASE TaskFails(t) \/ MergeFails(t)
      <4>1. \E s \in {"failed", "needs_resolution"} : graph' = WithStatus({t}, s)
        BY <3>1 DEF TaskFails, MergeFails
      <4>2. \A i \in Ids \ {t} : graph'.status[i] = graph.status[i]
        BY <4>1, <1>0, WithStatusSets, StatusesAre
      <4> QED BY <4>2, <2>1, <1>0 DEF Take, WorkPart
    <3>2. CASE AgentFails(t)
      <4>1. \A i \in Ids \ {t} : \/ graph'.status[i] = graph.status[i]
                                 \/ graph.status[i] = "absent" /\ graph'.status[i] = "todo"
        BY <3>2, <1>0, FailedAgentSets
      <4> QED BY <4>1, <2>1, <1>0 DEF Take, WorkPart
    <3> QED BY <1>10, <3>1, <3>2
  <2> QED BY <1>0, <2>1, <2>2 DEF Take, WorkPart, Working, Active
<1>11. StopLoads \/ StopSaves \/ UNCHANGED vars => UNCHANGED <<graph, plans, cursor>>
  BY DEF StopLoads, StopSaves, vars, plans
<1> QED
  BY <1>1, <1>2, <1>3, <1>4, <1>5, <1>6, <1>7, <1>8, <1>9, <1>10, <1>11 DEF Next, SchedulerStep

\* A task that is done stays done, and only a task that is merged gets done.
LEMMA DoneStays ==
  ASSUME SchedInv, [Next]_vars
  PROVE  \A i \in Ids : /\ graph.status[i] = "done" => graph'.status[i] = "done"
                        /\ graph'.status[i] = "done" => graph.status[i] = "done" \/ i \in merged
<1> DEFINE Fine == \A i \in Ids :
             /\ graph.status[i] = "done" => graph'.status[i] = "done"
             /\ graph'.status[i] = "done" => graph.status[i] = "done" \/ i \in merged
<1> SUFFICES Fine
  OBVIOUS
<1>0. /\ WorkPart /\ ReadyPart /\ graph \in TaskGraphs /\ NoTask \notin Ids
      /\ eligible \subseteq Ids /\ chunk \subseteq Ids /\ prepared \subseteq Ids
      /\ task \in Ids \cup {NoTask}
  BY TopologyAssumption, SchedulerAssumption
  DEF SchedInv, SchedulerTypeOK, PlanTypeOK, TopologyAssumption, SchedulerAssumption
<1>1. ASSUME NEW S, NEW s \in {"todo", "in_progress", "blocked", "failed", "needs_resolution"},
             graph' = WithStatus(S, s), \A i \in S \cap Ids : graph.status[i] # "done"
      PROVE  Fine
  BY <1>0, <1>1, WithStatusSets, StatusesAre
<1>2. CASE Cancelled
  BY <1>1, <1>2 DEF Cancelled
<1>3. CASE BeginLayer
  <2>1. \A i \in {t \in LayerTasks : Unmet(t)} : graph.status[i] # "done"
    BY DEF LayerTasks
  <2> QED BY <1>1, <1>3, <2>1 DEF BeginLayer
<1>4. ASSUME NEW t \in Ids, MarkInProgress(t)
      PROVE  Fine
  BY <1>0, <1>1, <1>4 DEF MarkInProgress, WorkPart
<1>5. ASSUME NEW t \in Ids, TaskFails(t) \/ MergeFails(t)
      PROVE  Fine
  <2>1. graph.status[t] # "done"
    BY <1>0, <1>5 DEF TaskFails, MergeFails, Take, WorkPart
  <2> QED BY <1>1, <1>5, <2>1 DEF TaskFails, MergeFails
<1>6. ASSUME NEW t \in Ids, AgentFails(t)
      PROVE  Fine
  <2>1. graph.status[t] # "done"
    BY <1>0, <1>6 DEF AgentFails, Take, WorkPart
  <2> QED BY <1>0, <1>6, <2>1, FailedAgentSets
<1>7. CASE CreateWorktree
  <2>1. task \in Ids /\ graph.status[task] # "done"
    BY <1>0, <1>7 DEF CreateWorktree, WorkPart
  <2>2. graph' = graph \/ graph' = WithStatus({task}, "failed")
    BY <1>7 DEF CreateWorktree
  <2> QED BY <1>1, <2>1, <2>2
<1>8. CASE MarkDone
  <2>1. task \in Ids /\ task \in merged
    BY <1>0, <1>8 DEF MarkDone, WorkPart, ReadyPart
  <2> QED BY <1>0, <1>8, <2>1, WithStatusSets, StatusesAre DEF MarkDone
<1>9. UNCHANGED graph => Fine
  OBVIOUS
<1>10. Execute \/ PlanLayer \/ PlanEnds \/ BeginRunning \/ TakeChunk \/ Spawn \/ EndChunk
       \/ EndLayer \/ Complete \/ Crash \/ StopLoads \/ StopSaves \/ UNCHANGED vars
       => UNCHANGED graph
  BY DEF Execute, PlanLayer, PlanEnds, BeginRunning, TakeChunk, Spawn, EndChunk, EndLayer,
         Complete, Crash, StopLoads, StopSaves, vars
<1>11. ASSUME NEW t \in Ids, MergeTask(t)
       PROVE  UNCHANGED graph
  BY <1>11 DEF MergeTask
<1> HIDE DEF Fine
<1> QED BY <1>2, <1>3, <1>4, <1>5, <1>6, <1>7, <1>8, <1>9, <1>10, <1>11 DEF Next, SchedulerStep

\* A task is only taken up by BeginLayer, and the plan stays while it is.
LEMMA TakenUp ==
  ASSUME SchedInv, [Next]_vars, Working'
  PROVE  \/ BeginLayer
         \/ Working /\ Active' \subseteq Active /\ UNCHANGED <<plans, cur>>
<1>0. WorkPart /\ (pc \in {"create", "merged"} => task # NoTask)
  BY DEF SchedInv, WorkPart
<1> USE DEF Goto
<1>1. ~ (Execute \/ PlanLayer \/ PlanEnds \/ BeginRunning \/ Cancelled \/ Complete \/ Crash
         \/ EndLayer)
  BY DEF Execute, PlanLayer, PlanEnds, BeginRunning, Cancelled, Complete, Crash, EndLayer, Leave,
         Working, cursor
<1>2. CASE TakeChunk \/ Spawn \/ EndChunk
  BY <1>2 DEF TakeChunk, Spawn, EndChunk, Working, Active
<1>3. CASE CreateWorktree \/ MarkDone
  BY <1>0, <1>3 DEF CreateWorktree, MarkDone, Working, Active
<1>4. ASSUME NEW t \in Ids,
             MarkInProgress(t) \/ TaskFails(t) \/ MergeFails(t) \/ MergeTask(t) \/ AgentFails(t)
      PROVE  Working /\ Active' \subseteq Active /\ UNCHANGED <<plans, cur>>
  BY <1>4 DEF MarkInProgress, TaskFails, MergeFails, MergeTask, AgentFails, Take, Working, Active
<1>5. StopLoads \/ StopSaves \/ UNCHANGED vars
      => Working /\ Active' \subseteq Active /\ UNCHANGED <<plans, cur>>
  BY DEF StopLoads, StopSaves, vars, plans, cursor, Working, Active
<1> QED BY <1>1, <1>2, <1>3, <1>4, <1>5 DEF Next, SchedulerStep

\* What a task that is taken up builds on is done, and what is done is merged.
LEMMA ReadyKept ==
  ASSUME SchedInv, [Next]_vars
  PROVE  ReadyPart'
<1>0. /\ ReadyPart /\ PlanPart /\ WorkPart' /\ TaskIds \subseteq Ids /\ Placed \subseteq Ids
  BY WorkKept, TopologyAssumption DEF SchedInv, TopologyAssumption, Placed
<1>1. merged \subseteq merged'
  BY DEF Next, SchedulerStep, Execute, PlanLayer, PlanEnds, BeginRunning, Cancelled, BeginLayer,
         TakeChunk, CreateWorktree, Spawn, MarkDone, EndChunk, EndLayer, Complete, MarkInProgress,
         TaskFails, MergeFails, MergeTask, AgentFails, Crash, StopLoads, StopSaves, vars, others
<1>2. DoneMeansMerged'
  BY <1>0, <1>1, DoneStays DEF ReadyPart, DoneMeansMerged
<1>3. pc' = "merged" => task' \in merged'
  <2>1. pc' = "merged" => (pc = "merged" /\ UNCHANGED task) \/ \E t \in Ids : MergeTask(t)
    BY DEF Next, SchedulerStep, Execute, PlanLayer, PlanEnds, BeginRunning, Cancelled, BeginLayer,
         TakeChunk, CreateWorktree, Spawn, MarkDone, EndChunk, EndLayer, Complete, MarkInProgress,
         TaskFails, MergeFails, AgentFails, Crash, StopLoads, StopSaves, vars, others, Take, Goto,
         cursor, Leave
  <2> QED BY <2>1, <1>0, <1>1 DEF MergeTask, ReadyPart
<1>4. \A t \in Active' : \A d \in plan_deps'[t] \cap Placed' : graph'.status[d] = "done"
  <2>1. CASE ~ Working'
    <3>1. Active' = {}
      BY <1>0, <2>1 DEF WorkPart, Active, Working
    <3> QED BY <3>1
  <2>2. CASE Working' /\ ~ BeginLayer
    <3>1. Active' \subseteq Active /\ plan_deps' = plan_deps /\ Placed' = Placed
      BY <2>2, TakenUp DEF plans, planVars, Placed
    <3> QED BY <3>1, <1>0, DoneStays DEF ReadyPart
  <2>3. CASE BeginLayer
    <3>1. plan_deps' = plan_deps /\ Placed' = Placed /\ pc = "layer"
      BY <2>3 DEF BeginLayer, plans, planVars, Placed
    <3>2. Active' \subseteq {t \in LayerTasks : ~ Unmet(t)}
      BY <1>0, <2>3 DEF BeginLayer, Active, WorkPart, Working, Goto
    <3>3. \A t \in Active' : \A d \in plan_deps[t] : Satisfied(graph, d)
      BY <3>2 DEF Unmet
    <3>4. \A d \in Placed : graph.status[d] # "absent"
      BY <1>0, <3>1 DEF PlanPart, Executing
    <3> QED BY <3>1, <3>3, <3>4, <1>0, DoneStays DEF Satisfied
  <2> QED BY <2>1, <2>2, <2>3
<1> QED BY <1>2, <1>3, <1>4 DEF ReadyPart

\* While layers are worked on, both copies of the execution state say "running", and
\* a request in the saved one is a request that was made.
LEMMA FileKept ==
  ASSUME SchedInv, [Next]_vars
  PROVE  FilePart'
<1>0. /\ FilePart /\ exec_disk \in ExecStates /\ exec_state \in ExecStates
      /\ stop \in ExecStates \cup {NoStop} /\ NoStop \notin ExecStates
  BY SchedulerAssumption DEF SchedInv, SchedulerTypeOK, SchedulerAssumption
<1> USE DEF Goto
<1>1. CASE BeginRunning
  BY <1>0, <1>1 DEF BeginRunning, FilePart, NoUnrequestedCancel, Executing
<1>2. CASE Cancelled
  <2>1. asked
    BY <1>0, <1>2 DEF Cancelled, FilePart, Executing
  <2> QED BY <2>1, <1>0, <1>2 DEF Cancelled, Leave, FilePart, NoUnrequestedCancel, Executing,
             ExecStates
<1>3. CASE BeginLayer
  BY <1>0, <1>3 DEF BeginLayer, FilePart, NoUnrequestedCancel, Executing, ExecStates
<1>4. CASE Spawn
  BY <1>0, <1>4 DEF Spawn, FilePart, NoUnrequestedCancel, Executing
<1>5. CASE Complete
  BY <1>0, <1>5 DEF Complete, Leave, FilePart, NoUnrequestedCancel, Executing, ExecStates
<1>6. CASE StopLoads
  BY <1>0, <1>6 DEF StopLoads, FilePart, NoUnrequestedCancel, Executing, cursor
<1>7. CASE StopSaves
  <2>1. stop.status = "running" /\ stop \in ExecStates
    BY <1>0, <1>7 DEF StopSaves, FilePart
  <2>2. exec_disk'.status = "running" /\ stop' = NoStop /\ asked'
    BY <2>1, <1>7 DEF StopSaves, ExecStates
  <2>3. UNCHANGED <<pc, exec_state>>
    BY <1>7 DEF StopSaves, cursor
  <2> QED BY <1>0, <2>2, <2>3 DEF FilePart, NoUnrequestedCancel, Executing
<1>8. CASE UNCHANGED <<exec_disk, stop, asked>> /\ (pc' \in {"idle", "planning", "starting"}
               \/ (UNCHANGED exec_state /\ pc \notin {"idle", "planning", "starting"}))
  BY <1>0, <1>8 DEF FilePart, NoUnrequestedCancel, Executing
<1>9. Execute \/ PlanLayer \/ PlanEnds \/ Crash \/ (EndLayer /\ Leave)
      => UNCHANGED <<exec_disk, stop, asked>> /\ pc' \in {"idle", "planning", "starting"}
  BY DEF Execute, PlanLayer, PlanEnds, Crash, EndLayer, Leave, others, cursor
<1>10. TakeChunk \/ CreateWorktree \/ MarkDone \/ EndChunk \/ (EndLayer /\ ~ Leave)
       => /\ UNCHANGED <<exec_disk, stop, asked, exec_state>>
          /\ pc \notin {"idle", "planning", "starting"}
  BY DEF TakeChunk, CreateWorktree, MarkDone, EndChunk, EndLayer, others
<1>11. ASSUME NEW t \in Ids,
              MarkInProgress(t) \/ TaskFails(t) \/ MergeFails(t) \/ MergeTask(t) \/ AgentFails(t)
       PROVE  /\ UNCHANGED <<exec_disk, stop, asked, exec_state>>
              /\ pc \notin {"idle", "planning", "starting"}
  BY <1>11 DEF MarkInProgress, TaskFails, MergeFails, MergeTask, AgentFails, Take, others
<1>12. CASE UNCHANGED vars
  BY <1>0, <1>12 DEF vars, cursor, FilePart, NoUnrequestedCancel, Executing
<1> QED
  BY <1>1, <1>2, <1>3, <1>4, <1>5, <1>6, <1>7, <1>8, <1>9, <1>10, <1>11, <1>12
  DEF Next, SchedulerStep

\* A task only gets in progress by being marked.
LEMMA ProgressStarts ==
  ASSUME SchedInv, [Next]_vars, NEW i \in Ids,
         graph'.status[i] = "in_progress", graph.status[i] # "in_progress"
  PROVE  MarkInProgress(i)
<1>0. graph \in TaskGraphs
  BY DEF SchedInv, SchedulerTypeOK, PlanTypeOK
<1>1. ASSUME NEW S, NEW s \in {"todo", "done", "blocked", "failed", "needs_resolution"}
      PROVE  graph' # WithStatus(S, s)
  BY <1>0, WithStatusSets, StatusesAre
<1>2. graph' # graph
  OBVIOUS
<1>3. ~ (Execute \/ PlanLayer \/ PlanEnds \/ BeginRunning \/ TakeChunk \/ Spawn \/ EndChunk
         \/ EndLayer \/ Complete \/ Crash \/ StopLoads \/ StopSaves \/ UNCHANGED vars)
  BY <1>2 DEF Execute, PlanLayer, PlanEnds, BeginRunning, TakeChunk, Spawn, EndChunk, EndLayer,
         Complete, Crash, StopLoads, StopSaves, vars
<1>4. ~ (Cancelled \/ BeginLayer \/ CreateWorktree \/ MarkDone)
  BY <1>1, <1>2 DEF Cancelled, BeginLayer, CreateWorktree, MarkDone
<1>5. ASSUME NEW t \in Ids
      PROVE  ~ (TaskFails(t) \/ MergeFails(t) \/ MergeTask(t))
  BY <1>1, <1>2 DEF TaskFails, MergeFails, MergeTask
<1>6. ASSUME NEW t \in Ids
      PROVE  ~ AgentFails(t)
  BY <1>0, FailedAgentSets
<1>7. PICK t \in Ids : MarkInProgress(t)
  BY <1>3, <1>4, <1>5, <1>6 DEF Next, SchedulerStep
<1>8. t = i
  BY <1>0, <1>7, WithStatusSets, StatusesAre DEF MarkInProgress
<1> QED BY <1>7, <1>8

\* A task in progress is one that the execution has still to settle.
LEMMA ProgressKept ==
  ASSUME SchedInv, [Next]_vars
  PROVE  ProgressPart'
<1>0. /\ ProgressPart /\ FilePart /\ PlanPart /\ WorkPart /\ WorkPart' /\ FilePart' /\ PlanPart'
      /\ TaskIds \subseteq Ids /\ Placed \subseteq Ids /\ cur \in Nat /\ layer \in [Ids -> Nat]
      /\ depth \in Nat /\ graph \in TaskGraphs
      /\ exec_disk \in ExecStates /\ exec_state \in ExecStates /\ stop \in ExecStates \cup {NoStop}
  BY WorkKept, FileKept, PlanKept, TopologyAssumption
  DEF SchedInv, SchedulerTypeOK, PlanTypeOK, TopologyAssumption, Placed
<1> DEFINE Held(S) == \A t \in TaskIds : graph'.status[t] = "in_progress" => t \in S
           Quiet == \A t \in TaskIds : graph'.status[t] # "in_progress"
<1> USE DEF Goto
<1>1. CASE Execute \/ PlanLayer
  <2>1. ~ Executing' /\ UNCHANGED <<graph, exec_disk>>
    BY <1>1 DEF Execute, PlanLayer, Executing, cursor, others
  <2> QED BY <2>1, <1>0 DEF ProgressPart, NoOrphanInProgress
<1>2. CASE PlanEnds
  <2>1. UNCHANGED <<graph, exec_disk, layer>> /\ Placed' = Placed /\ pc' \in {"idle", "starting"}
    BY <1>2 DEF PlanEnds, EndLayers, others, Placed
  <2>2. pc' = "starting" => Pending(graph) \subseteq Placed /\ cur' = 0
    BY <1>0, <1>2 DEF PlanEnds, EndLayers, PlanPart
  <2>3. pc' = "starting" => Held(Left')
    BY <2>1, <2>2, <1>0 DEF Pending, Left, Placed
  <2> QED BY <2>1, <2>3, <1>0 DEF ProgressPart, NoOrphanInProgress, Executing
<1>3. CASE BeginRunning
  <2>1. /\ UNCHANGED <<graph, layer>> /\ Placed' = Placed /\ pc = "starting" /\ pc' = "layer"
        /\ cur' = 1 /\ exec_disk'.status = "running"
    BY <1>3 DEF BeginRunning, plans, planVars, Placed
  <2>2. Held(Placed)
    BY <2>1, <1>0 DEF ProgressPart, Executing, Left, Active, WorkPart, Working
  <2>3. Placed' \subseteq Left'
    BY <2>1, <1>0 DEF Left, Placed
  <2> QED BY <2>1, <2>2, <2>3 DEF ProgressPart, NoOrphanInProgress
<1>4. CASE Cancelled
  <2>1. \A t \in TaskIds : graph'.status[t] # "in_progress"
    BY <1>0, <1>4, WithStatusSets, StatusesAre DEF Cancelled
  <2>2. pc' = "idle"
    BY <1>4 DEF Cancelled, Leave
  <2> QED BY <2>1, <2>2 DEF ProgressPart, NoOrphanInProgress, Executing
<1>5. CASE Complete
  <2>1. Left = {}
    BY <1>0, <1>5 DEF Complete, Left, Active, WorkPart, PlanPart, Working, Executing
  <2>2. graph' = graph /\ pc = "layer" /\ pc' = "idle"
    BY <1>5 DEF Complete, Leave
  <2> QED BY <2>1, <2>2, <1>0 DEF ProgressPart, NoOrphanInProgress, Executing
<1>6. CASE Crash \/ (EndLayer /\ Leave)
  <2>1. UNCHANGED <<graph, exec_disk>> /\ pc' = "idle"
    BY <1>6 DEF Crash, EndLayer, Leave
  <2> QED BY <2>1, <1>0 DEF ProgressPart, NoOrphanInProgress, Executing
<1>7. CASE StopLoads \/ StopSaves \/ UNCHANGED vars
  <2>1. UNCHANGED <<graph, layer, cursor>> /\ Placed' = Placed
    BY <1>7 DEF StopLoads, StopSaves, vars, plans, planVars, Placed
  <2>2. UNCHANGED exec_disk \/ exec_disk'.status = "running"
    <3>1. StopSaves => stop.status = "running" /\ stop \in ExecStates
      BY <1>0 DEF StopSaves, FilePart
    <3>2. StopSaves => exec_disk'.status = "running"
      BY <3>1 DEF StopSaves, ExecStates
    <3> QED BY <1>7, <3>2 DEF StopLoads, vars
  <2>3. NoOrphanInProgress'
    BY <2>1, <2>2, <1>0 DEF ProgressPart, NoOrphanInProgress
  <2> QED BY <2>1, <2>3, <1>0 DEF ProgressPart, Executing, Left, Active, cursor
<1>8. ASSUME Executing, pc # "starting", Executing', pc' # "starting", Held(Left')
      PROVE  ProgressPart'
  BY <1>0, <1>8 DEF ProgressPart, NoOrphanInProgress, FilePart
<1>9. CASE BeginLayer
  <2>1. /\ UNCHANGED <<layer, cur>> /\ Placed' = Placed /\ pc = "layer" /\ pc' = "chunk"
        /\ eligible' = LayerTasks \ {t \in LayerTasks : Unmet(t)}
        /\ graph' = WithStatus({t \in LayerTasks : Unmet(t)}, "blocked")
    BY <1>9 DEF BeginLayer, plans, planVars, Placed
  <2>2. \A t \in TaskIds : graph'.status[t] = "in_progress"
                         => /\ graph.status[t] = "in_progress"
                            /\ t \notin {u \in LayerTasks : Unmet(u)}
    BY <2>1, <1>0, WithStatusSets, StatusesAre
  <2>3. \A t \in TaskIds : graph'.status[t] = "in_progress"
                         => t \in Placed /\ (layer[t] > cur \/ layer[t] = cur)
    BY <2>1, <2>2, <1>0 DEF ProgressPart, Executing, Left, Active, WorkPart, Working
  <2>4. Held(Left')
    BY <2>1, <2>2, <2>3, <1>0 DEF LayerTasks, Left, Active
  <2> QED BY <2>1, <2>4, <1>8 DEF Executing
<1>10. CASE EndLayer /\ ~ Leave
  <2>1. /\ UNCHANGED <<graph, layer>> /\ Placed' = Placed /\ cur' = cur + 1 /\ pc = "chunk"
        /\ pc' = "layer" /\ eligible = {}
    BY <1>10 DEF EndLayer, plans, planVars, Placed
  <2>2. Active = {}
    BY <2>1, <1>0 DEF WorkPart, Active
  <2>3. \A t \in Left : layer[t] > cur /\ t \in Placed
    BY <2>1, <2>2 DEF Left
  <2>4. Left \subseteq Left'
    BY <2>1, <2>3, <1>0 DEF Left, Placed
  <2> QED BY <2>1, <2>4, <1>0, <1>8 DEF Executing, ProgressPart
<1>11. ASSUME Working, Working', UNCHANGED <<layer, cur>>, Placed' = Placed,
              \A t \in TaskIds : graph'.status[t] = "in_progress" =>
                t \in Active' \/ (graph.status[t] = "in_progress" /\ t \notin Active)
       PROVE  ProgressPart'
  <2>1. Held(Left')
    BY <1>0, <1>11 DEF ProgressPart, Executing, Working, Left
  <2> QED BY <2>1, <1>8, <1>11 DEF Working, Executing
<1>12. CASE TakeChunk \/ Spawn \/ EndChunk
  <2>1. Active \subseteq Active'
    BY <1>0, <1>12 DEF WorkPart, TakeChunk, Spawn, EndChunk, Active
  <2> QED BY <2>1, <1>11, <1>12
          DEF TakeChunk, Spawn, EndChunk, Working, plans, planVars, Placed
<1>13. CASE CreateWorktree
  <2>1. task \in Ids /\ Active \subseteq Active' \cup {task}
    BY <1>0, <1>13 DEF CreateWorktree, Active, WorkPart, SchedInv, SchedulerTypeOK
  <2>2. task \in Active' \/ (graph'.status[task] = "failed"
             /\ \A t \in Ids \ {task} : graph'.status[t] = graph.status[t])
    BY <1>0, <2>1, <1>13, WithStatusSets, StatusesAre DEF CreateWorktree, Active
  <2>3. task \in Active' => graph' = graph \/ graph'.status[task] = "failed"
    BY <1>0, <2>1, <1>13, WithStatusSets, StatusesAre DEF CreateWorktree
  <2>4. \A t \in TaskIds : graph'.status[t] = "in_progress" =>
                t \in Active' \/ (graph.status[t] = "in_progress" /\ t \notin Active)
    BY <2>1, <2>2, <2>3, <1>0, <1>13, ProgressStarts DEF MarkInProgress, CreateWorktree
  <2>5. Working /\ Working' /\ UNCHANGED <<layer, cur>> /\ Placed' = Placed
    BY <1>13 DEF CreateWorktree, Working, plans, planVars, Placed
  <2> QED BY <2>4, <2>5, <1>11
<1>14. CASE MarkDone
  <2>1. task \in Ids /\ Active \subseteq Active' \cup {task}
    BY <1>0, <1>14 DEF MarkDone, Active, WorkPart, SchedInv, SchedulerTypeOK
  <2>2. graph'.status[task] = "done" /\ \A t \in Ids \ {task} : graph'.status[t] = graph.status[t]
    BY <1>0, <2>1, <1>14, WithStatusSets, StatusesAre DEF MarkDone
  <2>3. \A t \in TaskIds : graph'.status[t] = "in_progress" =>
                t \in Active' \/ (graph.status[t] = "in_progress" /\ t \notin Active)
    BY <2>1, <2>2, <1>0
  <2>4. Working /\ Working' /\ UNCHANGED <<layer, cur>> /\ Placed' = Placed
    BY <1>14 DEF MarkDone, Working, plans, planVars, Placed
  <2> QED BY <2>3, <2>4, <1>11
<1>15. ASSUME NEW t \in Ids, MarkInProgress(t) \/ MergeTask(t)
       PROVE  ProgressPart'
  <2>1. Active \subseteq Active' /\ t \in Active'
    BY <1>0, <1>15 DEF MarkInProgress, MergeTask, Take, Active, WorkPart, SchedInv, SchedulerTypeOK,
       SchedulerAssumption
  <2>2. \A i \in Ids \ {t} : graph'.status[i] = graph.status[i]
    BY <1>0, <1>15, WithStatusSets, StatusesAre DEF MarkInProgress, MergeTask
  <2>3. \A i \in TaskIds : graph'.status[i] = "in_progress" =>
                i \in Active' \/ (graph.status[i] = "in_progress" /\ i \notin Active)
    BY <2>1, <2>2, <1>0
  <2>4. Working /\ Working' /\ UNCHANGED <<layer, cur>> /\ Placed' = Placed
    BY <1>15 DEF MarkInProgress, MergeTask, Take, Working, plans, planVars, Placed
  <2> QED BY <2>3, <2>4, <1>11
<1>16. ASSUME NEW t \in Ids, TaskFails(t) \/ MergeFails(t) \/ AgentFails(t)
       PROVE  ProgressPart'
  <2>1. Active \subseteq Active' \cup {t}
    BY <1>16 DEF TaskFails, MergeFails, AgentFails, Take, Active
  <2>2. graph'.status[t] # "in_progress"
    <3>1. TaskFails(t) \/ MergeFails(t)
          => \E s \in {"failed", "needs_resolution"} : graph' = WithStatus({t}, s)
      BY DEF TaskFails, MergeFails
    <3> QED BY <3>1, <1>0, <1>16, WithStatusSets, StatusesAre, FailedAgentSets
  <2>3. ~ \E i \in Ids : MarkInProgress(i)
    BY <1>16 DEF MarkInProgress, TaskFails, MergeFails, AgentFails, Take
  <2>4. \A i \in TaskIds : graph'.status[i] = "in_progress" =>
                i \in Active' \/ (graph.status[i] = "in_progress" /\ i \notin Active)
    BY <2>1, <2>2, <2>3, <1>0, ProgressStarts
  <2>5. Working /\ Working' /\ UNCHANGED <<layer, cur>> /\ Placed' = Placed
    BY <1>16 DEF TaskFails, MergeFails, AgentFails, Take, Working, plans, planVars, Placed
  <2> QED BY <2>4, <2>5, <1>11
<1> QED
  BY <1>1, <1>2, <1>3, <1>4, <1>5, <1>6, <1>7, <1>9, <1>10, <1>12, <1>13, <1>14, <1>15, <1>16
  DEF Next, SchedulerStep

-----------------------------------------------------------------------------
(***************************************************************************)
(* The theorems.                                                           *)
(***************************************************************************)
\* The invariant holds before the first command.
LEMMA InvStarts == Init => SchedInv
<1> SUFFICES ASSUME Init
             PROVE  SchedInv
  OBVIOUS
<1>1. PlanTypeOK
  BY PlanningStarts DEF Init, LoopInv
<1>2. SchedulerTypeOK
  <2>1. /\ plan_deps \in [Ids -> SUBSET Ids] /\ retries \in [Ids -> Nat] /\ merged \subseteq Ids
        /\ depth = 0 /\ cur = 0
    BY DEF Init, PlanInit
  <2>2. /\ 0 \in 0..MaxReplans /\ 0 \in 0..MaxExecutions /\ 0 \in 0..MaxStops /\ 0 \in 0..MaxCrashes
        /\ 0 \in Nat
    BY SchedulerAssumption DEF SchedulerAssumption
  <2>4. cur \in 0..(depth + 1)
    BY <2>1
  <2>3. exec_state \in ExecStates /\ exec_disk \in ExecStates
    BY DEF Init, IdleState, ExecStates
  <2> QED BY <1>1, <2>1, <2>2, <2>3, <2>4 DEF Init, SchedulerTypeOK, Labels
<1>3. PlanPart
  BY DEF Init, PlanInit, PlanPart, Executing, Working
<1>4. WorkPart
  BY DEF Init, WorkPart, Active, Working
<1>5. ReadyPart /\ FilePart /\ ProgressPart
  BY TopologyAssumption
  DEF Init, ReadyPart, FilePart, ProgressPart, Active, Executing, DoneMeansMerged,
      NoUnrequestedCancel, NoOrphanInProgress, IdleState, TopologyAssumption
<1> QED BY <1>2, <1>3, <1>4, <1>5 DEF SchedInv

\* The parts hold in every state of an execution, and between two of them.
THEOREM SchedulerInv == Spec => []SchedInv
<1>1. SchedInv /\ [Next]_vars => SchedInv'
  BY PlanKept, TypesKept, WorkKept, ReadyKept, FileKept, ProgressKept DEF SchedInv
<1> QED BY InvStarts, <1>1, PTL DEF Spec

\* The state of `gid execute` and `gid stop` has its types, and the limits on
\* replans and layers are kept.
THEOREM SchedulerTypes == Spec => []SchedulerTypeOK
<1>1. SchedInv => SchedulerTypeOK
  BY DEF SchedInv
<1> QED BY SchedulerInv, <1>1, PTL

\* A sub-agent never starts before what its task builds on is done and merged,
\* for any graph, any new tasks and any number of sub-agents at a time.
THEOREM SchedulerStartsReady == Spec => []WorkStartsReady
<1>1. SchedInv => WorkStartsReady
  <2> SUFFICES ASSUME SchedInv, NEW t \in (prepared \cup {task}) \cap Ids,
                      NEW d \in plan_deps[t] \cap Placed
               PROVE  graph.status[d] = "done" /\ d \in merged
    BY DEF WorkStartsReady
  <2>1. t \in Active /\ Working
    BY SchedulerAssumption DEF SchedInv, WorkPart, Active, SchedulerAssumption, Working
  <2>2. graph.status[d] = "done"
    BY <2>1 DEF SchedInv, ReadyPart
  <2>3. d \in TaskIds
    BY <2>1 DEF SchedInv, PlanPart, Working, Executing
  <2> QED BY <2>2, <2>3 DEF SchedInv, ReadyPart, DoneMeansMerged
<1> QED BY SchedulerInv, <1>1, PTL

\* The board never shows a task as done whose work is not on the main branch,
\* wherever the scheduler was killed.
THEOREM SchedulerDoneIsMerged == Spec => []DoneMeansMerged
<1>1. SchedInv => DoneMeansMerged
  BY DEF SchedInv, ReadyPart
<1> QED BY SchedulerInv, <1>1, PTL

\* An execution that is over has left no task in progress, neither one of its
\* own nor one that an earlier, killed one had left.
THEOREM SchedulerNoOrphans == Spec => []NoOrphanInProgress
<1>1. SchedInv => NoOrphanInProgress
  BY DEF SchedInv, ProgressPart
<1> QED BY SchedulerInv, <1>1, PTL

\* However loads and saves of `gid stop` and `gid execute` interleave, an execution
\* is only cancelled when the request of a `gid stop` was saved during it.
THEOREM SchedulerCancelIsAsked == Spec => []NoUnrequestedCancel
<1>1. SchedInv => NoUnrequestedCancel
  BY DEF SchedInv, FilePart
<1> QED BY SchedulerInv, <1>1, PTL

-----------------------------------------------------------------------------
(***************************************************************************)
(* The books: an inductive invariant of its own, on top of SchedInv.       *)
(***************************************************************************)
\* When the tasks of S are settled, the counters may go up by as many.
LEMMA Settled ==
  ASSUME SchedInv, CountPart, Executing, Executing', Placed' = Placed,
         NEW S, S \subseteq Left, Left' \subseteq Left \ S,
         tasks_completed' \in Nat, tasks_failed' \in Nat,
         tasks_completed' + tasks_failed' <= tasks_completed + tasks_failed + Cardinality(S)
  PROVE  CountPart'
<1>1. IsFiniteSet(Left) /\ IsFiniteSet(Placed)
  <2>1. Left \subseteq Ids /\ Placed \subseteq Ids
    BY TopologyAssumption DEF SchedInv, SchedulerTypeOK, Left, Active, Placed, TopologyAssumption
  <2> QED BY <2>1, FS_Subset, TopologyAssumption DEF TopologyAssumption
<1>2. Cardinality(Left) \in Nat /\ Cardinality(S) \in Nat /\ Cardinality(Placed) \in Nat
  BY <1>1, FS_Subset, FS_CardinalityType
<1>3. /\ IsFiniteSet(Left \ S) /\ Cardinality(Left \ S) = Cardinality(Left) - Cardinality(S)
  <2>1. Left \cap S = S
    OBVIOUS
  <2> QED BY <2>1, <1>1, FS_Difference
<1>4. Cardinality(Left') <= Cardinality(Left) - Cardinality(S) /\ Cardinality(Left') \in Nat
  BY <1>3, FS_Subset, FS_CardinalityType
<1>5. tasks_completed \in Nat /\ tasks_failed \in Nat
  BY DEF SchedInv, SchedulerTypeOK
<1>6. tasks_completed + tasks_failed + Cardinality(Left) <= Cardinality(Placed)
  BY DEF CountPart
<1>7. tasks_completed' + tasks_failed' + Cardinality(Left') <= Cardinality(Placed)
  BY <1>2, <1>4, <1>5, <1>6
<1> QED BY <1>7 DEF CountPart

\* The books stay right: what is counted is settled, and counted once.
LEMMA CountKept ==
  ASSUME SchedInv, CountPart, [Next]_vars
  PROVE  CountPart'
<1>0. /\ WorkPart /\ PlanPart /\ CountPart /\ WorkPart' /\ PlanPart'
      /\ tasks_completed \in Nat /\ tasks_failed \in Nat
      /\ tasks_completed' \in Nat /\ tasks_failed' \in Nat
      /\ cur \in Nat /\ layer \in [Ids -> Nat] /\ NoTask \notin Ids
      /\ prepared \subseteq Ids
      /\ Cardinality({}) = 0
  BY WorkKept, PlanKept, TypesKept, FS_EmptySet, SchedulerAssumption, TopologyAssumption
  DEF SchedInv, SchedulerTypeOK, PlanTypeOK, SchedulerAssumption, TopologyAssumption
<1> USE DEF Goto
<1>1. CASE ~ Executing'
  <2>1. CASE Execute \/ PlanLayer \/ PlanEnds
    <3>1. pc \in {"idle", "planning"} /\ UNCHANGED <<tasks_completed, tasks_failed>>
      BY <2>1 DEF Execute, PlanLayer, PlanEnds, counters
    <3> QED BY <3>1, <1>0, <1>1 DEF CountPart, Executing
  <2>2. CASE Leave
    BY <2>2, <1>1 DEF Leave, CountPart
  <2>3. CASE UNCHANGED <<pc, counters>>
    BY <2>3, <1>0, <1>1 DEF counters, CountPart, Executing
  <2>4. Cancelled \/ Complete \/ Crash => Leave
    BY DEF Cancelled, Complete, Crash
  <2>5. StopLoads \/ StopSaves \/ UNCHANGED vars => UNCHANGED <<pc, counters>>
    BY DEF StopLoads, StopSaves, vars, cursor
  <2>6. ~ (BeginRunning \/ BeginLayer \/ TakeChunk \/ CreateWorktree \/ Spawn \/ MarkDone
           \/ EndChunk \/ (EndLayer /\ ~ Leave))
    BY <1>1 DEF BeginRunning, BeginLayer, TakeChunk, CreateWorktree, Spawn, MarkDone, EndChunk,
                EndLayer, Executing
  <2>7. ASSUME NEW t \in Ids
        PROVE  ~ (MarkInProgress(t) \/ TaskFails(t) \/ MergeFails(t) \/ MergeTask(t) \/ AgentFails(t))
    BY <1>1 DEF MarkInProgress, TaskFails, MergeFails, MergeTask, AgentFails, Take, Executing
  <2> QED BY <2>1, <2>2, <2>3, <2>4, <2>5, <2>6, <2>7 DEF Next, SchedulerStep
<1>2. CASE Executing' /\ PlanEnds
  <2>1. tasks_completed' = 0 /\ tasks_failed' = 0
    BY <1>0, <1>2 DEF PlanEnds, CountPart, Executing, counters
  <2>2. Left' \subseteq Placed'
    BY <1>0 DEF Left, WorkPart
  <2>3. IsFiniteSet(Placed')
    BY FS_Subset, TopologyAssumption DEF Placed, TopologyAssumption
  <2>4. Cardinality(Left') <= Cardinality(Placed') /\ Cardinality(Left') \in Nat
    BY <2>2, <2>3, FS_Subset, FS_CardinalityType
  <2> QED BY <1>2, <2>1, <2>4 DEF CountPart
<1>3. ASSUME Executing, Executing', Placed' = Placed, Left' \subseteq Left,
             UNCHANGED <<tasks_completed, tasks_failed>>
      PROVE  CountPart'
  BY <1>0, <1>3, Settled
<1>4. ASSUME Executing, Executing', Placed' = Placed, NEW t \in Left, Left' \subseteq Left \ {t},
             tasks_completed' + tasks_failed' = tasks_completed + tasks_failed + 1
      PROVE  CountPart'
  <2>1. {t} \subseteq Left /\ Cardinality({t}) = 1
    BY <1>4, FS_Singleton
  <2>2. tasks_completed' + tasks_failed' <= tasks_completed + tasks_failed + Cardinality({t})
    <3>1. tasks_completed + tasks_failed + 1 <= tasks_completed + tasks_failed + 1
      BY <1>0
    <3> QED BY <2>1, <3>1, <1>4
  <2> QED BY <2>1, <2>2, <1>0, <1>4, Settled
<1>5. CASE BeginRunning
  <2>1. Left' \subseteq Placed' /\ Placed' = Placed /\ UNCHANGED <<tasks_completed, tasks_failed>>
    BY <1>0, <1>5 DEF BeginRunning, Left, WorkPart, counters, plans, planVars, Placed
  <2>2. Placed \subseteq Left
    BY <1>0, <1>5 DEF BeginRunning, Left, Placed, PlanPart
  <2> QED BY <2>1, <2>2, <1>3, <1>5 DEF BeginRunning, Executing
<1>6. CASE EndLayer /\ ~ Leave
  <2>1. /\ UNCHANGED <<layer, tasks_completed, tasks_failed>> /\ Placed' = Placed /\ cur' = cur + 1
        /\ pc = "chunk" /\ pc' = "layer"
    BY <1>6 DEF EndLayer, counters, plans, planVars, Placed
  <2>2. Active' = {}
    BY <2>1, <1>0 DEF WorkPart, Active, Working
  <2>3. Left' \subseteq Left
    BY <2>1, <2>2, <1>0 DEF Left, Placed
  <2> QED BY <2>1, <2>3, <1>3 DEF Executing
<1>7. CASE BeginLayer
  <2> DEFINE blocked == {t \in LayerTasks : Unmet(t)}
  <2>1. /\ UNCHANGED <<layer, cur, tasks_completed>> /\ Placed' = Placed
        /\ tasks_failed' = tasks_failed + Cardinality(blocked)
        /\ pc = "layer" /\ pc' = "chunk" /\ eligible' = LayerTasks \ blocked
    BY <1>7 DEF BeginLayer, plans, planVars, Placed
  <2>2. \A t \in LayerTasks : t \in Placed /\ layer[t] = cur
    BY <1>0, <2>1 DEF LayerTasks, Placed, PlanPart
  <2>3. Active' = LayerTasks \ blocked
    BY <2>1, <1>0 DEF WorkPart, Active
  <2>4. blocked \subseteq Left
    BY <2>1, <2>2 DEF Left
  <2>5. Left' \subseteq Left \ blocked
    <3>1. Left' = Active' \cup {t \in Placed : layer[t] > cur}
      BY <2>1 DEF Left
    <3>2. \A t \in {u \in Placed : layer[u] > cur} : t \notin blocked
      BY <2>2, <1>0
    <3> HIDE DEF blocked
    <3> QED BY <3>1, <3>2, <2>1, <2>2, <2>3 DEF Left
  <2>6. Cardinality(blocked) \in Nat
    <3>1. IsFiniteSet(blocked)
      BY FS_Subset, TopologyAssumption DEF LayerTasks, TopologyAssumption
    <3> QED BY <3>1, FS_CardinalityType
  <2>7. tasks_completed' + tasks_failed' <= tasks_completed + tasks_failed + Cardinality(blocked)
    BY <2>1, <2>6, <1>0
  <2>8. Executing /\ Executing'
    BY <2>1 DEF Executing
  <2> HIDE DEF blocked
  <2> QED BY <2>1, <2>4, <2>5, <2>7, <2>8, <1>0, Settled
<1>8. CASE Working' /\ ~ BeginLayer
  <2>1. /\ Working /\ Active' \subseteq Active /\ UNCHANGED <<layer, cur>> /\ Placed' = Placed
        /\ Executing /\ Executing'
    BY <1>8, TakenUp DEF plans, planVars, Placed, Working, Executing
  <2>2. Left' \subseteq Left
    BY <2>1, <1>8 DEF Left, Working
  <2>3. ASSUME NEW t \in Active, t \notin Active',
               tasks_completed' + tasks_failed' = tasks_completed + tasks_failed + 1
        PROVE  CountPart'
    <3>1. t \in Placed /\ layer[t] = cur
      BY <1>0, <2>3 DEF WorkPart
    <3>2. t \in Left /\ t \notin Left'
      BY <3>1, <2>1, <2>3, <1>0, <1>8 DEF Left, Working
    <3> QED BY <3>2, <2>1, <2>2, <2>3, <1>4
  <2>4. CASE UNCHANGED <<tasks_completed, tasks_failed>>
    BY <2>1, <2>2, <2>4, <1>3
  <2>5. CASE CreateWorktree /\ tasks_failed' = tasks_failed + 1 /\ UNCHANGED prepared
    BY <2>3, <2>5, <1>0 DEF CreateWorktree, Active, WorkPart
  <2>6. CASE MarkDone
    BY <2>3, <2>6, <1>0 DEF MarkDone, Active, WorkPart
  <2>7. ASSUME NEW t \in Ids, TaskFails(t) \/ MergeFails(t) \/ AgentFails(t),
               tasks_failed' = tasks_failed + 1
        PROVE  CountPart'
    <3>1. Take(t) /\ UNCHANGED <<tasks_completed, eligible, chunk, task>>
      BY <2>7 DEF TaskFails, MergeFails, AgentFails, Take
    <3> QED BY <3>1, <2>3, <2>7, <1>0 DEF Take, Active, WorkPart
  <2>8. TakeChunk \/ Spawn \/ EndChunk \/ StopLoads \/ StopSaves \/ UNCHANGED vars
        => UNCHANGED <<tasks_completed, tasks_failed>>
    BY DEF TakeChunk, Spawn, EndChunk, StopLoads, StopSaves, vars, counters
  <2>9. ASSUME NEW t \in Ids, MarkInProgress(t) \/ MergeTask(t)
        PROVE  UNCHANGED <<tasks_completed, tasks_failed>>
    BY <2>9 DEF MarkInProgress, MergeTask, counters
  <2>10. CreateWorktree => UNCHANGED <<tasks_completed, tasks_failed>>
                           \/ (tasks_failed' = tasks_failed + 1 /\ UNCHANGED prepared)
    BY DEF CreateWorktree
  <2>11. ASSUME NEW t \in Ids, TaskFails(t) \/ MergeFails(t) \/ AgentFails(t)
         PROVE  tasks_failed' = tasks_failed + 1 \/ UNCHANGED <<tasks_completed, tasks_failed>>
    BY <2>11 DEF TaskFails, MergeFails, AgentFails
  <2>12. ~ (Execute \/ PlanLayer \/ PlanEnds \/ BeginRunning \/ Cancelled \/ Complete \/ Crash
            \/ EndLayer)
    BY <2>1, <1>8 DEF Execute, PlanLayer, PlanEnds, BeginRunning, Cancelled, Complete, Crash,
           EndLayer, Leave, Working, cursor
  <2> QED
    BY <1>8, <2>4, <2>5, <2>6, <2>7, <2>8, <2>9, <2>10, <2>11, <2>12 DEF Next, SchedulerStep
<1>9. CASE (StopLoads \/ StopSaves \/ UNCHANGED vars) /\ Executing'
  <2>1. UNCHANGED <<cursor, counters, layer>> /\ Placed' = Placed
    BY <1>9 DEF StopLoads, StopSaves, vars, plans, planVars, Placed
  <2>2. Executing /\ Left' = Left /\ UNCHANGED <<tasks_completed, tasks_failed>>
    BY <2>1, <1>9 DEF Executing, Left, Active, cursor, counters
  <2> QED BY <2>1, <2>2, <1>3, <1>9
<1>10. ~ Working' /\ Executing' =>
         \/ PlanEnds \/ BeginRunning \/ (EndLayer /\ ~ Leave)
         \/ StopLoads \/ StopSaves \/ UNCHANGED vars
  BY DEF Next, SchedulerStep, Execute, PlanLayer, Cancelled, BeginLayer, TakeChunk, CreateWorktree,
         Spawn, MarkDone, EndChunk, EndLayer, Complete, Crash, MarkInProgress, TaskFails,
         MergeFails, MergeTask, AgentFails, Take, Leave, Executing, Working, cursor
<1> QED BY <1>1, <1>2, <1>5, <1>6, <1>7, <1>8, <1>9, <1>10

\* No task counts twice, as completed or as failed, and none that was not planned:
\* what the Cancel event computes from the counters does not underflow.
THEOREM SchedulerCountersFit == Spec => []CountersFit
<1>1. Init => CountPart
  BY DEF Init, CountPart, Executing
<1>2. SchedInv /\ CountPart /\ [Next]_vars => CountPart'
  BY CountKept
<1>3. SchedInv /\ CountPart => CountersFit
  <2> SUFFICES ASSUME SchedInv, CountPart
               PROVE  CountersFit
    OBVIOUS
  <2>1. IsFiniteSet(Left) /\ IsFiniteSet(Placed)
    <3>1. Left \subseteq Ids /\ Placed \subseteq Ids
      BY TopologyAssumption DEF SchedInv, SchedulerTypeOK, Left, Active, Placed, TopologyAssumption
    <3> QED BY <3>1, FS_Subset, TopologyAssumption DEF TopologyAssumption
  <2>2. /\ Cardinality(Left) \in Nat /\ Cardinality(Placed) \in Nat
        /\ tasks_completed \in Nat /\ tasks_failed \in Nat
    BY <2>1, FS_CardinalityType DEF SchedInv, SchedulerTypeOK
  <2>3. CASE Executing
    BY <2>2, <2>3 DEF CountPart, CountersFit
  <2>4. CASE ~ Executing
    BY <2>2, <2>4 DEF CountPart, CountersFit
  <2> QED BY <2>3, <2>4
<1> QED BY SchedulerInv, <1>1, <1>2, <1>3, PTL DEF Spec

-----------------------------------------------------------------------------
(***************************************************************************)
(* The scheduler implements the life of a task.                            *)
(***************************************************************************)
Needs == [t \in Ids |-> plan_deps[t] \cap Placed]

\* Every step of the scheduler is one that the life of a task allows.
LEMMA LifeSteps ==
  ASSUME SchedInv, SchedInv', [Next]_vars
  PROVE  Lifecycle!Next
<1>0. /\ graph \in TaskGraphs /\ graph.status \in [Ids -> TaskStatuses \cup {"absent"}]
      /\ graph'.status \in [Ids -> TaskStatuses \cup {"absent"}]
      /\ WorkPart /\ PlanPart /\ ReadyPart /\ NoTask \notin Ids /\ prepared \subseteq Ids
      /\ task \in Ids \cup {NoTask}
  BY SchedulerAssumption, TopologyAssumption
  DEF SchedInv, SchedulerTypeOK, PlanTypeOK, TaskGraphs, SchedulerAssumption, TopologyAssumption
<1>1. Needs \in [Ids -> SUBSET Ids] /\ Needs' \in [Ids -> SUBSET Ids]
  BY DEF Needs, Placed
<1>2. UNCHANGED plans => Needs' = Needs
  BY DEF plans, planVars, Needs, Placed
<1>3. ASSUME UNCHANGED graph
      PROVE  Lifecycle!Next
  BY <1>1, <1>3 DEF Lifecycle!Next, Lifecycle!Plan, Needs
<1>4. ASSUME NEW t \in Ids, graph.status[t] = "in_progress", UNCHANGED plans,
             NEW s \in {"done", "failed", "needs_resolution", "todo"}, graph' = WithStatus({t}, s)
      PROVE  Lifecycle!Next
  <2>1. graph'.status = [graph.status EXCEPT ![t] = s]
    BY <1>0, <1>4 DEF WithStatus, TaskGraphs
  <2>2. Lifecycle!Finish(t)
    BY <2>1, <1>2, <1>4 DEF Lifecycle!Finish, Needs
  <2> QED BY <2>2 DEF Lifecycle!Next
<1>5. CASE Cancelled
  <2>1. graph'.status = [i \in Ids |-> IF graph.status[i] = "in_progress" THEN "todo"
                                       ELSE graph.status[i]]
    BY <1>0, <1>5 DEF Cancelled, WithStatus, TaskGraphs
  <2> QED BY <2>1, <1>1 DEF Lifecycle!Next, Lifecycle!GiveBack, Needs
<1>6. CASE BeginLayer
  <2> DEFINE blocked == {t \in LayerTasks : Unmet(t)}
  <2>1. /\ graph' = WithStatus(blocked, "blocked") /\ UNCHANGED plans
        /\ pc = "layer" /\ cur \in Nat \ {0}
    BY <1>0, <1>6 DEF BeginLayer, PlanPart
  <2>2. blocked \subseteq Lifecycle!Open /\ blocked \in SUBSET Ids
    BY <2>1, <1>0 DEF Lifecycle!Open, LayerTasks, PlanPart, Placed, Executing
  <2> HIDE DEF blocked
  <2>3. graph'.status = [i \in Ids |-> IF i \in blocked THEN "blocked" ELSE graph.status[i]]
    BY <2>1, <1>0 DEF WithStatus, TaskGraphs
  <2> QED BY <2>1, <2>2, <2>3, <1>2 DEF Lifecycle!Next, Lifecycle!Block, Needs
<1>7. ASSUME NEW t \in Ids, MarkInProgress(t)
      PROVE  Lifecycle!Next
  <2>1. graph' = WithStatus({t}, "in_progress") /\ UNCHANGED plans /\ t \in chunk /\ pc = "prepare"
    BY <1>7 DEF MarkInProgress
  <2>2. t \in Active /\ t \in Placed /\ graph.status[t] \notin {"absent", "done", "cancelled"}
    BY <2>1, <1>0 DEF Active, WorkPart, PlanPart, Executing
  <2>3. \A d \in plan_deps[t] \cap Placed : graph.status[d] = "done"
    BY <2>2, <1>0 DEF ReadyPart
  <2>4. graph'.status = [graph.status EXCEPT ![t] = "in_progress"]
    BY <2>1, <1>0 DEF WithStatus, TaskGraphs
  <2>5. Lifecycle!Start(t)
    BY <2>1, <2>2, <2>3, <2>4, <1>2 DEF Lifecycle!Start, Lifecycle!Open, Needs
  <2> QED BY <2>5 DEF Lifecycle!Next
<1>8. CASE CreateWorktree
  <2>1. task \in Ids /\ graph.status[task] = "in_progress" /\ UNCHANGED plans
    BY <1>0, <1>8 DEF CreateWorktree, WorkPart
  <2> QED BY <2>1, <1>3, <1>4, <1>8 DEF CreateWorktree
<1>9. CASE MarkDone
  <2>1. task \in Ids /\ graph.status[task] = "in_progress" /\ UNCHANGED plans
    BY <1>0, <1>9 DEF MarkDone, WorkPart
  <2> QED BY <2>1, <1>4, <1>9 DEF MarkDone
<1>10. ASSUME NEW t \in Ids, TaskFails(t) \/ MergeFails(t)
       PROVE  Lifecycle!Next
  <2>1. graph.status[t] = "in_progress" /\ UNCHANGED plans
    BY <1>0, <1>10 DEF TaskFails, MergeFails, Take, WorkPart
  <2> QED BY <2>1, <1>4, <1>10 DEF TaskFails, MergeFails
<1>11. ASSUME NEW t \in Ids, AgentFails(t)
       PROVE  Lifecycle!Next
  <2>1. graph.status[t] = "in_progress" /\ UNCHANGED plans
    BY <1>0, <1>11 DEF AgentFails, Take, WorkPart
  <2>2. ASSUME NEW new \in SUBSET Offers, graph' = WithTasks(t, new)
        PROVE  Lifecycle!Next
    <3> DEFINE names == {n.id : n \in new}
    <3>1. names \in SUBSET Ids
      BY SchedulerAssumption, TopologyAssumption DEF SchedulerAssumption, TopologyAssumption
    <3>2. graph'.status = [j \in Ids |-> IF j = t THEN "blocked"
                              ELSE IF j \in names /\ graph.status[j] = "absent" THEN "todo"
                              ELSE graph.status[j]]
      BY <2>2 DEF WithTasks
    <3> HIDE DEF names
    <3>3. Lifecycle!Replan(t, names)
      BY <2>1, <3>2, <1>2 DEF Lifecycle!Replan, Needs
    <3> QED BY <3>1, <3>3 DEF Lifecycle!Next
  <2>3. \/ graph' = WithStatus({t}, "todo") \/ graph' = WithStatus({t}, "failed")
        \/ \E new \in SUBSET Offers : graph' = WithTasks(t, new)
    <3>1. PICK d \in Decisions(t) :
            \/ d[1] = "retry" /\ graph' = WithStatus({t}, "todo")
            \/ d[1] = "escalate" /\ graph' = WithStatus({t}, "failed")
            \/ \E new \in SUBSET Offers : graph' = WithTasks(t, new)
      BY <1>11 DEF AgentFails
    <3> QED BY <3>1
  <2> QED BY <2>1, <2>2, <2>3, <1>4
<1>12. Execute \/ PlanLayer \/ PlanEnds \/ BeginRunning \/ TakeChunk \/ Spawn \/ EndChunk
       \/ EndLayer \/ Complete \/ Crash \/ StopLoads \/ StopSaves \/ UNCHANGED vars
       => UNCHANGED graph
  BY DEF Execute, PlanLayer, PlanEnds, BeginRunning, TakeChunk, Spawn, EndChunk, EndLayer,
         Complete, Crash, StopLoads, StopSaves, vars
<1>13. ASSUME NEW t \in Ids, MergeTask(t)
       PROVE  UNCHANGED graph
  BY <1>13 DEF MergeTask
<1> QED
  BY <1>3, <1>5, <1>6, <1>7, <1>8, <1>9, <1>10, <1>11, <1>12, <1>13 DEF Next, SchedulerStep

\* Whatever the scheduler does, with any number of executions, stops and kills,
\* is on the board a life of its tasks: no task starts before the planned ones it
\* needs are done, only a started task gets done, and done is final.
THEOREM SchedulerImplementsLifecycle == Spec => ImplementsLifecycle
<1>1. Init => Lifecycle!Init
  <2> SUFFICES ASSUME Init
               PROVE  Lifecycle!Init
    OBVIOUS
  <2>1. graph.status \in [Ids -> TaskStatuses \cup {"absent"}]
    BY TopologyAssumption DEF Init, PlanInit, TopologyAssumption, TaskGraphs
  <2>2. [t \in Ids |-> plan_deps[t] \cap Placed] = [i \in Ids |-> {}]
    BY DEF Init
  <2> QED BY <2>1, <2>2 DEF Lifecycle!Init, TaskStatuses
<1>2. SchedInv /\ SchedInv' /\ [Next]_vars
      => [Lifecycle!Next]_<<graph.status, [t \in Ids |-> plan_deps[t] \cap Placed]>>
  BY LifeSteps
<1> QED BY SchedulerInv, <1>1, <1>2, PTL DEF Spec, ImplementsLifecycle, Lifecycle!Spec

-----------------------------------------------------------------------------
(* Searching a graph *)

IsPath(next, a, b, p) ==
  Len(p) \in Nat /\ Len(p) > 0 /\ p[1] = a /\ p[Len(p)] = b /\ \A k \in 2..Len(p) : p[k] \in next[p[k - 1]]

IsClosed(next, U) == \A i \in U : next[i] \subseteq U

\* What a search has found after k turns: paths, the shortest first, to ids that cannot be
\* done without; and those of all neighbours but of the last ones.
SearchInv(next, N, id, k, f) ==
  /\ DOMAIN f \in SUBSET N /\ f \in [DOMAIN f -> Seq(N)] /\ id \in DOMAIN f /\ Len(f[id]) = 1
  /\ \A b \in DOMAIN f : IsPath(next, id, b, f[b]) /\ Len(f[b]) <= k + 1
  /\ \A b \in DOMAIN f : Len(f[b]) <= k =>
       \A c \in next[b] : c \in DOMAIN f /\ Len(f[c]) <= Len(f[b]) + 1
  /\ Cardinality(DOMAIN f) > k \/ IsClosed(next, DOMAIN f)
  /\ \A U \in SUBSET N : id \in U /\ IsClosed(next, U) => DOMAIN f \subseteq U

\* What it has found in the end.
Searched(next, N, id, f) ==
  /\ DOMAIN f \in SUBSET N /\ f \in [DOMAIN f -> Seq(N)] /\ id \in DOMAIN f /\ Len(f[id]) = 1
  /\ \A b \in DOMAIN f : IsPath(next, id, b, f[b])
  /\ \A b \in DOMAIN f : \A c \in next[b] : c \in DOMAIN f /\ Len(f[c]) <= Len(f[b]) + 1
  /\ \A U \in SUBSET N : id \in U /\ IsClosed(next, U) => DOMAIN f \subseteq U

LEMMA PathAppend ==
  ASSUME NEW N, NEW next \in [N -> SUBSET N], NEW a \in N, NEW b \in N, NEW p \in Seq(N),
         IsPath(next, a, b, p), NEW c \in next[b]
  PROVE  Append(p, c) \in Seq(N) /\ IsPath(next, a, c, Append(p, c)) /\ Len(Append(p, c)) = Len(p) + 1
<1>1. c \in N
  OBVIOUS
<1>2. Append(p, c) \in Seq(N) /\ Len(Append(p, c)) = Len(p) + 1 /\ Len(p) \in Nat
  BY <1>1
<1>3. Append(p, c)[Len(p) + 1] = c /\ \A k \in 1..Len(p) : Append(p, c)[k] = p[k]
  BY <1>1
<1> DEFINE q == Append(p, c)
<1> HIDE DEF q
<1>4. q[1] = a /\ q[Len(q)] = c
  BY <1>2, <1>3 DEF IsPath, q
<1>5. ASSUME NEW k \in 2..Len(q) PROVE q[k] \in next[q[k - 1]]
  <2>1. CASE k = Len(p) + 1
    <3>1. q[k] = c /\ k - 1 = Len(p) /\ q[k - 1] = p[Len(p)]
      BY <2>1, <1>2, <1>3 DEF IsPath, q
    <3> QED BY <3>1 DEF IsPath
  <2>2. CASE k # Len(p) + 1
    <3>1. k \in 2..Len(p) /\ k \in 1..Len(p) /\ k - 1 \in 1..Len(p)
      BY <2>2, <1>2 DEF q
    <3>2. q[k] = p[k] /\ q[k - 1] = p[k - 1]
      BY <3>1, <1>3 DEF q
    <3> QED BY <3>1, <3>2 DEF IsPath
  <2> QED BY <2>1, <2>2
<1> QED BY <1>2, <1>4, <1>5 DEF IsPath, q

\* What a turn makes h of f, which has paths to D: new ids, each after one that was there.
Turned(N, next, D, f, new, before, h) ==
  /\ \A n \in new : n \notin D /\ before[n] \in D /\ n \in next[before[n]]
  /\ \A i \in D : next[i] \subseteq D \cup new
  /\ DOMAIN h = D \cup new /\ h \in [D \cup new -> Seq(N)]
  /\ \A x \in D : h[x] = f[x]
  /\ \A x \in new : h[x] = Append(f[before[x]], x)

\* One turn adds the neighbours of what is there, with a path that goes on from a path.
LEMMA NextFoundIs ==
  ASSUME NEW N, NEW next \in [N -> SUBSET N], NEW D \in SUBSET N, NEW f \in [D -> Seq(N)]
  PROVE  \E new \in SUBSET N : \E before \in [new -> D] :
           Turned(N, next, D, f, new, before, NextFound(next, f))
<1> DEFINE new == {n \in N : n \notin D /\ \E i \in D : n \in next[i]}
           chosen(n) == CHOOSE i \in D : n \in next[i]
           before == [n \in new |-> chosen(n)]
           h == [x \in D \cup new |-> IF x \in D THEN f[x] ELSE Append(f[before[x]], x)]
<1>1. new \in SUBSET N /\ new = (UNION {next[i] : i \in D}) \ D
  <2>1. \A i \in D : next[i] \in SUBSET N
    OBVIOUS
  <2>2. \A n : n \in UNION {next[i] : i \in D} <=> \E i \in D : n \in next[i]
    OBVIOUS
  <2> QED BY <2>1, <2>2
<1>2. \A n \in new : chosen(n) \in D /\ n \in next[chosen(n)]
  OBVIOUS
<1>3. before \in [new -> D] /\ \A n \in new : before[n] = chosen(n)
  BY <1>2
<1>4. NextFound(next, f) = h
  <2>1. DOMAIN f = D
    OBVIOUS
  <2>2. NextFound(next, f) = Over(f, [n \in new |-> Append(f[chosen(n)], n)])
    <3> DEFINE u == (UNION {next[i] : i \in D}) \ D
    <3>1. NextFound(next, f) = Over(f, [n \in u |-> Append(f[chosen(n)], n)])
      BY <2>1 DEF NextFound
    <3>2. u = new
      BY <1>1
    <3> HIDE DEF u, new, chosen
    <3> QED BY <3>1, <3>2
  <2> DEFINE e == [n \in new |-> Append(f[chosen(n)], n)]
  <2>3. DOMAIN e = new /\ \A n \in new : e[n] = Append(f[before[n]], n)
    BY <1>3
  <2> HIDE DEF e, new, before, chosen
  <2>4. Over(f, e) = [x \in D \cup new |-> IF x \in D THEN f[x] ELSE e[x]]
    BY <2>1, <2>3 DEF Over
  <2>5. \A x \in D \cup new : (IF x \in D THEN f[x] ELSE e[x])
                              = IF x \in D THEN f[x] ELSE Append(f[before[x]], x)
    BY <2>3
  <2> QED BY <2>2, <2>4, <2>5 DEF e
<1> HIDE DEF new, before, chosen
<1>5. \A x \in D \cup new : h[x] \in Seq(N)
  BY <1>1, <1>3
<1>6. h \in [D \cup new -> Seq(N)] /\ DOMAIN h = D \cup new
  BY <1>5
<1>7. \A n \in new : n \notin D /\ before[n] \in D /\ n \in next[before[n]]
  <2>1. \A n \in new : n \notin D
    BY DEF new
  <2> QED BY <1>2, <1>3, <2>1
<1>8. \A i \in D : next[i] \subseteq D \cup new
  <2>1. \A i \in D : next[i] \in SUBSET N
    OBVIOUS
  <2> QED BY <2>1 DEF new
<1>9. (\A x \in D : h[x] = f[x]) /\ \A x \in new : h[x] = Append(f[before[x]], x)
  BY <1>7
<1> HIDE DEF h
<1>10. Turned(N, next, D, f, new, before, h)
  BY <1>6, <1>7, <1>8, <1>9 DEF Turned
<1> QED BY <1>1, <1>3, <1>4, <1>10

LEMMA SearchStarts ==
  ASSUME NEW N, NEW next \in [N -> SUBSET N], NEW id \in N
  PROVE  SearchInv(next, N, id, 0, [i \in {id} |-> <<id>>])
<1> DEFINE f == [i \in {id} |-> <<id>>]
<1>1. DOMAIN f = {id} /\ f[id] = <<id>> /\ f \in [{id} -> Seq(N)] /\ Len(<<id>>) = 1
  OBVIOUS
<1>2. Cardinality({id}) = 1
  BY FS_Singleton
<1> HIDE DEF f
<1>3. IsPath(next, id, id, f[id])
  BY <1>1 DEF IsPath
<1>4. ~ (1 <= 0) /\ 1 <= 0 + 1 /\ 1 > 0
  OBVIOUS
<1> QED BY <1>1, <1>2, <1>3, <1>4 DEF SearchInv, f

LEMMA SearchTurns ==
  ASSUME NEW N, IsFiniteSet(N), NEW next \in [N -> SUBSET N], NEW id \in N, NEW k \in Nat, NEW f,
         SearchInv(next, N, id, k, f)
  PROVE  SearchInv(next, N, id, k + 1, NextFound(next, f))
<1> DEFINE D == DOMAIN f
           h == NextFound(next, f)
<1>1. D \in SUBSET N /\ f \in [D -> Seq(N)] /\ id \in D
  BY DEF SearchInv
<1> HIDE DEF D
<1>2. PICK new \in SUBSET N : \E before \in [new -> D] : Turned(N, next, D, f, new, before, h)
  BY <1>1, NextFoundIs
<1>3. PICK before \in [new -> D] : Turned(N, next, D, f, new, before, h)
  BY <1>2
<1> HIDE DEF h
<1>4. ASSUME NEW b \in D PROVE Len(f[b]) \in Nat /\ Len(f[b]) <= k + 1 /\ IsPath(next, id, b, f[b]) /\ b \in N
  BY <1>1 DEF SearchInv, D, IsPath
<1>5. ASSUME NEW b \in D, Len(f[b]) <= k, NEW c \in next[b] PROVE c \in D /\ Len(f[c]) <= Len(f[b]) + 1
  BY <1>5 DEF SearchInv, D
<1>6. ASSUME NEW n \in new
      PROVE  Len(h[n]) = k + 2 /\ IsPath(next, id, n, h[n])
  <2>1. before[n] \in D /\ n \in next[before[n]] /\ n \notin D /\ h[n] = Append(f[before[n]], n)
    BY <1>3 DEF Turned
  <2>2. Len(f[before[n]]) = k + 1
    BY <2>1, <1>4, <1>5
  <2>3. before[n] \in N /\ f[before[n]] \in Seq(N) /\ IsPath(next, id, before[n], f[before[n]])
    BY <2>1, <1>1, <1>4
  <2>4. IsPath(next, id, n, Append(f[before[n]], n)) /\ Len(Append(f[before[n]], n)) = Len(f[before[n]]) + 1
    BY <2>1, <2>3, PathAppend
  <2> QED BY <2>1, <2>2, <2>4
<1>7. DOMAIN h \in SUBSET N /\ h \in [DOMAIN h -> Seq(N)] /\ id \in DOMAIN h /\ Len(h[id]) = 1
  <2>1. Len(f[id]) = 1 /\ h[id] = f[id]
    BY <1>1, <1>3 DEF Turned, SearchInv
  <2> QED BY <2>1, <1>1, <1>3 DEF Turned
<1>8. ASSUME NEW b \in DOMAIN h PROVE IsPath(next, id, b, h[b]) /\ Len(h[b]) <= (k + 1) + 1
  <2>1. CASE b \in D
    <3>1. h[b] = f[b]
      BY <2>1, <1>3 DEF Turned
    <3>2. IsPath(next, id, b, f[b]) /\ Len(f[b]) \in Nat /\ Len(f[b]) <= k + 1
      BY <2>1, <1>4
    <3> QED BY <3>1, <3>2
  <2>2. CASE b \in new
    BY <2>2, <1>6
  <2> QED BY <2>1, <2>2, <1>3 DEF Turned
<1>9. ASSUME NEW b \in DOMAIN h, Len(h[b]) <= k + 1, NEW c \in next[b]
      PROVE  c \in DOMAIN h /\ Len(h[c]) <= Len(h[b]) + 1
  <2>1. b \in D /\ h[b] = f[b]
    <3>1. CASE b \in D
      BY <3>1, <1>3 DEF Turned
    <3>2. CASE b \in new
      BY <3>2, <1>6, <1>9
    <3> QED BY <3>1, <3>2, <1>3 DEF Turned
  <2>2. c \in D \cup new
    BY <2>1, <1>3 DEF Turned
  <2>3. CASE c \in D
    <3>1. h[c] = f[c] /\ Len(f[c]) <= k + 1 /\ Len(f[c]) \in Nat /\ Len(f[b]) \in Nat
      BY <2>1, <2>3, <1>3, <1>4 DEF Turned
    <3>2. CASE Len(f[b]) <= k
      BY <2>1, <3>1, <3>2, <1>3, <1>5, <2>3 DEF Turned
    <3>3. CASE Len(f[b]) > k
      BY <2>1, <3>1, <3>3, <1>3, <2>3 DEF Turned
    <3> QED BY <3>1, <3>2, <3>3
  <2>4. CASE c \notin D
    <3>1. Len(f[b]) = k + 1
      BY <2>1, <2>4, <1>4, <1>5
    <3>2. Len(h[c]) = k + 2
      BY <2>2, <2>4, <1>6
    <3> QED BY <2>1, <2>2, <3>1, <3>2, <1>3 DEF Turned
  <2> QED BY <2>3, <2>4
<1>10. Cardinality(DOMAIN h) > k + 1 \/ IsClosed(next, DOMAIN h)
  <2>1. CASE new = {}
    <3>1. DOMAIN h = D /\ \A i \in D : next[i] \subseteq D
      BY <2>1, <1>3 DEF Turned
    <3> QED BY <3>1 DEF IsClosed
  <2>2. CASE new # {}
    <3>1. ~ IsClosed(next, D)
      BY <2>2, <1>3 DEF Turned, IsClosed
    <3>2. Cardinality(D) > k
      BY <3>1 DEF SearchInv, D
    <3>3. IsFiniteSet(D) /\ IsFiniteSet(D \cup new) /\ Cardinality(D) \in Nat /\ Cardinality(D \cup new) \in Nat
      BY <1>1, <1>2, FS_Subset, FS_Union, FS_CardinalityType
    <3>4. Cardinality(D) < Cardinality(D \cup new)
      <4>1. PICK n \in new : n \notin D
        BY <2>2, <1>3 DEF Turned
      <4>2. D \in SUBSET (D \cup new) /\ D # D \cup new
        BY <4>1
      <4>3. Cardinality(D) <= Cardinality(D \cup new) /\ (Cardinality(D) = Cardinality(D \cup new) => D = D \cup new)
        BY <4>2, <3>3, FS_Subset
      <4> QED BY <4>2, <4>3, <3>3
    <3> QED BY <3>2, <3>3, <3>4, <1>3 DEF Turned
  <2> QED BY <2>1, <2>2
<1>11. ASSUME NEW U \in SUBSET N, id \in U, IsClosed(next, U) PROVE DOMAIN h \subseteq U
  <2>1. D \subseteq U
    BY <1>11 DEF SearchInv, D
  <2>2. new \subseteq U
    BY <2>1, <1>3, <1>11 DEF Turned, IsClosed
  <2> QED BY <2>1, <2>2, <1>3 DEF Turned
<1>12. k + 1 \in Nat /\ (k + 1) + 1 = k + 2
  OBVIOUS
<1> QED BY <1>7, <1>8, <1>9, <1>10, <1>11 DEF SearchInv, h

\* A search finds the least closed set that has its start, and a shortest path to each.
LEMMA SearchIs ==
  ASSUME NEW N, IsFiniteSet(N), NEW next \in [N -> SUBSET N], NEW id \in N
  PROVE  Searched(next, N, id, Search(next, id))
<1> DEFINE n == Cardinality(N)
           base == [i \in {id} |-> <<id>>]
           found == CHOOSE found : found = [k \in 0..n |-> IF k = 0 THEN base ELSE NextFound(next, found[k - 1])]
<1>1. n \in Nat /\ DOMAIN next = N
  BY FS_CardinalityType
<1>2. \E f : f = [k \in 0..n |-> IF k = 0 THEN base ELSE NextFound(next, f[k - 1])]
  <2> DEFINE V == UNION {[D -> Seq(N)] : D \in SUBSET N}
             step == [k \in 1..n |-> [f \in V |-> NextFound(next, f)]]
  <2>1. base \in V
    <3>1. base \in [{id} -> Seq(N)] /\ {id} \in SUBSET N
      OBVIOUS
    <3> HIDE DEF base
    <3> QED BY <3>1
  <2>2. ASSUME NEW f \in V PROVE NextFound(next, f) \in V
    <3>1. PICK D \in SUBSET N : f \in [D -> Seq(N)]
      OBVIOUS
    <3>2. PICK new \in SUBSET N : \E before \in [new -> D] :
                 Turned(N, next, D, f, new, before, NextFound(next, f))
      BY <3>1, NextFoundIs
    <3>3. NextFound(next, f) \in [D \cup new -> Seq(N)] /\ D \cup new \in SUBSET N
      BY <3>2 DEF Turned
    <3> QED BY <3>3
  <2> HIDE DEF V
  <2>3. step \in [1..n -> [V -> V]]
    BY <2>2
  <2>4. \A k \in 1..n : \A f \in V : step[k][f] = NextFound(next, f)
    OBVIOUS
  <2> HIDE DEF step, base, n
  <2>5. PICK f \in [0..n -> V] : IteratesTo(f, n, base, step)
    <3>1. n \in Nat
      BY <1>1
    <3> QED BY <3>1, <2>1, <2>3, Iterates
  <2>6. \A k \in 0..n : f[k] = IF k = 0 THEN base ELSE NextFound(next, f[k - 1])
    <3> TAKE k \in 0..n
    <3>1. CASE k = 0
      BY <2>5, <3>1 DEF IteratesTo
    <3>2. CASE k # 0
      <4>1. k \in 1..n /\ k - 1 \in 0..n
        BY <3>2, <1>1
      <4> QED BY <3>2, <4>1, <2>4, <2>5 DEF IteratesTo
    <3> QED BY <3>1, <3>2
  <2>7. f = [k \in 0..n |-> IF k = 0 THEN base ELSE NextFound(next, f[k - 1])]
    BY <2>5, <2>6
  <2> QED BY <2>7
<1>3. found = [k \in 0..n |-> IF k = 0 THEN base ELSE NextFound(next, found[k - 1])]
  BY <1>2
<1>4. Search(next, id) = found[n]
  BY <1>1 DEF Search
<1> HIDE DEF found, n
<1>5. found[0] = base /\ \A k \in Nat : k + 1 <= n => found[k + 1] = NextFound(next, found[k])
  <2>1. 0 \in 0..n /\ \A k \in Nat : k + 1 <= n => k + 1 \in 0..n /\ k + 1 # 0 /\ (k + 1) - 1 = k
    BY <1>1
  <2> QED BY <1>3, <2>1
<1> DEFINE T == {k \in Nat : k <= n => SearchInv(next, N, id, k, found[k])}
<1>6. 0 \in T
  BY <1>5, SearchStarts
<1>7. ASSUME NEW k \in Nat, k \in T PROVE k + 1 \in T
  <2> SUFFICES ASSUME k + 1 <= n PROVE SearchInv(next, N, id, k + 1, found[k + 1])
    OBVIOUS
  <2>1. SearchInv(next, N, id, k, found[k]) /\ found[k + 1] = NextFound(next, found[k])
    BY <1>1, <1>5, <1>7
  <2> QED BY <2>1, SearchTurns
<1> HIDE DEF T
<1>8. n \in T
  BY <1>1, <1>6, <1>7, NatSetInduction
<1> DEFINE f == found[n]
<1>9. SearchInv(next, N, id, n, f)
  BY <1>1, <1>8 DEF T
<1> HIDE DEF f
<1>10. IsClosed(next, DOMAIN f)
  <2>1. Cardinality(DOMAIN f) <= n
    BY <1>9, FS_Subset DEF SearchInv, n
  <2>2. Cardinality(DOMAIN f) \in Nat
    BY <1>9, FS_Subset, FS_CardinalityType DEF SearchInv
  <2> QED BY <1>1, <1>9, <2>1, <2>2 DEF SearchInv
<1>11. ASSUME NEW b \in DOMAIN f, NEW c \in next[b] PROVE c \in DOMAIN f /\ Len(f[c]) <= Len(f[b]) + 1
  <2>1. c \in DOMAIN f
    BY <1>10 DEF IsClosed
  <2>2. Len(f[b]) \in Nat /\ Len(f[c]) \in Nat /\ Len(f[b]) <= n + 1 /\ Len(f[c]) <= n + 1
    BY <2>1, <1>9 DEF SearchInv, IsPath
  <2>3. CASE Len(f[b]) <= n
    BY <2>1, <2>3, <1>9 DEF SearchInv
  <2>4. CASE Len(f[b]) > n
    BY <2>1, <2>2, <2>4, <1>1
  <2> QED BY <2>2, <2>3, <2>4, <1>1
<1>12. Searched(next, N, id, f)
  BY <1>9, <1>11 DEF SearchInv, Searched
<1> QED BY <1>4, <1>12 DEF f

\* Whatever leads to an id is not shorter than what was found for it.
LEMMA WalkIsFound ==
  ASSUME NEW N, NEW next \in [N -> SUBSET N], NEW id \in N, NEW f, Searched(next, N, id, f),
         NEW b, NEW p, IsPath(next, id, b, p)
  PROVE  b \in DOMAIN f /\ Len(f[b]) <= Len(p)
<1> DEFINE T == {j \in Nat : j < Len(p) => p[j + 1] \in DOMAIN f /\ Len(f[p[j + 1]]) <= j + 1}
<1>1. Len(p) \in Nat /\ Len(p) > 0 /\ p[1] = id /\ p[Len(p)] = b
  BY DEF IsPath
<1>2. 0 \in T
  <2>1. id \in DOMAIN f /\ Len(f[id]) = 1
    BY DEF Searched
  <2>2. p[0 + 1] = id
    <3>1. 0 + 1 = 1
      OBVIOUS
    <3> QED BY <1>1, <3>1
  <2> DEFINE x == p[0 + 1]
  <2>3. x = id
    BY <2>2
  <2> HIDE DEF x
  <2>4. x \in DOMAIN f /\ Len(f[x]) = 1 /\ 1 <= 0 + 1
    BY <2>1, <2>3
  <2> QED BY <2>4 DEF x
<1>3. ASSUME NEW j \in Nat, j \in T PROVE j + 1 \in T
  <2> SUFFICES ASSUME j + 1 < Len(p) PROVE p[(j + 1) + 1] \in DOMAIN f /\ Len(f[p[(j + 1) + 1]]) <= (j + 1) + 1
    OBVIOUS
  <2> DEFINE x == p[j + 1]
             y == p[(j + 1) + 1]
  <2>1. x \in DOMAIN f /\ Len(f[x]) <= j + 1
    BY <1>1, <1>3
  <2>2. y \in next[x]
    <3>1. (j + 1) + 1 \in 2..Len(p) /\ ((j + 1) + 1) - 1 = j + 1
      BY <1>1
    <3> QED BY <3>1 DEF IsPath
  <2> HIDE DEF x, y
  <2>3. y \in DOMAIN f /\ Len(f[y]) <= Len(f[x]) + 1
    BY <2>1, <2>2 DEF Searched
  <2>4. Len(f[x]) \in Nat /\ Len(f[y]) \in Nat
    BY <2>1, <2>3 DEF Searched, IsPath
  <2> QED BY <2>1, <2>3, <2>4 DEF y
<1>4. Len(p) - 1 \in T
  <2>1. Len(p) - 1 \in Nat
    BY <1>1
  <2> HIDE DEF T
  <2> QED BY <2>1, <1>2, <1>3, NatSetInduction
<1>5. Len(p) - 1 < Len(p) /\ (Len(p) - 1) + 1 = Len(p)
  BY <1>1
<1> QED BY <1>1, <1>4, <1>5

\* Where edges are followed both ways, a path can be gone back.
LEMMA PathBack ==
  ASSUME NEW next, NEW a, NEW b, NEW p, IsPath(next, a, b, p),
         \A k \in 2..Len(p) : p[k - 1] \in next[p[k]]
  PROVE  \E q : IsPath(next, b, a, q) /\ Len(q) = Len(p)
<1> DEFINE n == Len(p)
           q == [k \in 1..n |-> p[n + 1 - k]]
<1>1. n \in Nat /\ n > 0 /\ p[1] = a /\ p[n] = b
  BY DEF IsPath
<1> HIDE DEF n
<1>2. Len(q) = n
  <2>1. q = [k \in 1..n |-> q[k]] /\ DOMAIN q = 1..n
    OBVIOUS
  <2> HIDE DEF q
  <2>2. IsSequence(q)
    BY <2>1, <1>1, FunctionIsSequence
  <2>3. Len(q) \in Nat /\ DOMAIN q = 1..Len(q)
    BY <2>2 DEF IsSequence
  <2> DEFINE m == Len(q)
  <2>4. m \in Nat /\ 1..n = 1..m
    BY <2>1, <2>3
  <2> HIDE DEF m
  <2>5. n \in 1..m
    <3>1. n \in 1..n
      BY <1>1
    <3> QED BY <2>4, <3>1
  <2>6. m \in 1..n
    <3>1. m \in 1..m
      BY <1>1, <2>4, <2>5
    <3> QED BY <2>4, <3>1
  <2> QED BY <1>1, <2>4, <2>5, <2>6 DEF m
<1>3. q[1] = b /\ q[n] = a
  <2>1. 1 \in 1..n /\ n \in 1..n /\ n + 1 - 1 = n /\ n + 1 - n = 1
    BY <1>1
  <2> QED BY <1>1, <2>1
<1>4. ASSUME NEW k \in 2..n PROVE q[k] \in next[q[k - 1]]
  <2>1. k \in 1..n /\ k - 1 \in 1..n
    BY <1>1
  <2> DEFINE m == n + 1 - (k - 1)
  <2>2. m \in 2..n /\ m - 1 = n + 1 - k
    BY <1>1
  <2>3. q[k] = p[m - 1] /\ q[k - 1] = p[m]
    BY <2>1, <2>2
  <2> HIDE DEF q, m
  <2> QED BY <2>2, <2>3 DEF n
<1> HIDE DEF q
<1> QED BY <1>1, <1>2, <1>3, <1>4 DEF IsPath, n

\* What is reached from a along next, reaches a back along its opposite.
LEMMA ReachedBack ==
  ASSUME NEW N, IsFiniteSet(N), NEW next \in [N -> SUBSET N], NEW prev \in [N -> SUBSET N],
         \A x, y \in N : y \in next[x] => x \in prev[y],
         NEW a \in N, NEW b \in DOMAIN Search(next, a)
  PROVE  b \in N /\ a \in DOMAIN Search(prev, b)
<1> DEFINE R(x) == DOMAIN Search(prev, x)
           U == {x \in N : a \in R(x)}
<1>1. \A x \in N : Searched(prev, N, x, Search(prev, x))
  BY SearchIs
<1>2. Searched(next, N, a, Search(next, a))
  BY SearchIs
<1>3. a \in U
  BY <1>1 DEF Searched
<1>4. IsClosed(next, U)
  <2> SUFFICES ASSUME NEW x \in U, NEW y \in next[x] PROVE y \in U
    BY DEF IsClosed
  <2>1. x \in N /\ y \in N /\ a \in R(x) /\ x \in prev[y]
    OBVIOUS
  <2>2. R(y) \in SUBSET N /\ y \in R(y) /\ \A i \in R(y) : prev[i] \subseteq R(y)
    BY <1>1, <2>1 DEF Searched
  <2>3. \A V \in SUBSET N : x \in V /\ IsClosed(prev, V) => R(x) \subseteq V
    BY <1>1, <2>1 DEF Searched
  <2> HIDE DEF R
  <2>4. x \in R(y) /\ IsClosed(prev, R(y))
    BY <2>1, <2>2 DEF IsClosed
  <2> QED BY <2>1, <2>2, <2>3, <2>4
<1> HIDE DEF U
<1>5. DOMAIN Search(next, a) \subseteq U
  <2>1. U \in SUBSET N
    BY DEF U
  <2> QED BY <1>2, <1>3, <1>4, <2>1 DEF Searched
<1> QED BY <1>5 DEF U

-----------------------------------------------------------------------------
(* The queries *)

\* The edges from and to the ids of a graph lead to ids of the graph.
LEMMA GraphEdges ==
  ASSUME NEW g, NEW E \in SUBSET g.edges
  PROVE  /\ NodeIds(g) \subseteq Known(g)
         /\ \A i : Targets(E, i) \in SUBSET Known(g) /\ Sources(E, i) \in SUBSET Known(g)
         /\ \A i, j : j \in Targets(E, i) <=> i \in Sources(E, j)
         /\ \A i, j : j \in Targets(E, i) => i \in Known(g)
<1>1. ASSUME NEW e \in E PROVE e.from \in Known(g) /\ e.to \in Known(g)
  <2>1. e.from \in Ends(e) /\ e.to \in Ends(e)
    BY DEF Ends
  <2> QED BY <2>1 DEF Known
<1>2. ASSUME NEW i, NEW j PROVE j \in Targets(E, i) <=> \E e \in E : e.from = i /\ e.to = j
  BY DEF Targets
<1>3. ASSUME NEW i, NEW j PROVE i \in Sources(E, j) <=> \E e \in E : e.from = i /\ e.to = j
  BY DEF Sources
<1>4. NodeIds(g) \subseteq Known(g)
  BY DEF Known
<1> QED BY <1>1, <1>2, <1>3, <1>4

LEMMA AllFollowed == \A g : Followed(g, Anything) = g.edges
  BY DEF Followed

\* What the queries search: the ids of the graph, with what is next in a direction.
NextOf(g, E) == [i \in Known(g) |-> Targets(E, i)]
LastOf(g, E) == [i \in Known(g) |-> Sources(E, i)]
AroundOf(g) == [i \in Known(g) |-> Neighbours(g, i)]

LEMMA QueriesSearch ==
  ASSUME NEW g, NEW a \in NodeIds(g), NEW b
  PROVE  /\ Impact(g, a, Anything) = (DOMAIN Search(LastOf(g, g.edges), a) \ {a}) \cap NodeIds(g)
         /\ Deps(g, a, TRUE, Anything) = (DOMAIN Search(NextOf(g, g.edges), a) \ {a}) \cap NodeIds(g)
         /\ PathsFrom(g, a) = Search(AroundOf(g), a)
         /\ WouldCreateCycle(g, b, a) <=> b \in DOMAIN Search(NextOf(g, DependsOn(g)), a)
<1>1. Known(g) \cup {a} = Known(g)
  BY DEF Known
<1>2. Impact(g, a, Anything) = (DOMAIN Search(LastOf(g, g.edges), a) \ {a}) \cap NodeIds(g)
  BY <1>1, AllFollowed DEF Impact, LastOf
<1>3. Deps(g, a, TRUE, Anything) = (DOMAIN Search(NextOf(g, g.edges), a) \ {a}) \cap NodeIds(g)
  BY <1>1, AllFollowed DEF Deps, NextOf
<1>4. PathsFrom(g, a) = Search(AroundOf(g), a)
  BY <1>1 DEF PathsFrom, AroundOf
<1>5. WouldCreateCycle(g, b, a) <=> b \in DOMAIN Search(NextOf(g, DependsOn(g)), a)
  BY <1>1 DEF WouldCreateCycle, NextOf
<1> QED BY <1>2, <1>3, <1>4, <1>5

LEMMA SearchedAre ==
  ASSUME NEW g, NEW E \in SUBSET g.edges
  PROVE  /\ NextOf(g, E) \in [Known(g) -> SUBSET Known(g)]
         /\ LastOf(g, E) \in [Known(g) -> SUBSET Known(g)]
         /\ AroundOf(g) \in [Known(g) -> SUBSET Known(g)]
         /\ \A x, y \in Known(g) : y \in NextOf(g, E)[x] <=> x \in LastOf(g, E)[y]
         /\ \A x, y \in Known(g) : y \in AroundOf(g)[x] <=> x \in AroundOf(g)[y]
         /\ \A x, y \in Known(g) : y \in NextOf(g, E)[x] => y \in AroundOf(g)[x]
<1>1. /\ \A i : Targets(E, i) \in SUBSET Known(g) /\ Sources(E, i) \in SUBSET Known(g)
      /\ \A i, j : j \in Targets(E, i) <=> i \in Sources(E, j)
  BY GraphEdges
<1>2. /\ \A i : Targets(g.edges, i) \in SUBSET Known(g) /\ Sources(g.edges, i) \in SUBSET Known(g)
      /\ \A i, j : j \in Targets(g.edges, i) <=> i \in Sources(g.edges, j)
  BY GraphEdges
<1>3. \A i, j : j \in Neighbours(g, i) <=> j \in Targets(g.edges, i) \/ j \in Sources(g.edges, i)
  BY DEF Neighbours
<1>4. \A i : Targets(E, i) \subseteq Targets(g.edges, i)
  BY DEF Targets
<1>5. \A x \in Known(g) : NextOf(g, E)[x] = Targets(E, x) /\ LastOf(g, E)[x] = Sources(E, x)
                          /\ AroundOf(g)[x] = Neighbours(g, x)
  BY DEF NextOf, LastOf, AroundOf
<1>6. \A x \in Known(g) : Neighbours(g, x) \in SUBSET Known(g)
  BY <1>2, <1>3
<1>7. /\ NextOf(g, E) \in [Known(g) -> SUBSET Known(g)]
      /\ LastOf(g, E) \in [Known(g) -> SUBSET Known(g)]
      /\ AroundOf(g) \in [Known(g) -> SUBSET Known(g)]
  BY <1>1, <1>6 DEF NextOf, LastOf, AroundOf
<1>8. \A x, y \in Known(g) : y \in NextOf(g, E)[x] <=> x \in LastOf(g, E)[y]
  BY <1>1, <1>5
<1>9. \A x, y \in Known(g) : y \in AroundOf(g)[x] <=> x \in AroundOf(g)[y]
  BY <1>2, <1>3, <1>5
<1>10. \A x, y \in Known(g) : y \in NextOf(g, E)[x] => y \in AroundOf(g)[x]
  BY <1>3, <1>4, <1>5
<1> QED BY <1>7, <1>8, <1>9, <1>10

\* What a change hits and what a node needs, and the lengths of paths, always agree.
LEMMA AlwaysAgree ==
  ASSUME NEW g, IsFiniteSet(Known(g)) PROVE TraversalsAgree(g)
<1> DEFINE K == Known(g)
           next == NextOf(g, g.edges)
           last == LastOf(g, g.edges)
           around == AroundOf(g)
<1>1. /\ next \in [K -> SUBSET K] /\ last \in [K -> SUBSET K] /\ around \in [K -> SUBSET K]
      /\ \A x, y \in K : y \in next[x] <=> x \in last[y]
      /\ \A x, y \in K : y \in around[x] <=> x \in around[y]
      /\ \A x, y \in K : y \in next[x] => y \in around[x]
  BY SearchedAre
<1>2. NodeIds(g) \subseteq K /\ IsFiniteSet(K)
  BY DEF Known
<1> HIDE DEF K, next, last, around
<1>3. ASSUME NEW a \in NodeIds(g)
      PROVE  /\ Searched(around, K, a, PathsFrom(g, a)) /\ Searched(next, K, a, Search(next, a))
             /\ Impact(g, a, Anything) = (DOMAIN Search(last, a) \ {a}) \cap NodeIds(g)
             /\ Deps(g, a, TRUE, Anything) = (DOMAIN Search(next, a) \ {a}) \cap NodeIds(g)
             /\ PathsFrom(g, a) = Search(around, a)
  <2>1. a \in K
    BY <1>2
  <2>2. /\ Impact(g, a, Anything) = (DOMAIN Search(last, a) \ {a}) \cap NodeIds(g)
        /\ Deps(g, a, TRUE, Anything) = (DOMAIN Search(next, a) \ {a}) \cap NodeIds(g)
        /\ PathsFrom(g, a) = Search(around, a)
    BY QueriesSearch DEF next, last, around
  <2>3. Searched(around, K, a, Search(around, a))
    BY <1>1, <1>2, <2>1, SearchIs
  <2>4. Searched(next, K, a, Search(next, a))
    BY <1>1, <1>2, <2>1, SearchIs
  <2> QED BY <2>2, <2>3, <2>4
<1>4. ASSUME NEW a \in NodeIds(g), NEW b \in DOMAIN PathsFrom(g, a)
      PROVE  b \in K /\ a \in DOMAIN PathsFrom(g, b)
  <2>1. a \in K /\ b \in DOMAIN Search(around, a)
    BY <1>2, <1>3
  <2>2. b \in K /\ a \in DOMAIN Search(around, b)
    BY <1>1, <1>2, <2>1, ReachedBack
  <2>3. PathsFrom(g, b) = Search(around, b)
    <3>1. Known(g) \cup {b} = Known(g)
      BY <2>2 DEF K
    <3> QED BY <3>1 DEF PathsFrom, AroundOf, around
  <2> QED BY <2>2, <2>3
<1>5. ASSUME NEW a \in NodeIds(g), NEW b \in NodeIds(g), b \in DOMAIN PathsFrom(g, a)
      PROVE  Len(PathsFrom(g, b)[a]) <= Len(PathsFrom(g, a)[b])
  <2> DEFINE p == PathsFrom(g, a)[b]
  <2>1. IsPath(around, a, b, p) /\ p \in Seq(K)
    <3> DEFINE paths == PathsFrom(g, a)
    <3>1. Searched(around, K, a, paths) /\ b \in DOMAIN paths
      BY <1>3, <1>5
    <3> HIDE DEF paths
    <3>2. IsPath(around, a, b, paths[b]) /\ paths[b] \in Seq(K)
      BY <3>1 DEF Searched
    <3> QED BY <3>2 DEF paths
  <2> HIDE DEF p
  <2>2. ASSUME NEW k \in 2..Len(p) PROVE p[k - 1] \in around[p[k]]
    <3>1. Len(p) \in Nat /\ k \in 1..Len(p) /\ k - 1 \in 1..Len(p)
      BY <2>1 DEF IsPath
    <3>2. p[k] \in K /\ p[k - 1] \in K
      BY <2>1, <3>1
    <3>3. p[k] \in around[p[k - 1]]
      BY <2>1 DEF IsPath
    <3> QED BY <3>2, <3>3, <1>1
  <2>3. PICK q : IsPath(around, b, a, q) /\ Len(q) = Len(p)
    BY <2>1, <2>2, PathBack
  <2>4. Searched(around, K, b, PathsFrom(g, b)) /\ b \in K
    BY <1>2, <1>3
  <2>5. Len(PathsFrom(g, b)[a]) <= Len(q)
    BY <1>1, <2>3, <2>4, WalkIsFound
  <2> QED BY <2>3, <2>5 DEF p
<1>6. ASSUME NEW a \in NodeIds(g), NEW b \in NodeIds(g)
      PROVE  Len(Path(g, a, b)) = Len(Path(g, b, a))
  <2>1. CASE b \in DOMAIN PathsFrom(g, a)
    <3>1. a \in DOMAIN PathsFrom(g, b)
      BY <2>1, <1>4
    <3>2. Path(g, a, b) = PathsFrom(g, a)[b] /\ Path(g, b, a) = PathsFrom(g, b)[a]
      BY <2>1, <3>1 DEF Path
    <3>3. Len(PathsFrom(g, a)[b]) <= Len(PathsFrom(g, b)[a]) /\ Len(PathsFrom(g, b)[a]) <= Len(PathsFrom(g, a)[b])
      BY <2>1, <3>1, <1>5
    <3>4. Len(PathsFrom(g, a)[b]) \in Nat /\ Len(PathsFrom(g, b)[a]) \in Nat
      BY <2>1, <3>1, <1>3 DEF Searched, IsPath
    <3> QED BY <3>2, <3>3, <3>4
  <2>2. CASE b \notin DOMAIN PathsFrom(g, a)
    <3>1. a \notin DOMAIN PathsFrom(g, b)
      BY <2>2, <1>4
    <3> QED BY <2>2, <3>1 DEF Path
  <2> QED BY <2>1, <2>2
<1>7. ASSUME NEW a \in NodeIds(g), NEW b \in NodeIds(g), a # b
      PROVE  b \in Impact(g, a, Anything) <=> a \in Deps(g, b, TRUE, Anything)
  <2>1. b \in Impact(g, a, Anything) <=> b \in DOMAIN Search(last, a)
    BY <1>3, <1>7
  <2>2. a \in Deps(g, b, TRUE, Anything) <=> a \in DOMAIN Search(next, b)
    BY <1>3, <1>7
  <2>3. a \in K /\ b \in K
    BY <1>2
  <2>4. b \in DOMAIN Search(last, a) => a \in DOMAIN Search(next, b)
    BY <1>1, <1>2, <2>3, ReachedBack
  <2>5. a \in DOMAIN Search(next, b) => b \in DOMAIN Search(last, a)
    BY <1>1, <1>2, <2>3, ReachedBack
  <2> QED BY <2>1, <2>2, <2>4, <2>5
<1>8. ASSUME NEW a \in NodeIds(g), NEW b \in NodeIds(g), a \in Deps(g, b, TRUE, Anything)
      PROVE  Path(g, a, b) # <<>>
  <2>1. a \in DOMAIN Search(next, b) /\ Searched(next, K, b, Search(next, b))
    BY <1>3, <1>8
  <2> DEFINE p == Search(next, b)[a]
  <2>2. IsPath(next, b, a, p) /\ p \in Seq(K)
    BY <2>1 DEF Searched
  <2> HIDE DEF p
  <2>3. ASSUME NEW k \in 2..Len(p) PROVE p[k] \in around[p[k - 1]]
    <3>1. Len(p) \in Nat /\ k \in 1..Len(p) /\ k - 1 \in 1..Len(p)
      BY <2>2 DEF IsPath
    <3>2. p[k] \in K /\ p[k - 1] \in K
      BY <2>2, <3>1
    <3>3. p[k] \in next[p[k - 1]]
      BY <2>2 DEF IsPath
    <3> QED BY <3>2, <3>3, <1>1
  <2>4. IsPath(around, b, a, p)
    BY <2>2, <2>3 DEF IsPath
  <2>5. Searched(around, K, b, PathsFrom(g, b)) /\ b \in K
    BY <1>2, <1>3
  <2>6. a \in DOMAIN PathsFrom(g, b)
    BY <1>1, <2>4, <2>5, WalkIsFound
  <2>7. b \in DOMAIN PathsFrom(g, a)
    BY <2>6, <1>4
  <2>8. Len(PathsFrom(g, a)[b]) > 0
    BY <2>7, <1>3 DEF Searched, IsPath
  <2>9. Path(g, a, b) = PathsFrom(g, a)[b]
    BY <2>7 DEF Path
  <2>10. Len(<<>>) = 0
    OBVIOUS
  <2> QED BY <2>8, <2>9, <2>10
<1> QED BY <1>6, <1>7, <1>8 DEF TraversalsAgree

\* A path goes where it should, and none is shorter.
LEMMA PathsAreAlwaysShortest ==
  ASSUME NEW g, IsFiniteSet(Known(g)) PROVE PathsAreShortest(g)
<1> SUFFICES ASSUME NEW a \in NodeIds(g), NEW b \in DOMAIN PathsFrom(g, a)
             PROVE  LET paths == PathsFrom(g, a)
                        path == paths[b]
                    IN /\ path[1] = a /\ path[Len(path)] = b
                       /\ \A k \in 2..Len(path) : path[k] \in Neighbours(g, path[k - 1])
                       /\ \A c \in Neighbours(g, b) : c \in DOMAIN paths /\ Len(paths[c]) <= Len(path) + 1
  BY DEF PathsAreShortest
<1> DEFINE K == Known(g)
           around == AroundOf(g)
           paths == PathsFrom(g, a)
           path == paths[b]
<1>1. around \in [K -> SUBSET K] /\ a \in K /\ paths = Search(around, a)
  BY SearchedAre, QueriesSearch DEF Known
<1>2. \A x \in K : around[x] = Neighbours(g, x)
  BY DEF AroundOf
<1> HIDE DEF K, around, paths
<1>3. Searched(around, K, a, paths)
  BY <1>1, SearchIs DEF K
<1>4. b \in DOMAIN paths
  BY DEF paths
<1>5. IsPath(around, a, b, path) /\ path \in Seq(K) /\ b \in K
  BY <1>3, <1>4 DEF Searched
<1>6. \A c \in Neighbours(g, b) : c \in DOMAIN paths /\ Len(paths[c]) <= Len(path) + 1
  BY <1>2, <1>3, <1>4, <1>5 DEF Searched
<1> HIDE DEF path
<1>7. ASSUME NEW k \in 2..Len(path) PROVE path[k] \in Neighbours(g, path[k - 1])
  <2>1. Len(path) \in Nat /\ k - 1 \in 1..Len(path)
    BY <1>5 DEF IsPath
  <2>2. path[k - 1] \in K
    BY <1>5, <2>1
  <2> QED BY <1>2, <1>5, <2>2 DEF IsPath
<1>8. path[1] = a /\ path[Len(path)] = b
  BY <1>5 DEF IsPath
<1> QED BY <1>6, <1>7, <1>8 DEF paths, path

-----------------------------------------------------------------------------
(* The sort *)

NeedsOf(g, id) == Targets(DependsOn(g), id)

\* Ids of which each needs another one of them, or what cannot be sorted at all.
StuckIn(g, U) == \A i \in U : \E d \in NeedsOf(g, i) : d \in U \/ d \notin Sortable(g)

\* What is sorted after k generations: each id once and after all it needs, and nothing
\* that is stuck; and k of them, unless no more can be sorted.
SortInv(g, k, s) ==
  /\ s \in Seq(Sortable(g)) /\ Len(s) \in Nat /\ DOMAIN s = 1..Len(s)
  /\ \A i, j \in DOMAIN s : s[i] = s[j] => i = j
  /\ \A j \in DOMAIN s : \A d \in NeedsOf(g, s[j]) : \E i \in DOMAIN s : i < j /\ s[i] = d
  /\ Len(s) >= k \/ Free(g, s) = {}
  /\ \A U \in SUBSET Sortable(g) : StuckIn(g, U) => \A j \in DOMAIN s : s[j] \notin U

LEMMA SortableIsFinite ==
  ASSUME NEW g, IsFiniteSet(Known(g))
  PROVE  /\ Sortable(g) \subseteq Known(g) /\ IsFiniteSet(Sortable(g)) /\ NodeIds(g) \subseteq Sortable(g)
         /\ Cardinality(Sortable(g)) \in Nat
<1>1. DependsOn(g) \in SUBSET g.edges
  BY DEF DependsOn, Followed
<1>2. ASSUME NEW e \in DependsOn(g) PROVE e.from \in Known(g)
  <2>1. e.from \in Ends(e) /\ e \in g.edges
    BY <1>1 DEF Ends
  <2> QED BY <2>1 DEF Known
<1>3. Sortable(g) \subseteq Known(g)
  BY <1>2 DEF Sortable, Known
<1> QED BY <1>3, FS_Subset, FS_CardinalityType DEF Sortable

\* A generation in some order.
LEMMA GenerationIs ==
  ASSUME NEW g, IsFiniteSet(Known(g)), NEW s
  PROVE  LET t == SetToSeq(Free(g, s))
         IN /\ t \in Seq(Sortable(g)) /\ IsSequence(t) /\ Len(t) \in Nat /\ DOMAIN t = 1..Len(t)
            /\ ToSet(t) = Free(g, s) /\ Len(t) = Cardinality(Free(g, s))
            /\ \A i, j \in DOMAIN t : t[i] = t[j] => i = j
<1> DEFINE t == SetToSeq(Free(g, s))
<1>1. Free(g, s) \in SUBSET Sortable(g)
  BY DEF Free
<1>2. IsFiniteSet(Free(g, s))
  BY <1>1, SortableIsFinite, FS_Subset
<1>3. /\ IsSequence(t) /\ ToSet(t) = Free(g, s) /\ Len(t) = Cardinality(Free(g, s))
      /\ \A i, j \in DOMAIN t : t[i] = t[j] => i = j
  BY <1>2, SetToSeqIs
<1> HIDE DEF t
<1>4. t \in Seq(ToSet(t)) /\ Len(t) \in Nat /\ DOMAIN t = 1..Len(t)
  BY <1>3 DEF IsSequence
<1>5. t \in Seq(Sortable(g))
  BY <1>1, <1>3, <1>4
<1> QED BY <1>3, <1>4, <1>5 DEF t

LEMMA GenerationSorts ==
  ASSUME NEW g, IsFiniteSet(Known(g)), NEW k \in Nat, NEW s, SortInv(g, k, s)
  PROVE  SortInv(g, k + 1, s \o SetToSeq(Free(g, s)))
<1> DEFINE t == SetToSeq(Free(g, s))
           r == s \o t
           n == Len(s)
           m == Len(t)
<1>1. /\ t \in Seq(Sortable(g)) /\ IsSequence(t) /\ m \in Nat /\ DOMAIN t = 1..m
      /\ ToSet(t) = Free(g, s) /\ m = Cardinality(Free(g, s))
      /\ \A i, j \in DOMAIN t : t[i] = t[j] => i = j
  BY GenerationIs
<1> HIDE DEF t
<1>2. /\ s \in Seq(Sortable(g)) /\ n \in Nat /\ DOMAIN s = 1..n
      /\ \A i, j \in DOMAIN s : s[i] = s[j] => i = j
  BY DEF SortInv
<1>3. IsSequence(s)
  BY <1>2, SeqIsSequence
<1>4. /\ Len(r) = n + m /\ DOMAIN r = 1..(n + m)
      /\ \A i \in 1..n : r[i] = s[i]
      /\ \A j \in 1..m : r[n + j] = t[j]
  BY <1>1, <1>3, ConcatPieces
<1>5. r \in Seq(Sortable(g))
  BY <1>1, <1>2
<1> HIDE DEF r, n, m
<1>6. ASSUME NEW x \in DOMAIN r
      PROVE  \/ x \in 1..n /\ r[x] = s[x] /\ x \in DOMAIN s
             \/ \E j \in 1..m : x = n + j /\ r[x] = t[j] /\ j \in DOMAIN t
  <2>1. CASE x <= n
    BY <2>1, <1>1, <1>2, <1>4
  <2>2. CASE x > n
    <3>1. x - n \in 1..m /\ x = n + (x - n)
      BY <2>2, <1>1, <1>2, <1>4
    <3> QED BY <3>1, <1>1, <1>4
  <2> QED BY <2>1, <2>2, <1>1, <1>2, <1>4
<1>7. ASSUME NEW j \in DOMAIN t
      PROVE  t[j] \in Sortable(g) /\ (\A i \in DOMAIN s : s[i] # t[j]) /\ NeedsOf(g, t[j]) \subseteq ToSet(s)
  <2>1. t[j] \in Free(g, s)
    BY <1>1 DEF ToSet
  <2> QED BY <2>1 DEF Free, NeedsOf, ToSet
<1>8. ASSUME NEW x \in DOMAIN r, NEW y \in DOMAIN r, r[x] = r[y] PROVE x = y
  <2>1. CASE x \in DOMAIN s /\ y \in DOMAIN s /\ r[x] = s[x] /\ r[y] = s[y]
    BY <2>1, <1>2, <1>8
  <2>2. CASE \E j \in 1..m : x = n + j /\ r[x] = t[j] /\ j \in DOMAIN t
    <3>1. PICK j \in 1..m : x = n + j /\ r[x] = t[j] /\ j \in DOMAIN t
      BY <2>2
    <3>2. CASE y \in DOMAIN s /\ r[y] = s[y]
      BY <3>1, <3>2, <1>7, <1>8
    <3>3. CASE \E i \in 1..m : y = n + i /\ r[y] = t[i] /\ i \in DOMAIN t
      BY <3>1, <3>3, <1>1, <1>8
    <3> QED BY <3>2, <3>3, <1>6
  <2>3. CASE \E j \in 1..m : y = n + j /\ r[y] = t[j] /\ j \in DOMAIN t
    <3>1. PICK j \in 1..m : y = n + j /\ r[y] = t[j] /\ j \in DOMAIN t
      BY <2>3
    <3>2. CASE x \in DOMAIN s /\ r[x] = s[x]
      BY <3>1, <3>2, <1>7, <1>8
    <3> QED BY <3>2, <2>2, <1>6
  <2> QED BY <2>1, <2>2, <2>3, <1>6
<1>9. ASSUME NEW x \in DOMAIN r, NEW d \in NeedsOf(g, r[x]) PROVE \E i \in DOMAIN r : i < x /\ r[i] = d
  <2>1. CASE x \in 1..n /\ r[x] = s[x] /\ x \in DOMAIN s
    <3>1. PICK i \in DOMAIN s : i < x /\ s[i] = d
      BY <2>1, <1>9 DEF SortInv
    <3>2. i \in 1..n /\ i \in DOMAIN r /\ r[i] = s[i]
      BY <1>1, <1>2, <1>4
    <3> QED BY <3>1, <3>2
  <2>2. CASE \E j \in 1..m : x = n + j /\ r[x] = t[j] /\ j \in DOMAIN t
    <3>1. PICK j \in 1..m : x = n + j /\ r[x] = t[j] /\ j \in DOMAIN t
      BY <2>2
    <3>2. PICK i \in DOMAIN s : s[i] = d
      BY <3>1, <1>7, <1>9 DEF ToSet
    <3>3. i \in 1..n /\ i \in DOMAIN r /\ r[i] = s[i] /\ i < x
      BY <3>1, <1>1, <1>2, <1>4
    <3> QED BY <3>2, <3>3
  <2> QED BY <2>1, <2>2, <1>6
<1>10. Len(r) >= k + 1 \/ Free(g, r) = {}
  <2>1. CASE Free(g, s) = {}
    <3>1. m = 0
      BY <2>1, <1>1, FS_EmptySet
    <3>2. r = s
      BY <3>1, <1>1, <1>2 DEF r, m
    <3> QED BY <2>1, <3>2
  <2>2. CASE Free(g, s) # {}
    <3>1. m # 0
      BY <2>2, <1>1 DEF ToSet
    <3>2. n >= k
      BY <2>2 DEF SortInv, n
    <3> QED BY <3>1, <3>2, <1>1, <1>2, <1>4
  <2> QED BY <2>1, <2>2
<1>11. ASSUME NEW U \in SUBSET Sortable(g), StuckIn(g, U), NEW x \in DOMAIN r PROVE r[x] \notin U
  <2>1. \A i \in DOMAIN s : s[i] \notin U
    BY <1>11 DEF SortInv
  <2>2. CASE x \in 1..n /\ r[x] = s[x] /\ x \in DOMAIN s
    BY <2>1, <2>2
  <2>3. CASE \E j \in 1..m : x = n + j /\ r[x] = t[j] /\ j \in DOMAIN t
    <3>1. PICK j \in DOMAIN t : r[x] = t[j]
      BY <2>3
    <3>2. SUFFICES ASSUME t[j] \in U PROVE FALSE
      BY <3>1
    <3>3. PICK d \in NeedsOf(g, t[j]) : d \in U \/ d \notin Sortable(g)
      BY <3>2, <1>11 DEF StuckIn
    <3>4. PICK i \in DOMAIN s : s[i] = d
      BY <3>3, <1>7 DEF ToSet
    <3>5. s[i] \in Sortable(g)
      BY <1>2
    <3> QED BY <3>3, <3>4, <3>5, <2>1
  <2> QED BY <2>2, <2>3, <1>6
<1>12. Len(r) \in Nat /\ DOMAIN r = 1..Len(r)
  BY <1>1, <1>2, <1>4
<1> QED BY <1>5, <1>8, <1>9, <1>10, <1>11, <1>12 DEF SortInv, r, t

\* In the end, what is not sorted is stuck.
LEMMA SortIs ==
  ASSUME NEW g, IsFiniteSet(Known(g))
  PROVE  \E k \in Nat : SortInv(g, k, KahnSort(g)) /\ Free(g, KahnSort(g)) = {}
<1> DEFINE S == Sortable(g)
           n == Cardinality(S)
           sorted == CHOOSE sorted : sorted = [k \in 0..n |-> IF k = 0 THEN <<>>
                                                 ELSE sorted[k - 1] \o SetToSeq(Free(g, sorted[k - 1]))]
<1>1. n \in Nat /\ IsFiniteSet(S)
  BY SortableIsFinite
<1>2. \E f : f = [k \in 0..n |-> IF k = 0 THEN <<>> ELSE f[k - 1] \o SetToSeq(Free(g, f[k - 1]))]
  <2> DEFINE V == Seq(S)
             step == [k \in 1..n |-> [s \in V |-> s \o SetToSeq(Free(g, s))]]
  <2>1. <<>> \in V
    OBVIOUS
  <2>2. ASSUME NEW s \in V PROVE s \o SetToSeq(Free(g, s)) \in V
    BY GenerationIs
  <2> HIDE DEF V
  <2>3. step \in [1..n -> [V -> V]]
    BY <2>2
  <2>4. \A k \in 1..n : \A s \in V : step[k][s] = s \o SetToSeq(Free(g, s))
    OBVIOUS
  <2> HIDE DEF step, n
  <2>5. PICK f \in [0..n -> V] : IteratesTo(f, n, <<>>, step)
    <3>1. n \in Nat
      BY <1>1
    <3> QED BY <3>1, <2>1, <2>3, Iterates
  <2>6. \A k \in 0..n : f[k] = IF k = 0 THEN <<>> ELSE f[k - 1] \o SetToSeq(Free(g, f[k - 1]))
    <3> TAKE k \in 0..n
    <3>1. CASE k = 0
      BY <2>5, <3>1 DEF IteratesTo
    <3>2. CASE k # 0
      <4>1. k \in 1..n /\ k - 1 \in 0..n
        BY <3>2, <1>1
      <4> QED BY <3>2, <4>1, <2>4, <2>5 DEF IteratesTo
    <3> QED BY <3>1, <3>2
  <2>7. f = [k \in 0..n |-> IF k = 0 THEN <<>> ELSE f[k - 1] \o SetToSeq(Free(g, f[k - 1]))]
    BY <2>5, <2>6
  <2> QED BY <2>7
<1>3. sorted = [k \in 0..n |-> IF k = 0 THEN <<>> ELSE sorted[k - 1] \o SetToSeq(Free(g, sorted[k - 1]))]
  BY <1>2
<1>4. KahnSort(g) = sorted[n]
  BY DEF KahnSort
<1> HIDE DEF sorted, n
<1>5. sorted[0] = <<>>
      /\ \A k \in Nat : k + 1 <= n => sorted[k + 1] = sorted[k] \o SetToSeq(Free(g, sorted[k]))
  <2>1. 0 \in 0..n /\ \A k \in Nat : k + 1 <= n => k + 1 \in 0..n /\ k + 1 # 0 /\ (k + 1) - 1 = k
    BY <1>1
  <2> QED BY <1>3, <2>1
<1> DEFINE T == {k \in Nat : k <= n => SortInv(g, k, sorted[k])}
<1>6. 0 \in T
  <2>1. <<>> \in Seq(S) /\ Len(<<>>) = 0 /\ DOMAIN <<>> = {} /\ 1..0 = {}
    OBVIOUS
  <2>2. SortInv(g, 0, <<>>)
    BY <2>1 DEF SortInv
  <2> QED BY <2>2, <1>5
<1>7. ASSUME NEW k \in Nat, k \in T PROVE k + 1 \in T
  <2> SUFFICES ASSUME k + 1 <= n PROVE SortInv(g, k + 1, sorted[k + 1])
    OBVIOUS
  <2>1. SortInv(g, k, sorted[k])
    BY <1>1, <1>7
  <2>2. sorted[k + 1] = sorted[k] \o SetToSeq(Free(g, sorted[k]))
    BY <1>5
  <2> QED BY <2>1, <2>2, GenerationSorts
<1> HIDE DEF T
<1>8. n \in T
  BY <1>1, <1>6, <1>7, NatSetInduction
<1> DEFINE s == sorted[n]
<1>9. SortInv(g, n, s)
  BY <1>1, <1>8 DEF T
<1> HIDE DEF s
<1>10. Free(g, s) = {}
  <2> SUFFICES ASSUME Len(s) >= n PROVE Free(g, s) = {}
    BY <1>9 DEF SortInv
  <2>1. ToSet(s) \subseteq S /\ IsFiniteSet(ToSet(s)) /\ Cardinality(ToSet(s)) = Len(s)
    <3>1. s \in Seq(S) /\ \A i, j \in DOMAIN s : s[i] = s[j] => i = j
      BY <1>9 DEF SortInv
    <3> QED BY <3>1, SeqIsSequence, DistinctCount
  <2>2. Cardinality(ToSet(s)) >= Cardinality(S)
    BY <2>1 DEF n
  <2>3. ToSet(s) = S
    BY <1>1, <2>1, <2>2, FS_Subset DEF n
  <2> QED BY <2>3 DEF Free
<1> QED BY <1>1, <1>4, <1>9, <1>10 DEF s

\* Where every dependency is that of a node, what is sorted is all nodes, or else the
\* others are stuck.
OfNodes(g) == \A e \in DependsOn(g) : e.from \in NodeIds(g)

LEMMA SortedAre ==
  ASSUME NEW g, IsFiniteSet(Known(g)), OfNodes(g)
  PROVE  LET s == KahnSort(g)
         IN /\ IsSequence(s) /\ Len(s) \in Nat /\ DOMAIN s = 1..Len(s)
            /\ \A i, j \in DOMAIN s : s[i] = s[j] => i = j
            /\ \A j \in DOMAIN s : \A d \in NeedsOf(g, s[j]) : \E i \in DOMAIN s : i < j /\ s[i] = d
            /\ TopologicalSort(g).ok <=> ToSet(s) = NodeIds(g)
            /\ TopologicalSort(g).ok <=> ~ \E U \in SUBSET NodeIds(g) : U # {} /\ Stuck(g, U)
<1> DEFINE s == KahnSort(g)
           N == NodeIds(g)
<1>1. Sortable(g) = N /\ IsFiniteSet(N)
  BY SortableIsFinite DEF Sortable, OfNodes
<1>2. PICK k \in Nat : SortInv(g, k, s) /\ Free(g, s) = {}
  BY SortIs
<1>3. TopologicalSort(g).ok <=> Len(s) = Cardinality(N)
  BY DEF TopologicalSort
<1> HIDE DEF s, N
<1>4. /\ s \in Seq(N) /\ Len(s) \in Nat /\ DOMAIN s = 1..Len(s)
      /\ \A i, j \in DOMAIN s : s[i] = s[j] => i = j
      /\ \A j \in DOMAIN s : \A d \in NeedsOf(g, s[j]) : \E i \in DOMAIN s : i < j /\ s[i] = d
  BY <1>1, <1>2 DEF SortInv
<1>5. IsSequence(s) /\ ToSet(s) \subseteq N
  BY <1>4, SeqIsSequence
<1>6. Cardinality(ToSet(s)) = Len(s)
  BY <1>4, <1>5, DistinctCount
<1>7. TopologicalSort(g).ok <=> ToSet(s) = N
  BY <1>1, <1>3, <1>5, <1>6, FS_Subset
<1>8. \A U : Stuck(g, U) <=> StuckIn(g, U)
  BY <1>1 DEF Stuck, StuckIn, NeedsOf, N
<1>9. ASSUME ToSet(s) # N PROVE \E U \in SUBSET N : U # {} /\ Stuck(g, U)
  <2> DEFINE U == N \ ToSet(s)
  <2>1. U \in SUBSET N /\ U # {}
    BY <1>5, <1>9
  <2>2. ASSUME NEW i \in U PROVE \E d \in NeedsOf(g, i) : d \in U \/ d \notin N
    <3>1. i \notin Free(g, s) /\ i \in N /\ i \notin ToSet(s)
      BY <1>2
    <3>2. PICK d \in NeedsOf(g, i) : d \notin ToSet(s)
      BY <3>1, <1>1 DEF Free, NeedsOf
    <3> QED BY <3>2
  <2>3. Stuck(g, U)
    <3> HIDE DEF U
    <3> QED BY <2>2 DEF Stuck, NeedsOf, N
  <2> HIDE DEF U
  <2> QED BY <2>1, <2>3
<1>10. ASSUME NEW U \in SUBSET N, U # {}, Stuck(g, U) PROVE ToSet(s) # N
  <2>1. StuckIn(g, U)
    BY <1>8, <1>10
  <2>2. \A j \in DOMAIN s : s[j] \notin U
    BY <2>1, <1>1, <1>2 DEF SortInv
  <2> QED BY <2>2, <1>10 DEF ToSet
<1>11. TopologicalSort(g).ok <=> ~ \E U \in SUBSET N : U # {} /\ Stuck(g, U)
  BY <1>7, <1>9, <1>10
<1> QED BY <1>4, <1>5, <1>7, <1>11 DEF s, N

LEMMA AlwaysSorted ==
  ASSUME NEW g, IsFiniteSet(Known(g)) PROVE SortsInOrder(g)
<1> DEFINE s == KahnSort(g)
           at(id) == CHOOSE k \in DOMAIN s : s[k] = id
<1>1. TopologicalSort(g).order = s
  BY DEF TopologicalSort
<1> SUFFICES ASSUME OfNodes(g)
             PROVE  /\ ~ TopologicalSort(g).ok <=> \E ids \in SUBSET NodeIds(g) : ids # {} /\ Stuck(g, ids)
                    /\ TopologicalSort(g).ok => \A e \in DependsOn(g) : at(e.to) < at(e.from)
  BY <1>1 DEF SortsInOrder, OfNodes
<1>2. /\ IsSequence(s) /\ Len(s) \in Nat /\ DOMAIN s = 1..Len(s)
      /\ \A i, j \in DOMAIN s : s[i] = s[j] => i = j
      /\ \A j \in DOMAIN s : \A d \in NeedsOf(g, s[j]) : \E i \in DOMAIN s : i < j /\ s[i] = d
      /\ TopologicalSort(g).ok <=> ToSet(s) = NodeIds(g)
      /\ TopologicalSort(g).ok <=> ~ \E U \in SUBSET NodeIds(g) : U # {} /\ Stuck(g, U)
  BY SortedAre
<1> HIDE DEF s
<1>3. ASSUME TopologicalSort(g).ok, NEW e \in DependsOn(g) PROVE at(e.to) < at(e.from)
  <2>1. PICK j \in DOMAIN s : s[j] = e.from
    BY <1>2, <1>3 DEF ToSet, OfNodes
  <2>2. e.to \in NeedsOf(g, s[j])
    BY <2>1 DEF NeedsOf, Targets
  <2>3. PICK i \in DOMAIN s : i < j /\ s[i] = e.to
    BY <1>2, <2>2
  <2>4. at(e.from) = j /\ at(e.to) = i
    BY <1>2, <2>1, <2>3
  <2> QED BY <2>3, <2>4
<1> QED BY <1>2, <1>3

\* A new dependency between nodes, and nothing else, comes with an edge.
LEMMA DependencyAdded ==
  ASSUME NEW g, g = [project |-> g.project, nodes |-> g.nodes, edges |-> g.edges],
         NEW a \in NodeIds(g), NEW b \in NodeIds(g)
  PROVE  LET h == AddEdge(g, NewEdge(a, b, "depends_on"))
         IN /\ NodeIds(h) = NodeIds(g) /\ Known(h) = Known(g)
            /\ \A i : NeedsOf(h, i) = IF i = a THEN NeedsOf(g, i) \cup {b} ELSE NeedsOf(g, i)
            /\ OfNodes(g) => OfNodes(h)
<1> DEFINE n == NewEdge(a, b, "depends_on")
           new == {e \in {n} : \A f \in g.edges : ~ SameEdge(e, f)}
           h == AddEdge(g, n)
<1>1. n.from = a /\ n.to = b /\ n.relation = "depends_on" /\ SameEdge(n, n)
  BY DEF NewEdge, SameEdge
<1> HIDE DEF n
<1>2. h = [g EXCEPT !.edges = g.edges \cup Deduped(new)]
  BY DEF AddEdge, AddEdges
<1>3. Deduped(new) \subseteq {n} /\ (n \in g.edges \cup Deduped(new) \/ \E f \in g.edges : SameEdge(n, f))
  <2>1. CASE new = {}
    <3>1. \E f \in g.edges : SameEdge(n, f)
      BY <2>1
    <3>2. Deduped(new) = {}
      BY <2>1 DEF Deduped
    <3> QED BY <3>1, <3>2
  <2>2. CASE new # {}
    <3>1. new = {n}
      BY <2>2
    <3> HIDE DEF new
    <3>2. (CHOOSE f \in new : SameEdge(n, f)) = n
      BY <3>1, <1>1
    <3>3. Deduped(new) = {n}
      BY <3>1, <3>2 DEF Deduped
    <3> QED BY <3>3
  <2> QED BY <2>1, <2>2
<1> DEFINE more == Deduped(new)
<1> HIDE DEF more
<1>4. h = [project |-> g.project, nodes |-> g.nodes, edges |-> g.edges \cup more]
  <2> DEFINE edges == g.edges \cup more
             k == [g EXCEPT !.edges = edges]
  <2>1. k = [g EXCEPT !.edges = edges]
    OBVIOUS
  <2> HIDE DEF k, edges
  <2>2. k = [project |-> g.project, nodes |-> g.nodes, edges |-> edges]
    BY <2>1
  <2> QED BY <1>2, <2>2 DEF k, edges, more
<1>5. h.edges = g.edges \cup more /\ h.nodes = g.nodes
  BY <1>4
<1> HIDE DEF h
<1>6. more \subseteq {n} /\ (n \in h.edges \/ \E f \in g.edges : SameEdge(n, f))
  BY <1>3, <1>5 DEF more
<1>7. NodeIds(h) = NodeIds(g)
  BY <1>5 DEF NodeIds
<1>8. Known(h) = Known(g)
  <2>1. \A e \in more : Ends(e) \subseteq NodeIds(g)
    BY <1>1, <1>6 DEF Ends
  <2>2. ASSUME NEW x PROVE x \in Known(h) <=> x \in Known(g)
    <3>1. x \in Known(h) <=> x \in NodeIds(g) \/ \E e \in h.edges : x \in Ends(e)
      BY <1>7 DEF Known
    <3>2. x \in Known(g) <=> x \in NodeIds(g) \/ \E e \in g.edges : x \in Ends(e)
      BY DEF Known
    <3> QED BY <3>1, <3>2, <2>1, <1>5
  <2> QED BY <2>2
<1>9. \A e : e \in DependsOn(g) <=> e \in g.edges /\ e.relation = "depends_on"
  BY DEF DependsOn, Followed, Anything
<1>10. \A e : e \in DependsOn(h) <=> e \in h.edges /\ e.relation = "depends_on"
  BY DEF DependsOn, Followed, Anything
<1>11. ASSUME NEW i, NEW d PROVE d \in NeedsOf(h, i) <=> d \in NeedsOf(g, i) \/ (i = a /\ d = b)
  <2>1. d \in NeedsOf(h, i) <=> \E e \in h.edges : e.relation = "depends_on" /\ e.from = i /\ e.to = d
    BY <1>10 DEF NeedsOf, Targets
  <2>2. d \in NeedsOf(g, i) <=> \E e \in g.edges : e.relation = "depends_on" /\ e.from = i /\ e.to = d
    BY <1>9 DEF NeedsOf, Targets
  <2>3. i = a /\ d = b => \E e \in h.edges : e.relation = "depends_on" /\ e.from = i /\ e.to = d
    BY <1>1, <1>5, <1>6 DEF SameEdge
  <2> QED BY <2>1, <2>2, <2>3, <1>1, <1>5, <1>6
<1>12. ASSUME NEW i PROVE NeedsOf(h, i) = IF i = a THEN NeedsOf(g, i) \cup {b} ELSE NeedsOf(g, i)
  BY <1>11
<1>13. OfNodes(g) => OfNodes(h)
  BY <1>1, <1>5, <1>6, <1>7, <1>9, <1>10 DEF OfNodes
<1> QED BY <1>7, <1>8, <1>12, <1>13 DEF h, n

\* An edge is said to close a cycle just when the graph with it cannot be sorted.
LEMMA CyclesAreForeseen ==
  ASSUME NEW g, IsFiniteSet(Known(g)), g = [project |-> g.project, nodes |-> g.nodes, edges |-> g.edges]
  PROVE  CyclesForeseen(g)
<1> SUFFICES ASSUME TopologicalSort(g).ok, OfNodes(g), NEW a \in NodeIds(g), NEW b \in NodeIds(g)
             PROVE  WouldCreateCycle(g, a, b)
                      <=> ~ TopologicalSort(AddEdge(g, NewEdge(a, b, "depends_on"))).ok
  BY DEF CyclesForeseen, OfNodes
<1> DEFINE h == AddEdge(g, NewEdge(a, b, "depends_on"))
           K == Known(g)
           N == NodeIds(g)
           next == NextOf(g, DependsOn(g))
           R == DOMAIN Search(next, b)
<1>1. /\ NodeIds(h) = N /\ Known(h) = K /\ OfNodes(h)
      /\ \A i : NeedsOf(h, i) = IF i = a THEN NeedsOf(g, i) \cup {b} ELSE NeedsOf(g, i)
  BY DependencyAdded
<1> HIDE DEF h
<1>2. DependsOn(g) \in SUBSET g.edges
  BY DEF DependsOn, Followed
<1>3. next \in [K -> SUBSET K] /\ \A i \in K : next[i] = NeedsOf(g, i)
  BY <1>2, SearchedAre DEF NextOf, NeedsOf
<1>4. N \subseteq K /\ \A i : NeedsOf(g, i) # {} => i \in N
  BY DEF Known, NeedsOf, Targets, OfNodes
<1>5. WouldCreateCycle(g, a, b) <=> a \in R
  BY QueriesSearch
<1> HIDE DEF next
<1>6. Searched(next, K, b, Search(next, b))
  BY <1>3, <1>4, SearchIs
<1> HIDE DEF K, N, R
<1>7. /\ TopologicalSort(h).ok <=> ~ \E U \in SUBSET N : U # {} /\ Stuck(h, U)
      /\ TopologicalSort(g).ok <=> ~ \E U \in SUBSET N : U # {} /\ Stuck(g, U)
  BY <1>1, SortedAre DEF K, N
<1>8. /\ \A U : Stuck(h, U) <=> \A i \in U : \E d \in NeedsOf(h, i) : d \in U \/ d \notin N
      /\ \A U : Stuck(g, U) <=> \A i \in U : \E d \in NeedsOf(g, i) : d \in U \/ d \notin N
  BY <1>1 DEF Stuck, NeedsOf, N
<1>9. ASSUME a \in R PROVE \E U \in SUBSET N : U # {} /\ Stuck(h, U)
  <2> DEFINE p == Search(next, b)[a]
             U == {p[k] : k \in 1..Len(p)}
  <2>1. IsPath(next, b, a, p) /\ p \in Seq(K)
    BY <1>6, <1>9 DEF Searched, R
  <2>2. Len(p) \in Nat /\ Len(p) > 0 /\ p[1] = b /\ p[Len(p)] = a
    BY <2>1 DEF IsPath
  <2> HIDE DEF p
  <2>3. ASSUME NEW k \in 1..Len(p)
        PROVE  p[k] \in N /\ \E d \in NeedsOf(h, p[k]) : d \in U
    <3>1. CASE k = Len(p)
      <4>1. p[k] = a /\ b \in NeedsOf(h, a) /\ b \in U /\ a \in N
        BY <3>1, <2>2, <1>1 DEF N
      <4> QED BY <4>1
    <3>2. CASE k # Len(p)
      <4>1. k + 1 \in 2..Len(p) /\ (k + 1) - 1 = k /\ k + 1 \in 1..Len(p)
        BY <3>2, <2>2
      <4>2. p[k + 1] \in next[p[k]] /\ p[k] \in K /\ p[k + 1] \in U
        BY <2>1, <4>1 DEF IsPath
      <4>3. p[k + 1] \in NeedsOf(g, p[k])
        BY <4>2, <1>3
      <4>4. p[k + 1] \in NeedsOf(h, p[k]) /\ p[k] \in N
        BY <4>3, <1>1, <1>4
      <4> QED BY <4>2, <4>4
    <3> QED BY <3>1, <3>2
  <2>4. U \in SUBSET N /\ b \in U
    BY <2>2, <2>3
  <2>5. \A i \in U : \E d \in NeedsOf(h, i) : d \in U
    BY <2>3
  <2> HIDE DEF U
  <2> QED BY <2>4, <2>5, <1>8
<1>10. ASSUME NEW U \in SUBSET N, U # {}, Stuck(h, U) PROVE a \in R
  <2> SUFFICES ASSUME a \notin R PROVE FALSE
    OBVIOUS
  <2>1. \A i \in U : \E d \in NeedsOf(h, i) : d \in U \/ d \notin N
    BY <1>8, <1>10
  <2>2. ASSUME NEW i \in U, i # a PROVE \E d \in NeedsOf(g, i) : d \in U \/ d \notin N
    BY <2>1, <2>2, <1>1
  <2>3. b \in R /\ \A i \in R : i \in K /\ NeedsOf(g, i) \subseteq R
    BY <1>3, <1>6 DEF Searched, R
  <2>4. CASE b \in U
    <3> DEFINE W == U \cap R
    <3>1. W \in SUBSET N /\ b \in W
      BY <2>3, <2>4
    <3>2. ASSUME NEW i \in W PROVE \E d \in NeedsOf(g, i) : d \in W \/ d \notin N
      <4>1. i \in U /\ i # a /\ NeedsOf(g, i) \subseteq R
        BY <2>3
      <4>2. PICK d \in NeedsOf(g, i) : d \in U \/ d \notin N
        BY <4>1, <2>2
      <4> QED BY <4>1, <4>2
    <3> HIDE DEF W
    <3>3. Stuck(g, W)
      BY <3>2, <1>8
    <3> QED BY <3>1, <3>3, <1>7
  <2>5. CASE b \notin U
    <3>1. ASSUME NEW i \in U PROVE \E d \in NeedsOf(g, i) : d \in U \/ d \notin N
      <4>1. PICK d \in NeedsOf(h, i) : d \in U \/ d \notin N
        BY <2>1
      <4>2. d # b
        BY <4>1, <2>5 DEF N
      <4>3. d \in NeedsOf(g, i)
        BY <4>1, <4>2, <1>1
      <4> QED BY <4>1, <4>3
    <3>2. Stuck(g, U)
      BY <3>1, <1>8
    <3> QED BY <3>2, <1>7, <1>10
  <2> QED BY <2>4, <2>5
<1> QED BY <1>5, <1>7, <1>9, <1>10 DEF h

IsGraph(g) == g = [project |-> g.project, nodes |-> g.nodes, edges |-> g.edges] /\ IsFiniteSet(Known(g))

\* Of every finite graph, what the queries answer fits together; the sort finds an order
\* just when there is one, and an edge is said to close a cycle just when there is none
\* once it is added (query.rs, validator.rs).
THEOREM QueriesFit ==
  ASSUME NEW g, IsGraph(g)
  PROVE  TraversalsAgree(g) /\ PathsAreShortest(g) /\ SortsInOrder(g) /\ CyclesForeseen(g)
  BY AlwaysAgree, PathsAreAlwaysShortest, AlwaysSorted, CyclesAreForeseen DEF IsGraph

\* What is read of a plan is a graph.
LEMMA ReadIsGraph == ASSUME NEW relations PROVE IsGraph(AsRead(relations)) /\ NodeIds(AsRead(relations)) = Present
<1> DEFINE g == AsRead(relations)
           pairs == {p \in Present \X Ids : p[2] \in graph.deps[p[1]]}
<1>1. g = [project |-> NoProject,
           nodes |-> [i \in Present |-> [Texts[i] EXCEPT !.status = graph.status[i]]],
           edges |-> {NewEdge(p[1], p[2], relations[p]) : p \in pairs}]
  BY DEF AsRead
<1> HIDE DEF g
<1>2. NodeIds(g) = Present /\ g.edges = {NewEdge(p[1], p[2], relations[p]) : p \in pairs}
  BY <1>1 DEF NodeIds
<1>3. ASSUME NEW e \in g.edges PROVE e.from \in Ids /\ e.to \in Ids
  <2>1. PICK p \in pairs : e = NewEdge(p[1], p[2], relations[p])
    BY <1>2
  <2>2. p[1] \in Ids /\ p[2] \in Ids
    BY DEF Present
  <2> QED BY <2>1, <2>2 DEF NewEdge
<1>4. Known(g) \in SUBSET Ids
  BY <1>2, <1>3 DEF Known, Ends, Present
<1>5. IsFiniteSet(Known(g))
  BY <1>4, NamesAreFinite
<1>6. g = [project |-> g.project, nodes |-> g.nodes, edges |-> g.edges]
  BY <1>1
<1> QED BY <1>2, <1>5, <1>6 DEF IsGraph, g

\* So do the answers about a planned graph.
THEOREM PlanTraversals == PlanSpec => []TraversalsFit
<1>1. TraversalsFit
  BY ReadIsGraph, QueriesFit DEF TraversalsFit
<1> QED BY <1>1, PTL

-----------------------------------------------------------------------------
(* Sums and sorting *)

IsTotal(f, s) == f[0] = 0 /\ \A k \in 1..Len(s) : f[k] = f[k - 1] + s[k]

LEMMA TotalSteps ==
  ASSUME NEW s \in Seq(Nat)
  PROVE  \E f \in [0..Len(s) -> Nat] : IsTotal(f, s) /\ Total(s) = f[Len(s)]
<1> DEFINE n == Len(s)
           step == [k \in 1..n |-> [u \in Nat |-> u + s[k]]]
           total == CHOOSE total : total = [k \in 0..n |-> IF k = 0 THEN 0 ELSE total[k - 1] + s[k]]
<1>1. n \in Nat /\ 0 \in Nat /\ \A k \in 1..n : s[k] \in Nat
  OBVIOUS
<1>2. step \in [1..n -> [Nat -> Nat]]
  BY <1>1
<1>3. \A k \in 1..n : \A u \in Nat : step[k][u] = u + s[k]
  OBVIOUS
<1>4. Total(s) = total[n]
  BY DEF Total
<1> HIDE DEF step, n
<1>5. PICK f \in [0..n -> Nat] : IteratesTo(f, n, 0, step)
  BY <1>1, <1>2, Iterates
<1>6. f[0] = 0 /\ \A k \in 1..n : f[k] = f[k - 1] + s[k]
  <2>1. \A k \in 1..n : k - 1 \in 0..n
    BY <1>1
  <2> QED BY <1>3, <1>5, <2>1 DEF IteratesTo
<1>7. f = [k \in 0..n |-> IF k = 0 THEN 0 ELSE f[k - 1] + s[k]]
  <2>1. \A k \in 0..n : f[k] = IF k = 0 THEN 0 ELSE f[k - 1] + s[k]
    <3> TAKE k \in 0..n
    <3>1. k # 0 => k \in 1..n
      BY <1>1
    <3> QED BY <1>6, <3>1
  <2> QED BY <2>1
<1>8. total = [k \in 0..n |-> IF k = 0 THEN 0 ELSE total[k - 1] + s[k]]
  BY <1>7
<1> HIDE DEF total
<1>9. total \in [0..n -> Nat] /\ total[0] = 0 /\ \A k \in 1..n : total[k] = total[k - 1] + s[k]
  <2>1. 0 \in 0..n /\ \A k \in 1..n : k \in 0..n /\ k # 0
    BY <1>1
  <2>2. total[0] = 0 /\ \A k \in 1..n : total[k] = total[k - 1] + s[k]
    BY <1>8, <2>1
  <2> DEFINE T == {k \in Nat : k <= n => total[k] \in Nat}
  <2>3. 0 \in T
    BY <2>2
  <2>4. ASSUME NEW k \in Nat, k \in T PROVE k + 1 \in T
    <3> SUFFICES ASSUME k + 1 <= n PROVE total[k + 1] \in Nat
      OBVIOUS
    <3>1. k + 1 \in 1..n /\ (k + 1) - 1 = k /\ k <= n
      BY <1>1
    <3>2. total[k] \in Nat /\ s[k + 1] \in Nat
      BY <1>1, <2>4, <3>1
    <3> QED BY <2>2, <3>1, <3>2
  <2> HIDE DEF T
  <2>5. Nat \subseteq T
    BY <2>3, <2>4, NatSetInduction
  <2>6. \A k \in 0..n : total[k] \in Nat
    BY <2>5, <1>1 DEF T
  <2> QED BY <1>8, <2>2, <2>6
<1> QED BY <1>4, <1>9 DEF IsTotal, n

LEMMA TotalIs ==
  ASSUME NEW s \in Seq(Nat)
  PROVE  Total(s) \in Nat
<1>1. PICK f \in [0..Len(s) -> Nat] : IsTotal(f, s) /\ Total(s) = f[Len(s)]
  BY TotalSteps
<1>2. Len(s) \in 0..Len(s)
  OBVIOUS
<1> QED BY <1>1, <1>2

LEMMA TotalOfNothing == Total(<<>>) = 0
<1>1. PICK f \in [0..Len(<<>>) -> Nat] : IsTotal(f, <<>>) /\ Total(<<>>) = f[Len(<<>>)]
  <2>1. <<>> \in Seq(Nat)
    OBVIOUS
  <2> QED BY <2>1, TotalSteps
<1> QED BY <1>1 DEF IsTotal

LEMMA TotalAppend ==
  ASSUME NEW s \in Seq(Nat), NEW x \in Nat
  PROVE  Total(Append(s, x)) = Total(s) + x
<1> DEFINE n == Len(s)
           t == Append(s, x)
<1>1. t \in Seq(Nat) /\ Len(t) = n + 1 /\ t[n + 1] = x /\ n \in Nat /\ \A k \in 1..n : t[k] = s[k]
  OBVIOUS
<1>2. PICK f \in [0..n -> Nat] : IsTotal(f, s) /\ Total(s) = f[n]
  BY TotalSteps
<1> HIDE DEF t
<1>3. PICK h \in [0..(n + 1) -> Nat] : IsTotal(h, t) /\ Total(t) = h[n + 1]
  BY <1>1, TotalSteps
<1> HIDE DEF n
<1> DEFINE T == {k \in Nat : k <= n => f[k] = h[k]}
<1>4. f[0] = 0 /\ h[0] = 0 /\ \A k \in 1..n : f[k] = f[k - 1] + s[k]
  BY <1>2, <1>3 DEF IsTotal, n
<1>5. \A k \in 1..(n + 1) : h[k] = h[k - 1] + t[k]
  BY <1>3, <1>1 DEF IsTotal
<1>6. 0 \in T
  BY <1>4
<1>7. ASSUME NEW k \in Nat, k \in T PROVE k + 1 \in T
  <2> SUFFICES ASSUME k + 1 <= n PROVE f[k + 1] = h[k + 1]
    OBVIOUS
  <2>1. k + 1 \in 1..n /\ k + 1 \in 1..(n + 1) /\ (k + 1) - 1 = k /\ k <= n
    BY <1>1
  <2>2. t[k + 1] = s[k + 1] /\ f[k] = h[k]
    BY <1>1, <1>7, <2>1
  <2> QED BY <1>4, <1>5, <2>1, <2>2
<1> HIDE DEF T
<1>8. Nat \subseteq T
  BY <1>6, <1>7, NatSetInduction
<1>9. f[n] = h[n] /\ n + 1 \in 1..(n + 1) /\ (n + 1) - 1 = n
  BY <1>1, <1>8 DEF T
<1> QED BY <1>1, <1>2, <1>3, <1>5, <1>9 DEF t

\* A relation that orders all of a set.
Orders(before, S) ==
  /\ \A x, y \in S : <<x, y>> \in before \/ <<y, x>> \in before
  /\ \A x, y, z \in S : <<x, y>> \in before /\ <<y, z>> \in before => <<x, z>> \in before

IsSorting(s, n, S, before) ==
  /\ s \in [1..n -> S] /\ IsInjective(s)
  /\ \A i, j \in 1..n : i < j => <<s[i], s[j]>> \in before

LEMMA WithoutOne ==
  ASSUME NEW S, IsFiniteSet(S), NEW n \in Nat, Cardinality(S) = n + 1, NEW x \in S
  PROVE  IsFiniteSet(S \ {x}) /\ Cardinality(S \ {x}) = n
<1>1. Cardinality(S \ {x}) = Cardinality(S) - 1 /\ IsFiniteSet(S \ {x})
  BY FS_RemoveElement
<1> QED BY <1>1

LEMMA SomeThere ==
  ASSUME NEW S, IsFiniteSet(S), NEW n \in Nat, Cardinality(S) = n + 1
  PROVE  \E x : x \in S
<1>1. S # {}
  <2>1. Cardinality({}) = 0
    BY FS_EmptySet
  <2> QED BY <2>1
<1> QED BY <1>1

LEMMA GreatestExists ==
  ASSUME NEW S, IsFiniteSet(S), S # {}, NEW before, Orders(before, S)
  PROVE  \E m \in S : \A y \in S : <<y, m>> \in before
<1> DEFINE T == {n \in Nat : \A U \in SUBSET S : Cardinality(U) = n + 1 =>
                                \E m \in U : \A y \in U : <<y, m>> \in before}
<1>1. \A U \in SUBSET S : IsFiniteSet(U)
  BY FS_Subset
<1>2. 0 \in T
  <2> SUFFICES ASSUME NEW U \in SUBSET S, Cardinality(U) = 0 + 1
               PROVE  \E m \in U : \A y \in U : <<y, m>> \in before
    OBVIOUS
  <2>1. PICK x : x \in U
    BY <1>1, SomeThere
  <2>2. Cardinality(U \ {x}) = 0 /\ IsFiniteSet(U \ {x})
    BY <1>1, <2>1, WithoutOne
  <2>3. U \ {x} = {}
    BY <2>2, FS_EmptySet
  <2>4. <<x, x>> \in before
    BY <2>1 DEF Orders
  <2> QED BY <2>1, <2>3, <2>4
<1>3. ASSUME NEW n \in Nat, n \in T PROVE n + 1 \in T
  <2> SUFFICES ASSUME NEW U \in SUBSET S, Cardinality(U) = (n + 1) + 1
               PROVE  \E m \in U : \A y \in U : <<y, m>> \in before
    OBVIOUS
  <2>1. PICK x : x \in U
    BY <1>1, SomeThere
  <2>2. Cardinality(U \ {x}) = n + 1 /\ U \ {x} \in SUBSET S
    BY <1>1, <2>1, WithoutOne
  <2>3. PICK m \in U \ {x} : \A y \in U \ {x} : <<y, m>> \in before
    BY <1>3, <2>2
  <2>4. x \in S /\ m \in S /\ \A y \in U : y \in S
    BY <2>1, <2>3
  <2>5. CASE <<x, m>> \in before
    BY <2>3, <2>5
  <2>6. CASE <<x, m>> \notin before
    <3>1. <<m, x>> \in before /\ <<x, x>> \in before
      BY <2>4, <2>6 DEF Orders
    <3>2. ASSUME NEW y \in U PROVE <<y, x>> \in before
      <4>1. CASE y = x
        BY <3>1, <4>1
      <4>2. CASE y # x
        BY <2>3, <2>4, <3>1, <4>2 DEF Orders
      <4> QED BY <4>1, <4>2
    <3> QED BY <2>1, <3>2
  <2> QED BY <2>5, <2>6
<1> HIDE DEF T
<1>4. Nat \subseteq T
  BY <1>2, <1>3, NatSetInduction
<1>5. Cardinality(S) \in Nat /\ Cardinality(S) # 0
  BY FS_CardinalityType, FS_EmptySet
<1>6. Cardinality(S) - 1 \in T /\ Cardinality(S) = (Cardinality(S) - 1) + 1
  BY <1>4, <1>5
<1> QED BY <1>6 DEF T

LEMMA SortingExists ==
  ASSUME NEW S, IsFiniteSet(S), NEW before, Orders(before, S)
  PROVE  \E s : IsSorting(s, Cardinality(S), S, before)
<1> DEFINE T == {n \in Nat : \A U \in SUBSET S : Cardinality(U) = n => \E s : IsSorting(s, n, U, before)}
<1>1. \A U \in SUBSET S : IsFiniteSet(U)
  BY FS_Subset
<1>2. 0 \in T
  <2> SUFFICES ASSUME NEW U \in SUBSET S, Cardinality(U) = 0 PROVE \E s : IsSorting(s, 0, U, before)
    OBVIOUS
  <2> DEFINE s == [i \in 1..0 |-> i]
  <2>1. 1..0 = {}
    OBVIOUS
  <2>2. IsSorting(s, 0, U, before)
    BY <2>1 DEF IsSorting, IsInjective
  <2> QED BY <2>2
<1>3. ASSUME NEW n \in Nat, n \in T PROVE n + 1 \in T
  <2> SUFFICES ASSUME NEW U \in SUBSET S, Cardinality(U) = n + 1
               PROVE  \E s : IsSorting(s, n + 1, U, before)
    OBVIOUS
  <2>1. U # {} /\ IsFiniteSet(U)
    BY <1>1, SomeThere
  <2>2. Orders(before, U)
    BY DEF Orders
  <2>3. PICK m \in U : \A y \in U : <<y, m>> \in before
    BY <2>1, <2>2, GreatestExists
  <2>4. Cardinality(U \ {m}) = n /\ U \ {m} \in SUBSET S
    BY <2>1, WithoutOne
  <2>5. PICK s : IsSorting(s, n, U \ {m}, before)
    BY <1>3, <2>4
  <2> DEFINE t == [i \in 1..(n + 1) |-> IF i = n + 1 THEN m ELSE s[i]]
  <2>6. /\ \A i \in 1..n : s[i] \in U /\ s[i] # m
        /\ \A i, j \in 1..n : s[i] = s[j] => i = j
        /\ \A i, j \in 1..n : i < j => <<s[i], s[j]>> \in before
    BY <2>5 DEF IsSorting, IsInjective
  <2>7. \A i \in 1..(n + 1) : i = n + 1 \/ i \in 1..n
    OBVIOUS
  <2>8. t[n + 1] = m /\ (\A i \in 1..n : t[i] = s[i]) /\ DOMAIN t = 1..(n + 1)
    OBVIOUS
  <2> HIDE DEF t
  <2>9. \A i \in 1..(n + 1) : t[i] \in U
    BY <2>6, <2>7, <2>8
  <2>10. t \in [1..(n + 1) -> U]
    <3>1. t = [i \in 1..(n + 1) |-> t[i]]
      BY DEF t
    <3> QED BY <2>9, <3>1
  <2>11. \A i, j \in 1..(n + 1) : t[i] = t[j] => i = j
    BY <2>6, <2>7, <2>8
  <2>12. ASSUME NEW i \in 1..(n + 1), NEW j \in 1..(n + 1), i < j PROVE <<t[i], t[j]>> \in before
    <3>1. i \in 1..n
      BY <2>12
    <3>2. CASE j = n + 1
      BY <2>3, <2>8, <2>9, <3>1, <3>2
    <3>3. CASE j \in 1..n
      BY <2>6, <2>8, <2>12, <3>1, <3>3
    <3> QED BY <2>7, <3>2, <3>3
  <2>13. IsSorting(t, n + 1, U, before)
    BY <2>8, <2>10, <2>11, <2>12 DEF IsSorting, IsInjective
  <2> QED BY <2>13
<1> HIDE DEF T
<1>4. Nat \subseteq T
  BY <1>2, <1>3, NatSetInduction
<1>5. Cardinality(S) \in Nat /\ S \in SUBSET S
  BY FS_CardinalityType
<1> QED BY <1>4, <1>5 DEF T

\* A sorted set is a sequence of all of it, each once, in order.
LEMMA SortedIs ==
  ASSUME NEW S, IsFiniteSet(S), NEW before, Orders(before, S)
  PROVE  /\ Sorted(S, before) \in Seq(S) /\ ToSet(Sorted(S, before)) = S
         /\ \A i, j \in 1..Len(Sorted(S, before)) :
              i < j => <<Sorted(S, before)[i], Sorted(S, before)[j]>> \in before
<1> DEFINE n == Cardinality(S)
           s == Sorted(S, before)
<1>1. \E t : IsSorting(t, n, S, before)
  BY SortingExists
<1>2. \E t \in [1..n -> S] : IsInjective(t) /\ \A i, j \in DOMAIN t : i < j => <<t[i], t[j]>> \in before
  <2>1. PICK t : IsSorting(t, n, S, before)
    BY <1>1
  <2>2. t \in [1..n -> S] /\ DOMAIN t = 1..n
    BY <2>1 DEF IsSorting
  <2> QED BY <2>1, <2>2 DEF IsSorting
<1>3. s \in [1..n -> S] /\ IsInjective(s) /\ \A i, j \in DOMAIN s : i < j => <<s[i], s[j]>> \in before
  BY <1>2 DEF Sorted
<1>4. n \in Nat
  BY FS_CardinalityType
<1> HIDE DEF s, n
<1>5. s \in Seq(S) /\ Len(s) = n /\ DOMAIN s = 1..n
  BY <1>3, <1>4
<1>6. s \in Injection(1..n, S)
  BY <1>3, <1>5 DEF Injection, IsInjective
<1>7. Cardinality(1..n) = n
  <2>1. Cardinality(1..n) = IF 1 > n THEN 0 ELSE n - 1 + 1
    BY <1>4, FS_Interval
  <2> QED BY <1>4, <2>1
<1>8. s \in Surjection(1..n, S)
  BY <1>6, <1>7, FS_Injection DEF n
<1>9. ToSet(s) = S
  BY <1>3, <1>5, <1>8 DEF Surjection, ToSet
<1> QED BY <1>3, <1>5, <1>9 DEF s

-----------------------------------------------------------------------------
(* Tokens *)

Readable(node) == \A field \in Numbers : node[field] \in Nat

LEMMA ReadableIs ==
  ASSUME NEW node, Readable(node)
  PROVE  /\ node.start \in Nat /\ node.end \in Nat /\ node.heading \in Nat
         /\ node.signature \in Nat /\ node.description \in Nat
  BY DEF Readable, Numbers

LEMMA Products ==
  ASSUME NEW k \in Nat, NEW m \in Nat
  PROVE  k * m \in Nat /\ (k >= 1 /\ m >= 1 => k * m >= 1)
<1>1. k * m \in Nat
  OBVIOUS
<1>2. ASSUME k >= 1, m >= 1 PROVE k * m >= 1
  BY <1>2
<1> QED BY <1>1, <1>2

LEMMA TokensIs ==
  ASSUME NEW bytes \in Nat
  PROVE  /\ Tokens(bytes) \in Nat
         /\ \A limit \in Nat : limit >= 1 /\ bytes <= 4 * limit => Tokens(bytes) <= limit
<1>1. bytes \div 4 \in Nat /\ 4 * (bytes \div 4) <= bytes
  OBVIOUS
<1> DEFINE q == bytes \div 4
<1>2. q \in Nat /\ 4 * q <= bytes
  BY <1>1
<1>3. Tokens(bytes) = IF bytes = 0 THEN 0 ELSE Max({1, q})
  BY DEF Tokens
<1> HIDE DEF q
<1>4. Max({1, q}) \in {1, q}
  <2>1. {1, q} \in SUBSET (0..(q + 1)) /\ {1, q} # {} /\ q + 1 \in Nat
    BY <1>2
  <2> DEFINE S == {1, q}
  <2> HIDE DEF S
  <2>2. Max(S) \in S
    BY <2>1, MaxIs DEF S
  <2> QED BY <2>2 DEF S
<1> DEFINE m == Max({1, q})
<1>5. m = 1 \/ m = q
  BY <1>4
<1>6. Tokens(bytes) = IF bytes = 0 THEN 0 ELSE m
  BY <1>3
<1> HIDE DEF m
<1> DEFINE v == Tokens(bytes)
<1>7. v = IF bytes = 0 THEN 0 ELSE m
  BY <1>6
<1> HIDE DEF v
<1>8. v \in Nat /\ \A limit \in Nat : limit >= 1 /\ bytes <= 4 * limit => v <= limit
  BY <1>2, <1>5, <1>7
<1> QED BY <1>8 DEF v

LEMMA SourceIs ==
  ASSUME NEW node, Readable(node)
  PROVE  Source(node) \in Nat
<1>1. node.start \in Nat /\ node.end \in Nat
  BY ReadableIs
<1>2. CASE node.file \notin DOMAIN Lines
  BY <1>2 DEF Source
<1>3. CASE node.file \in DOMAIN Lines
  <2> DEFINE n == Lines[node.file]
             last == IF node.end = 0 THEN n ELSE Lesser(node.end, n)
             count == last - node.start + 1
  <2>1. n \in Nat /\ LineBytes \in Nat /\ LineBytes >= 1
    BY <1>3, LinesAssumption DEF LinesAssumption
  <2>2. last \in Nat
    BY <1>1, <2>1 DEF Lesser
  <2>3. CASE ~ (node.start >= 1 /\ (node.end = 0 \/ node.end >= node.start))
    <3>1. Source(node) = n * LineBytes
      BY <1>3, <2>3 DEF Source
    <3> QED BY <2>1, <3>1, Products
  <2>4. CASE node.start >= 1 /\ (node.end = 0 \/ node.end >= node.start)
    <3>1. Source(node) = IF node.start > n THEN 0 ELSE JoinedLines(count)
      BY <1>3, <2>4 DEF Source
    <3>2. CASE node.start > n
      BY <3>1, <3>2
    <3>3. CASE node.start <= n
      <4>1. count \in Nat /\ count >= 1
        BY <1>1, <2>1, <2>4, <3>3 DEF Lesser
      <4> HIDE DEF count
      <4>2. count * LineBytes \in Nat /\ count * LineBytes >= 1
        BY <2>1, <4>1, Products
      <4> QED BY <1>1, <2>1, <3>1, <3>3, <4>2 DEF JoinedLines
    <3> QED BY <1>1, <2>1, <3>2, <3>3
  <2> QED BY <2>3, <2>4
<1> QED BY <1>2, <1>3

LEMMA ShownIs ==
  ASSUME NEW node, Readable(node)
  PROVE  Shown(node) \in Nat /\ TargetTokens(node) \in Nat /\ Tokens(Shown(node) + 30) \in Nat
<1>1. Shown(node) \in Nat /\ node.heading \in Nat
  BY ReadableIs, SourceIs DEF Shown
<1>2. Shown(node) + node.heading + 50 \in Nat /\ Shown(node) + 30 \in Nat
  BY <1>1
<1> QED BY <1>1, <1>2, TokensIs DEF TargetTokens

LEMMA CutIs ==
  ASSUME NEW content \in Nat, NEW line \in Nat, line >= 1, NEW place \in Nat
  PROVE  Cut(content, line, place) \in Nat /\ Cut(content, line, place) <= place
<1> DEFINE ends == {p \in {k * line - 1 : k \in 1..(content \div line)} : p < place}
<1>1. ends \in SUBSET (0..place)
  <2> SUFFICES ASSUME NEW p \in ends PROVE p \in 0..place
    OBVIOUS
  <2>1. PICK k \in 1..(content \div line) : p = k * line - 1
    OBVIOUS
  <2>2. content \div line \in Int
    OBVIOUS
  <2>3. k \in Nat /\ k >= 1
    BY <2>2
  <2>4. k * line \in Nat /\ k * line >= 1
    BY <2>3, Products
  <2>5. p < place
    OBVIOUS
  <2> QED BY <2>1, <2>4, <2>5
<1>2. Cut(content, line, place) = IF ends = {} THEN place ELSE Max(ends)
  BY DEF Cut
<1> HIDE DEF ends
<1>3. ends # {} => Max(ends) \in ends
  BY <1>1, MaxIs
<1> DEFINE m == Max(ends)
           v == Cut(content, line, place)
<1>4. v = (IF ends = {} THEN place ELSE m) /\ (ends # {} => m \in ends)
  BY <1>2, <1>3
<1> HIDE DEF m, v
<1>5. v \in Nat /\ v <= place
  BY <1>1, <1>4
<1> QED BY <1>5 DEF v

\* A piece takes no more than is left, the mark at its end included.
LEMMA TruncatedIs ==
  ASSUME NEW c, Source(c.node) \in Nat, c.node.description \in Nat, NEW left \in Nat, left >= 4
  PROVE  Truncated(c, left) \in Nat /\ Truncated(c, left) <= left
<1> DEFINE content == IF Source(c.node) > 0 THEN Source(c.node) ELSE c.node.description
           line == IF Source(c.node) > 0 THEN LineBytes ELSE content + 1
           place == Max({4 * left, 16}) - 16
           bytes == IF content <= 4 * left THEN content ELSE 16 + Cut(content, line, place)
<1>1. content \in Nat /\ line \in Nat /\ line >= 1
  BY LinesAssumption DEF LinesAssumption
<1>2. place \in Nat /\ place = 4 * left - 16
  <2> DEFINE S == {4 * left, 16}
             full == 4 * left
  <2>1. full \in Nat /\ full >= 16 /\ S = {full, 16}
    OBVIOUS
  <2>2. place = Max(S) - 16 /\ full = 4 * left
    OBVIOUS
  <2> HIDE DEF S, full, place
  <2>3. S \in SUBSET (0..full) /\ S # {}
    BY <2>1
  <2>4. Max(S) \in S /\ \A x \in S : x <= Max(S)
    BY <2>1, <2>3, MaxIs
  <2>5. Max(S) = full
    BY <2>1, <2>4
  <2> QED BY <2>1, <2>2, <2>5
<1>3. Truncated(c, left) = Tokens(bytes)
  BY DEF Truncated
<1> HIDE DEF content, line, place
<1>4. Cut(content, line, place) \in Nat /\ Cut(content, line, place) <= place
  BY <1>1, <1>2, CutIs
<1>5. bytes \in Nat /\ bytes <= 4 * left
  BY <1>1, <1>2, <1>4
<1> HIDE DEF bytes
<1> QED BY <1>3, <1>5, TokensIs

-----------------------------------------------------------------------------
(* Candidates *)

IsCandidate(c) ==
  /\ c.hop \in Nat \ {0} /\ c.tokens \in Nat /\ Score(c) \in Int
  /\ Source(c.node) \in Nat /\ c.node.description \in Nat

LEMMA RankIs == \A relation : Rank(relation) \in 1..5
  BY DEF Rank

LEMMA CandidateIs ==
  ASSUME NEW g, NEW id, Readable(g.nodes[id]), NEW hop \in Nat \ {0}, NEW e
  PROVE  /\ IsCandidate(Candidate(g, id, hop, e))
         /\ Candidate(g, id, hop, e).id = id /\ Candidate(g, id, hop, e).hop = hop
<1> DEFINE c == Candidate(g, id, hop, e)
<1>1. c.id = id /\ c.hop = hop /\ c.node = g.nodes[id] /\ c.relation = e.relation
      /\ c.tokens = Tokens(Shown(g.nodes[id]) + 30)
  BY DEF Candidate
<1> HIDE DEF c
<1>2. c.tokens \in Nat /\ Source(c.node) \in Nat /\ c.node.description \in Nat
  BY <1>1, ShownIs, SourceIs, ReadableIs
<1>3. Score(c) \in Int
  <2> DEFINE r == Rank(c.relation)
             share == 1800 \div c.hop
             near == 60 * (12 * (6 - r) + 10) + share
  <2>1. r \in 1..5
    BY RankIs
  <2>2. share \in Int
    <3>1. c.hop \in Nat /\ c.hop > 0
      BY <1>1
    <3> QED BY <3>1
  <2>3. Score(c) = IF c.hop > 1 THEN (near * 8) \div 10 ELSE near
    BY DEF Score
  <2> HIDE DEF r, share
  <2>4. near \in Int
    BY <2>1, <2>2
  <2> HIDE DEF near
  <2>5. (near * 8) \div 10 \in Int
    BY <2>4
  <2> QED BY <2>3, <2>4, <2>5
<1>4. IsCandidate(c)
  BY <1>1, <1>2, <1>3 DEF IsCandidate
<1> QED BY <1>1, <1>4 DEF c

-----------------------------------------------------------------------------
(* The budget *)

Items == [id : Ids, hop : Nat, full : Nat, tokens : Nat, cut : BOOLEAN]
Fillings == [left : Nat, items : Seq(Items), dropped : Seq(Items)]

IsOf(i, c) == i \in Items /\ i.id = c.id /\ i.hop = c.hop /\ i.full = c.tokens

\* A candidate gets in, whole or cut to what is left, or does not.
GetsIn(u, i, v) ==
  /\ u.left > 0 /\ i.tokens <= u.left
  /\ u.left >= MinUseful \/ (i.full <= u.left /\ ~ i.cut)
  /\ v.left = u.left - i.tokens /\ v.items = Append(u.items, i) /\ v.dropped = u.dropped

IsLeftOut(u, i, v) ==
  /\ u.left = 0 \/ (u.left < i.full /\ u.left < MinUseful)
  /\ v.left = u.left /\ v.items = u.items /\ v.dropped = Append(u.dropped, i)

LEMMA FitIs ==
  ASSUME NEW u \in Fillings, NEW c, IsCandidate(c), c.id \in Ids
  PROVE  /\ Fit(u, c) \in Fillings
         /\ \E i : IsOf(i, c) /\ (GetsIn(u, i, Fit(u, c)) \/ IsLeftOut(u, i, Fit(u, c)))
<1> DEFINE v == Fit(u, c)
<1>1. /\ u.left \in Nat /\ u.items \in Seq(Items) /\ u.dropped \in Seq(Items)
      /\ u = [left |-> u.left, items |-> u.items, dropped |-> u.dropped]
  BY DEF Fillings
<1>2. c.tokens \in Nat /\ c.hop \in Nat
  BY DEF IsCandidate
<1>3. MinUseful \in Nat /\ MinUseful >= 4
  BY MinUsefulAssumption DEF MinUsefulAssumption
<1>4. \A tokens \in Nat, cut \in BOOLEAN :
        IsOf(Item(c, tokens, cut), c) /\ Item(c, tokens, cut).tokens = tokens /\ Item(c, tokens, cut).cut = cut
  BY <1>2 DEF Item, Items, IsOf
<1>5. CASE c.tokens <= u.left /\ u.left > 0
  <2> DEFINE i == Item(c, c.tokens, FALSE)
  <2>1. IsOf(i, c) /\ i.tokens = c.tokens /\ i.cut = FALSE
    BY <1>2, <1>4
  <2>2. v = [u EXCEPT !.left = @ - c.tokens, !.items = Append(@, i)]
    <3>1. ~ (c.tokens > u.left)
      BY <1>1, <1>2, <1>5
    <3> QED BY <1>5, <3>1 DEF Fit
  <2> HIDE DEF i, v
  <2>3. v = [left |-> u.left - c.tokens, items |-> Append(u.items, i), dropped |-> u.dropped]
    BY <1>1, <2>2
  <2>4. u.left - c.tokens \in Nat /\ Append(u.items, i) \in Seq(Items) /\ i.full = c.tokens
    BY <1>1, <1>2, <1>5, <2>1 DEF IsOf
  <2>5. v \in Fillings
    BY <1>1, <2>3, <2>4 DEF Fillings
  <2>6. GetsIn(u, i, v)
    BY <1>5, <2>1, <2>3, <2>4 DEF GetsIn
  <2> QED BY <2>1, <2>5, <2>6 DEF v
<1>6. CASE c.tokens > u.left /\ u.left >= MinUseful
  <2> DEFINE tokens == Truncated(c, u.left)
             i == Item(c, tokens, TRUE)
  <2>1. tokens \in Nat /\ tokens <= u.left /\ u.left > 0
    BY <1>1, <1>3, <1>6, TruncatedIs DEF IsCandidate
  <2>2. v = [u EXCEPT !.left = Max({@, tokens}) - tokens, !.items = Append(@, i)]
    <3>1. ~ (c.tokens <= u.left)
      BY <1>1, <1>2, <1>6
    <3> QED BY <1>6, <3>1 DEF Fit
  <2> HIDE DEF tokens
  <2>3. Max({u.left, tokens}) = u.left
    <3> DEFINE S == {u.left, tokens}
    <3>1. S \in SUBSET (0..u.left) /\ S # {}
      BY <1>1, <2>1
    <3>2. u.left \in S /\ \A x \in S : x \in Nat /\ x <= u.left
      BY <1>1, <2>1
    <3> HIDE DEF S
    <3>3. Max(S) \in S /\ \A x \in S : x <= Max(S)
      BY <1>1, <3>1, MaxIs
    <3>4. Max(S) = u.left
      BY <1>1, <3>2, <3>3
    <3> QED BY <3>4 DEF S
  <2>4. IsOf(i, c) /\ i.tokens = tokens
    BY <1>4, <2>1
  <2> HIDE DEF i, v
  <2>5. v = [left |-> u.left - tokens, items |-> Append(u.items, i), dropped |-> u.dropped]
    BY <1>1, <2>2, <2>3
  <2>6. u.left - tokens \in Nat /\ Append(u.items, i) \in Seq(Items)
    BY <1>1, <2>1, <2>4 DEF IsOf
  <2>7. v \in Fillings
    BY <1>1, <2>5, <2>6 DEF Fillings
  <2>8. GetsIn(u, i, v)
    BY <1>6, <2>1, <2>4, <2>5 DEF GetsIn
  <2> QED BY <2>4, <2>7, <2>8 DEF v
<1>7. CASE ~ (c.tokens <= u.left /\ u.left > 0) /\ ~ (c.tokens > u.left /\ u.left >= MinUseful)
  <2> DEFINE i == Item(c, 0, TRUE)
  <2>1. IsOf(i, c)
    BY <1>4
  <2>2. v = [u EXCEPT !.dropped = Append(@, i)]
    BY <1>7 DEF Fit
  <2> HIDE DEF i, v
  <2>3. v = [left |-> u.left, items |-> u.items, dropped |-> Append(u.dropped, i)]
    BY <1>1, <2>2
  <2>4. Append(u.dropped, i) \in Seq(Items) /\ i.full = c.tokens
    BY <1>1, <2>1 DEF IsOf
  <2>5. v \in Fillings
    BY <1>1, <2>3, <2>4 DEF Fillings
  <2>6. u.left = 0 \/ (u.left < i.full /\ u.left < MinUseful)
    BY <1>1, <1>2, <1>3, <1>7, <2>4
  <2>7. IsLeftOut(u, i, v)
    BY <2>3, <2>6 DEF IsLeftOut
  <2> QED BY <2>1, <2>5, <2>7 DEF v
<1> QED BY <1>5, <1>6, <1>7

IsOrder(order) ==
  /\ order \in Seq({order[j] : j \in DOMAIN order})
  /\ \A j \in 1..Len(order) : IsCandidate(order[j]) /\ order[j].id \in Ids
  /\ \A j, k \in 1..Len(order) : j < k => order[j].hop <= order[k].hop

\* Some of the candidates are in, and the others are left out.
FitInv(u, k, order, room) ==
  /\ u \in Fillings
  /\ u.left + Taken(u.items) = room /\ (room = 0 => u.items = <<>>)
  /\ \A d \in ToSet(u.dropped) : u.left = 0 \/ (u.left < d.full /\ u.left < MinUseful)
  /\ \A d \in ToSet(u.dropped), i \in ToSet(u.items) : i.hop > d.hop => i.full < d.full /\ ~ i.cut
  /\ \A i \in ToSet(u.items) \cup ToSet(u.dropped) :
       \E j \in 1..k : i.id = order[j].id /\ i.hop = order[j].hop
  /\ \A j \in 1..k : \E i \in ToSet(u.items) \cup ToSet(u.dropped) : i.id = order[j].id /\ i.hop = order[j].hop

LEMMA AppendedSet ==
  ASSUME NEW S, NEW s \in Seq(S), NEW x
  PROVE  ToSet(Append(s, x)) = ToSet(s) \cup {x}
<1>1. IsSequence(s)
  BY SeqIsSequence
<1> DEFINE t == Append(s, x)
<1>2. /\ Len(s) \in Nat /\ DOMAIN s = 1..Len(s) /\ DOMAIN t = 1..(Len(s) + 1)
      /\ t[Len(s) + 1] = x /\ \A i \in DOMAIN s : t[i] = s[i]
  BY <1>1, SequenceAppend
<1> HIDE DEF t
<1>3. ASSUME NEW y \in ToSet(t) PROVE y \in ToSet(s) \cup {x}
  <2>1. PICK i \in DOMAIN t : y = t[i]
    BY DEF ToSet
  <2>2. i = Len(s) + 1 \/ i \in DOMAIN s
    BY <1>2
  <2> QED BY <1>2, <2>1, <2>2 DEF ToSet
<1>4. ASSUME NEW y \in ToSet(s) PROVE y \in ToSet(t)
  <2>1. PICK i \in DOMAIN s : y = s[i]
    BY DEF ToSet
  <2>2. i \in DOMAIN t /\ y = t[i]
    BY <1>2, <2>1
  <2> QED BY <2>2 DEF ToSet
<1>5. x \in ToSet(t)
  <2>1. Len(s) + 1 \in DOMAIN t
    BY <1>2
  <2> QED BY <1>2, <2>1 DEF ToSet
<1> QED BY <1>3, <1>4, <1>5 DEF t

TokensOf(items) == [k \in DOMAIN items |-> items[k].tokens]

LEMMA TakenAppend ==
  ASSUME NEW items \in Seq(Items), NEW i \in Items
  PROVE  Taken(items) \in Nat /\ Taken(Append(items, i)) = Taken(items) + i.tokens
<1> DEFINE s == TokensOf(items)
           t == TokensOf(Append(items, i))
           n == Len(items)
<1>1. n \in Nat /\ DOMAIN items = 1..n /\ (\A k \in 1..n : items[k] \in Items)
      /\ DOMAIN Append(items, i) = 1..(n + 1) /\ Append(items, i)[n + 1] = i
      /\ \A k \in 1..n : Append(items, i)[k] = items[k]
  OBVIOUS
<1>2. i.tokens \in Nat /\ \A k \in 1..n : items[k].tokens \in Nat
  BY <1>1 DEF Items
<1>3. s \in Seq(Nat) /\ Len(s) = n /\ DOMAIN s = 1..n /\ \A k \in 1..n : s[k] = items[k].tokens
  <2>1. s = [k \in 1..n |-> items[k].tokens]
    BY <1>1 DEF TokensOf
  <2>2. s \in [1..n -> Nat]
    BY <1>2, <2>1
  <2> HIDE DEF n
  <2> QED BY <1>1, <2>1, <2>2
<1>4. t = Append(s, i.tokens)
  <2> DEFINE a == Append(items, i)
             x == i.tokens
             b == Append(s, x)
  <2>1. t = [k \in 1..(n + 1) |-> a[k].tokens]
    BY <1>1 DEF TokensOf
  <2>2. a[n + 1].tokens = x /\ \A k \in 1..n : a[k].tokens = s[k]
    BY <1>1, <1>3
  <2> HIDE DEF a, t, s, n, x
  <2>3. b = [k \in 1..(n + 1) |-> b[k]] /\ b[n + 1] = x /\ \A k \in 1..n : b[k] = s[k]
    BY <1>1, <1>2, <1>3 DEF x
  <2> HIDE DEF b
  <2>4. \A k \in 1..(n + 1) : a[k].tokens = b[k]
    <3> TAKE k \in 1..(n + 1)
    <3>1. k = n + 1 \/ k \in 1..n
      BY <1>1
    <3> QED BY <2>2, <2>3, <3>1
  <2> QED BY <2>1, <2>3, <2>4 DEF b, x
<1> HIDE DEF s, t, n
<1>5. Total(s) \in Nat /\ Total(t) = Total(s) + i.tokens
  BY <1>2, <1>3, <1>4, TotalIs, TotalAppend
<1> QED BY <1>5 DEF Taken, TokensOf, s, t

LEMMA FitKeepsInv ==
  ASSUME NEW order, IsOrder(order), NEW room \in Nat, NEW k \in Nat, k + 1 <= Len(order),
         NEW u, FitInv(u, k, order, room)
  PROVE  FitInv(Fit(u, order[k + 1]), k + 1, order, room)
<1> DEFINE c == order[k + 1]
           v == Fit(u, c)
<1>1. Len(order) \in Nat /\ k + 1 \in 1..Len(order)
  BY DEF IsOrder
<1>2. IsCandidate(c) /\ c.id \in Ids
  BY <1>1 DEF IsOrder
<1>3. u \in Fillings
  BY DEF FitInv
<1>4. v \in Fillings /\ \E i : IsOf(i, c) /\ (GetsIn(u, i, v) \/ IsLeftOut(u, i, v))
  BY <1>2, <1>3, FitIs
<1> HIDE DEF v
<1>5. PICK i : IsOf(i, c) /\ (GetsIn(u, i, v) \/ IsLeftOut(u, i, v))
  BY <1>4
<1>6. u.left \in Nat /\ u.items \in Seq(Items) /\ u.dropped \in Seq(Items) /\ v.left \in Nat
  BY <1>3, <1>4 DEF Fillings
<1>7. i \in Items /\ i.id = c.id /\ i.hop = c.hop /\ i.full \in Nat /\ i.tokens \in Nat /\ i.hop \in Nat
  BY <1>5 DEF IsOf, Items
<1>8. ASSUME NEW j \in 1..k PROVE order[j].hop <= c.hop /\ order[j].hop \in Nat /\ j \in 1..(k + 1)
  <2>1. j \in 1..Len(order) /\ j < k + 1 /\ j \in 1..(k + 1)
    BY <1>1
  <2> QED BY <1>1, <2>1 DEF IsOrder, IsCandidate
<1> DEFINE told == ToSet(u.items) \cup ToSet(u.dropped)
<1>9. \A e \in told : e.hop <= i.hop /\ e.hop \in Nat
  <2> TAKE e \in told
  <2>1. PICK j \in 1..k : e.id = order[j].id /\ e.hop = order[j].hop
    BY DEF FitInv
  <2> QED BY <1>7, <1>8, <2>1
<1>10. \A e \in told \cup {i} : \E j \in 1..(k + 1) : e.id = order[j].id /\ e.hop = order[j].hop
  <2> TAKE e \in told \cup {i}
  <2>1. CASE e = i
    <3>1. k + 1 \in 1..(k + 1) /\ e.id = order[k + 1].id /\ e.hop = order[k + 1].hop
      BY <1>7, <2>1
    <3> QED BY <3>1
  <2>2. CASE e \in told
    <3>1. PICK j \in 1..k : e.id = order[j].id /\ e.hop = order[j].hop
      BY <2>2 DEF FitInv
    <3> QED BY <1>8, <3>1
  <2> QED BY <2>1, <2>2
<1>11. \A j \in 1..(k + 1) : \E e \in told \cup {i} : e.id = order[j].id /\ e.hop = order[j].hop
  <2> TAKE j \in 1..(k + 1)
  <2>1. CASE j = k + 1
    <3>1. i.id = order[j].id /\ i.hop = order[j].hop
      BY <1>7, <2>1
    <3> QED BY <3>1
  <2>2. CASE j # k + 1
    <3>1. j \in 1..k
      BY <2>2
    <3>2. PICK e \in told : e.id = order[j].id /\ e.hop = order[j].hop
      BY <3>1 DEF FitInv
    <3> QED BY <3>2
  <2> QED BY <2>1, <2>2
<1>12. Taken(u.items) \in Nat /\ Taken(Append(u.items, i)) = Taken(u.items) + i.tokens
  BY <1>6, <1>7, TakenAppend
<1>13. ToSet(Append(u.items, i)) = ToSet(u.items) \cup {i} /\ ToSet(Append(u.dropped, i)) = ToSet(u.dropped) \cup {i}
  BY <1>6, AppendedSet
<1>14. ASSUME GetsIn(u, i, v) PROVE FitInv(v, k + 1, order, room)
  <2>1. /\ u.left > 0 /\ i.tokens <= u.left /\ v.left = u.left - i.tokens
        /\ v.items = Append(u.items, i) /\ v.dropped = u.dropped
        /\ u.left >= MinUseful \/ (i.full <= u.left /\ ~ i.cut)
    BY <1>14 DEF GetsIn
  <2>2. ToSet(v.items) = ToSet(u.items) \cup {i} /\ ToSet(v.dropped) = ToSet(u.dropped)
    BY <1>13, <2>1
  <2>3. v.left + Taken(v.items) = room /\ room # 0
    <3> DEFINE had == Taken(u.items)
    <3>1. u.left + had = room
      BY DEF FitInv
    <3>2. Taken(v.items) = had + i.tokens /\ had \in Nat
      BY <1>12, <2>1
    <3> HIDE DEF had
    <3> QED BY <1>6, <1>7, <2>1, <3>1, <3>2
  <2>4. \A d \in ToSet(u.dropped) : u.left < d.full /\ u.left < MinUseful
    BY <1>6, <2>1 DEF FitInv
  <2>5. MinUseful \in Nat
    BY MinUsefulAssumption DEF MinUsefulAssumption
  <2>6. \A d \in ToSet(u.dropped) : d.full \in Nat
    <3>1. ToSet(u.dropped) \subseteq Items
      BY <1>6, SeqIsSequence
    <3> QED BY <3>1 DEF Items
  <2>7. \A d \in ToSet(v.dropped) : v.left < d.full /\ v.left < MinUseful
    BY <1>6, <1>7, <2>1, <2>2, <2>4, <2>5, <2>6
  <2>8. \A d \in ToSet(v.dropped) : i.full < d.full /\ ~ i.cut
    BY <1>6, <1>7, <2>1, <2>2, <2>4, <2>5, <2>6
  <2>9. \A d \in ToSet(v.dropped), e \in ToSet(v.items) : e.hop > d.hop => e.full < d.full /\ ~ e.cut
    BY <2>2, <2>8 DEF FitInv
  <2>10. ToSet(v.items) \cup ToSet(v.dropped) = told \cup {i}
    BY <2>2
  <2> HIDE DEF told, c
  <2> QED BY <1>4, <1>10, <1>11, <2>3, <2>7, <2>9, <2>10 DEF FitInv
<1>15. ASSUME IsLeftOut(u, i, v) PROVE FitInv(v, k + 1, order, room)
  <2>1. /\ v.left = u.left /\ v.items = u.items /\ v.dropped = Append(u.dropped, i)
        /\ u.left = 0 \/ (u.left < i.full /\ u.left < MinUseful)
    BY <1>15 DEF IsLeftOut
  <2>2. ToSet(v.items) = ToSet(u.items) /\ ToSet(v.dropped) = ToSet(u.dropped) \cup {i}
    BY <1>13, <2>1
  <2>3. v.left + Taken(v.items) = room /\ (room = 0 => v.items = <<>>)
    BY <2>1 DEF FitInv
  <2>4. \A d \in ToSet(v.dropped) : v.left = 0 \/ (v.left < d.full /\ v.left < MinUseful)
    BY <2>1, <2>2 DEF FitInv
  <2>5. \A d \in ToSet(v.dropped), e \in ToSet(v.items) : e.hop > d.hop => e.full < d.full /\ ~ e.cut
    <3>1. \A e \in ToSet(u.items) : ~ (e.hop > i.hop)
      BY <1>7, <1>9
    <3> QED BY <2>2, <3>1 DEF FitInv
  <2>6. ToSet(v.items) \cup ToSet(v.dropped) = told \cup {i}
    BY <2>2
  <2> HIDE DEF told, c
  <2> QED BY <1>4, <1>10, <1>11, <2>3, <2>4, <2>5, <2>6 DEF FitInv
<1> QED BY <1>5, <1>14, <1>15 DEF v

LEMMA BudgetFitIs ==
  ASSUME NEW order, IsOrder(order), NEW wanted \in Nat, NEW budget \in Nat
  PROVE  FitInv(BudgetFit(wanted, order, budget), Len(order), order, IF wanted > budget THEN 0 ELSE budget - wanted)
<1> DEFINE n == Len(order)
           room == IF wanted > budget THEN 0 ELSE budget - wanted
           base == [left |-> room, items |-> <<>>, dropped |-> <<>>]
           step == [k \in 1..n |-> [u \in Fillings |-> Fit(u, order[k])]]
           filled == CHOOSE filled : filled = [k \in 0..n |-> IF k = 0 THEN base ELSE Fit(filled[k - 1], order[k])]
<1>1. n \in Nat /\ room \in Nat
  BY DEF IsOrder
<1>2. base \in Fillings
  <2>1. <<>> \in Seq(Items)
    OBVIOUS
  <2> HIDE DEF room
  <2> QED BY <1>1, <2>1 DEF Fillings
<1>3. \A k \in 1..n : \A u \in Fillings : Fit(u, order[k]) \in Fillings
  BY FitIs DEF IsOrder
<1>4. step \in [1..n -> [Fillings -> Fillings]]
  BY <1>3
<1>5. \A k \in 1..n : \A u \in Fillings : step[k][u] = Fit(u, order[k])
  OBVIOUS
<1>6. BudgetFit(wanted, order, budget) = filled[n]
  BY DEF BudgetFit
<1> HIDE DEF step, base, n
<1>7. PICK f \in [0..n -> Fillings] : IteratesTo(f, n, base, step)
  BY <1>1, <1>2, <1>4, Iterates
<1>8. \A k \in 0..n : f[k] = IF k = 0 THEN base ELSE Fit(f[k - 1], order[k])
  <2> TAKE k \in 0..n
  <2>1. CASE k = 0
    BY <1>7, <2>1 DEF IteratesTo
  <2>2. CASE k # 0
    <3>1. k \in 1..n /\ k - 1 \in 0..n
      BY <2>2, <1>1
    <3> QED BY <2>2, <3>1, <1>5, <1>7 DEF IteratesTo
  <2> QED BY <2>1, <2>2
<1>9. f = [k \in 0..n |-> IF k = 0 THEN base ELSE Fit(f[k - 1], order[k])]
  BY <1>7, <1>8
<1>10. filled = [k \in 0..n |-> IF k = 0 THEN base ELSE Fit(filled[k - 1], order[k])]
  BY <1>9
<1> HIDE DEF filled
<1>11. filled[0] = base /\ \A k \in Nat : k + 1 <= n => filled[k + 1] = Fit(filled[k], order[k + 1])
  <2>1. 0 \in 0..n /\ \A k \in Nat : k + 1 <= n => k + 1 \in 0..n /\ k + 1 # 0 /\ (k + 1) - 1 = k
    BY <1>1
  <2> QED BY <1>10, <2>1
<1> DEFINE T == {k \in Nat : k <= n => FitInv(filled[k], k, order, room)}
<1>12. 0 \in T
  <2> SUFFICES FitInv(base, 0, order, room)
    BY <1>11
  <2>1. base.left = room /\ base.items = <<>> /\ base.dropped = <<>>
    BY DEF base
  <2>2. ToSet(<<>>) = {} /\ 1..0 = {}
    BY DEF ToSet
  <2>3. Taken(<<>>) = 0
    <3>1. [k \in DOMAIN <<>> |-> <<>>[k].tokens] = <<>>
      OBVIOUS
    <3> QED BY <3>1, TotalOfNothing DEF Taken
  <2> HIDE DEF room
  <2> QED BY <1>1, <1>2, <2>1, <2>2, <2>3 DEF FitInv
<1>13. ASSUME NEW k \in Nat, k \in T PROVE k + 1 \in T
  <2> SUFFICES ASSUME k + 1 <= n PROVE FitInv(filled[k + 1], k + 1, order, room)
    OBVIOUS
  <2>1. k <= n
    BY <1>1
  <2>2. FitInv(filled[k], k, order, room)
    BY <1>13, <2>1
  <2>3. k + 1 <= Len(order)
    BY DEF n
  <2> HIDE DEF room
  <2>4. FitInv(Fit(filled[k], order[k + 1]), k + 1, order, room)
    BY <1>1, <2>2, <2>3, FitKeepsInv
  <2> QED BY <1>11, <2>4
<1> HIDE DEF T
<1>14. Nat \subseteq T
  BY <1>12, <1>13, NatSetInduction
<1>15. FitInv(filled[n], n, order, room)
  BY <1>1, <1>14 DEF T
<1> QED BY <1>6, <1>15 DEF n

\* What is wanted for and what is found fits the budget, whatever it is.
LEMMA FitSpends ==
  ASSUME NEW order, IsOrder(order), NEW wanted \in Nat, NEW budget \in Nat,
         NEW u, u = BudgetFit(wanted, order, budget)
  PROVE  BudgetIsSpent(wanted, budget, [items |-> u.items, dropped |-> u.dropped,
                                       estimated_tokens |-> budget - u.left])
<1> DEFINE room == IF wanted > budget THEN 0 ELSE budget - wanted
           taken == Taken(u.items)
<1>1. FitInv(u, Len(order), order, room)
  BY BudgetFitIs
<1>2. room \in Nat /\ (wanted <= budget => room = budget - wanted) /\ (wanted >= budget => room = 0)
  OBVIOUS
<1> HIDE DEF room
<1>3. u.left \in Nat /\ u.items \in Seq(Items)
  BY <1>1 DEF FitInv, Fillings
<1>4. taken \in Nat
  <2>1. TokensOf(u.items) \in Seq(Nat)
    <3> DEFINE n == Len(u.items)
    <3>1. n \in Nat /\ DOMAIN u.items = 1..n /\ \A k \in 1..n : u.items[k] \in Items
      BY <1>3
    <3>2. TokensOf(u.items) \in [1..n -> Nat]
      BY <3>1 DEF TokensOf, Items
    <3> HIDE DEF n
    <3> QED BY <3>1, <3>2
  <2> QED BY <2>1, TotalIs DEF Taken, TokensOf
<1>5. u.left + taken = room /\ (room = 0 => u.items = <<>>)
  BY <1>1 DEF FitInv
<1>6. \A d \in ToSet(u.dropped), i \in ToSet(u.items) : i.hop > d.hop => i.full < d.full /\ ~ i.cut
  BY <1>1 DEF FitInv
<1> DEFINE answer == [items |-> u.items, dropped |-> u.dropped, estimated_tokens |-> budget - u.left]
<1>7. answer.items = u.items /\ answer.dropped = u.dropped /\ answer.estimated_tokens = budget - u.left
  OBVIOUS
<1> HIDE DEF answer
<1>8. Taken(answer.items) = taken
  BY <1>7
<1> HIDE DEF taken
<1>9. wanted <= budget => taken <= budget - wanted
  BY <1>2, <1>3, <1>4, <1>5
<1>10. wanted >= budget => u.items = <<>>
  BY <1>2, <1>5
<1>11. budget - u.left = IF wanted <= budget THEN wanted + taken ELSE budget
  <2>1. CASE wanted <= budget
    BY <1>2, <1>3, <1>4, <1>5, <2>1
  <2>2. CASE wanted > budget
    <3>1. u.left = 0
      BY <1>2, <1>3, <1>4, <1>5, <2>2
    <3> QED BY <2>2, <3>1
  <2> QED BY <2>1, <2>2
<1>12. BudgetIsSpent(wanted, budget, answer)
  BY <1>6, <1>7, <1>8, <1>9, <1>10, <1>11 DEF BudgetIsSpent
<1> QED BY <1>12 DEF answer

-----------------------------------------------------------------------------
(* Gathering *)

NextTo(g, S) == {e.to : e \in {e \in g.edges : e.from \in S \cap NodeIds(g)}}

IsNear(f, g, targets, n) == f[0] = targets /\ \A k \in 1..n : f[k] = f[k - 1] \cup NextTo(g, f[k - 1])
IsWalks(w, g, targets, n) == w[0] = targets /\ \A k \in 1..n : w[k] = NextTo(g, w[k - 1])

\* What is near after k rounds is what a walk of at most k edges reaches.
WalkedTo(f, w, n) == \A k \in 0..n : \A id : id \in f[k] <=> \E j \in 0..k : id \in w[j]

\* What is near is what some walk leads to.
LEMMA NearIsWalked ==
  ASSUME NEW g, NEW targets, NEW n \in Nat,
         NEW f, IsNear(f, g, targets, n), NEW w, IsWalks(w, g, targets, n)
  PROVE  WalkedTo(f, w, n)
<1> DEFINE Same(k) == \A id : id \in f[k] <=> \E j \in 0..k : id \in w[j]
           T == {k \in Nat : k <= n => Same(k)}
<1>1. 0 \in T
  <2>1. 0..0 = {0} /\ f[0] = w[0]
    BY DEF IsNear, IsWalks
  <2> QED BY <2>1
<1>2. ASSUME NEW k \in Nat, k \in T PROVE k + 1 \in T
  <2> SUFFICES ASSUME k + 1 <= n PROVE Same(k + 1)
    OBVIOUS
  <2>1. Same(k) /\ k + 1 \in 1..n /\ (k + 1) - 1 = k
    BY <1>2
  <2>2. f[k + 1] = f[k] \cup NextTo(g, f[k])
    BY <2>1 DEF IsNear
  <2>3. \A j \in 0..k : j + 1 \in 1..n /\ (j + 1) - 1 = j /\ j + 1 \in 0..(k + 1) /\ j \in 0..(k + 1)
    OBVIOUS
  <2>4. \A j \in 0..k : w[j + 1] = NextTo(g, w[j])
    BY <2>3 DEF IsWalks
  <2> TAKE id
  <2>5. ASSUME id \in f[k + 1] PROVE \E j \in 0..(k + 1) : id \in w[j]
    <3>1. CASE id \in f[k]
      BY <2>1, <2>3, <3>1
    <3>2. CASE id \in NextTo(g, f[k])
      <4>1. PICK e \in g.edges : e.from \in f[k] /\ e.from \in NodeIds(g) /\ e.to = id
        BY <3>2 DEF NextTo
      <4>2. PICK j \in 0..k : e.from \in w[j]
        BY <2>1, <4>1
      <4>3. id \in NextTo(g, w[j])
        BY <4>1, <4>2 DEF NextTo
      <4> QED BY <2>3, <2>4, <4>3
    <3> QED BY <2>2, <2>5, <3>1, <3>2
  <2>6. ASSUME NEW j \in 0..(k + 1), id \in w[j] PROVE id \in f[k + 1]
    <3>1. CASE j \in 0..k
      BY <2>1, <2>2, <2>6, <3>1
    <3>2. CASE j = k + 1
      <4>1. k \in 0..k
        OBVIOUS
      <4>2. id \in NextTo(g, w[k])
        BY <2>4, <2>6, <3>2, <4>1
      <4>3. PICK e \in g.edges : e.from \in w[k] /\ e.from \in NodeIds(g) /\ e.to = id
        BY <4>2 DEF NextTo
      <4>4. e.from \in f[k]
        BY <2>1, <4>1, <4>3
      <4>5. id \in NextTo(g, f[k])
        BY <4>3, <4>4 DEF NextTo
      <4> QED BY <2>2, <4>5
    <3> QED BY <3>1, <3>2
  <2> QED BY <2>5, <2>6
<1> HIDE DEF T
<1>3. Nat \subseteq T
  BY <1>1, <1>2, NatSetInduction
<1>4. \A k \in 0..n : Same(k)
  BY <1>3 DEF T
<1> QED BY <1>4 DEF WalkedTo

Walks(g, targets, n) ==
  LET walks[k \in 0..n] ==
        IF k = 0 THEN targets
        ELSE {e.to : e \in {e \in g.edges : e.from \in walks[k - 1] \cap NodeIds(g)}}
  IN walks

Near(g, targets, n) ==
  LET near[k \in 0..n] ==
        IF k = 0 THEN targets
        ELSE LET before == near[k - 1]
             IN before \cup {e.to : e \in {e \in g.edges : e.from \in before \cap NodeIds(g)}}
  IN near

LengthsTo(g, targets, n, id) == {k \in 1..n : id \in Walks(g, targets, n)[k]}

LEMMA WalksIs ==
  ASSUME NEW g, NEW targets, NEW n \in Nat
  PROVE  IsWalks(Walks(g, targets, n), g, targets, n)
<1> DEFINE X == targets \cup {e.to : e \in g.edges}
           U == SUBSET X
           step == [k \in 1..n |-> [S \in U |-> NextTo(g, S)]]
           w == Walks(g, targets, n)
<1>1. targets \in U /\ \A S \in U : NextTo(g, S) \in U
  BY DEF NextTo
<1> HIDE DEF U
<1>2. step \in [1..n -> [U -> U]] /\ \A k \in 1..n : \A S \in U : step[k][S] = NextTo(g, S)
  BY <1>1
<1> HIDE DEF step
<1>3. PICK f \in [0..n -> U] : IteratesTo(f, n, targets, step)
  BY <1>1, <1>2, Iterates
<1>4. \A k \in 0..n : f[k] = IF k = 0 THEN targets ELSE NextTo(g, f[k - 1])
  <2> TAKE k \in 0..n
  <2>1. k # 0 => k \in 1..n /\ k - 1 \in 0..n
    OBVIOUS
  <2> QED BY <1>2, <1>3, <2>1 DEF IteratesTo
<1>5. f = [k \in 0..n |-> IF k = 0 THEN targets ELSE NextTo(g, f[k - 1])]
  BY <1>3, <1>4
<1>6. w = CHOOSE h : h = [k \in 0..n |-> IF k = 0 THEN targets ELSE NextTo(g, h[k - 1])]
  BY DEF Walks, NextTo
<1> HIDE DEF w
<1>7. w = [k \in 0..n |-> IF k = 0 THEN targets ELSE NextTo(g, w[k - 1])]
  BY <1>5, <1>6
<1>8. 0 \in 0..n /\ \A k \in 1..n : k \in 0..n /\ k # 0
  OBVIOUS
<1>9. IsWalks(w, g, targets, n)
  BY <1>7, <1>8 DEF IsWalks
<1> QED BY <1>9 DEF w

LEMMA NearIs ==
  ASSUME NEW g, NEW targets, NEW n \in Nat
  PROVE  IsNear(Near(g, targets, n), g, targets, n)
<1> DEFINE X == targets \cup {e.to : e \in g.edges}
           U == SUBSET X
           step == [k \in 1..n |-> [S \in U |-> S \cup NextTo(g, S)]]
           w == Near(g, targets, n)
<1>1. targets \in U /\ \A S \in U : S \cup NextTo(g, S) \in U
  BY DEF NextTo
<1> HIDE DEF U
<1>2. step \in [1..n -> [U -> U]] /\ \A k \in 1..n : \A S \in U : step[k][S] = S \cup NextTo(g, S)
  BY <1>1
<1> HIDE DEF step
<1>3. PICK f \in [0..n -> U] : IteratesTo(f, n, targets, step)
  BY <1>1, <1>2, Iterates
<1>4. \A k \in 0..n : f[k] = IF k = 0 THEN targets ELSE f[k - 1] \cup NextTo(g, f[k - 1])
  <2> TAKE k \in 0..n
  <2>1. k # 0 => k \in 1..n /\ k - 1 \in 0..n
    OBVIOUS
  <2> QED BY <1>2, <1>3, <2>1 DEF IteratesTo
<1>5. f = [k \in 0..n |-> IF k = 0 THEN targets ELSE f[k - 1] \cup NextTo(g, f[k - 1])]
  BY <1>3, <1>4
<1>6. w = CHOOSE h : h = [k \in 0..n |-> IF k = 0 THEN targets ELSE h[k - 1] \cup NextTo(g, h[k - 1])]
  BY DEF Near, NextTo
<1> HIDE DEF w
<1>7. w = [k \in 0..n |-> IF k = 0 THEN targets ELSE w[k - 1] \cup NextTo(g, w[k - 1])]
  BY <1>5, <1>6
<1>8. 0 \in 0..n /\ \A k \in 1..n : k \in 0..n /\ k # 0
  OBVIOUS
<1>9. IsNear(w, g, targets, n)
  BY <1>7, <1>8 DEF IsNear
<1> QED BY <1>9 DEF w

\* The hop of what is near is the length of the shortest walk.
LEMMA HopIs ==
  ASSUME NEW g, NEW targets, NEW n \in Nat, NEW id, id \notin targets
  PROVE  LET f == Near(g, targets, n)
             lengths == LengthsTo(g, targets, n, id)
         IN /\ id \in f[n] <=> lengths # {}
            /\ id \in f[n] => /\ Min({k \in 0..n : id \in f[k]}) = Min(lengths)
                              /\ Min(lengths) \in 1..n
<1> DEFINE f == Near(g, targets, n)
           w == Walks(g, targets, n)
           lengths == LengthsTo(g, targets, n, id)
           hops == {k \in 0..n : id \in f[k]}
<1>1. \A k \in 0..n : id \in f[k] <=> \E j \in 0..k : id \in w[j]
  <2>1. IsNear(f, g, targets, n)
    BY NearIs
  <2>2. IsWalks(w, g, targets, n)
    BY WalksIs
  <2> HIDE DEF f, w
  <2>3. WalkedTo(f, w, n)
    BY <2>1, <2>2, NearIsWalked
  <2> QED BY <2>3 DEF WalkedTo
<1>2. id \notin w[0]
  BY WalksIs DEF IsWalks
<1>3. lengths = {k \in 1..n : id \in w[k]}
  BY DEF LengthsTo
<1> HIDE DEF f, w, lengths
<1>4. id \in f[n] <=> lengths # {}
  <2>1. n \in 0..n
    OBVIOUS
  <2>2. id \in f[n] <=> \E j \in 0..n : id \in w[j]
    BY <1>1, <2>1
  <2>3. \A j \in 0..n : j = 0 \/ j \in 1..n
    OBVIOUS
  <2>4. \A j \in 1..n : j \in 0..n
    OBVIOUS
  <2> QED BY <1>2, <1>3, <2>2, <2>3, <2>4
<1>5. ASSUME id \in f[n] PROVE Min(hops) = Min(lengths) /\ Min(lengths) \in 1..n
  <2>1. lengths # {} /\ lengths \in SUBSET Nat /\ hops # {} /\ hops \in SUBSET Nat
    <3>1. n \in hops
      BY <1>5
    <3> QED BY <1>3, <1>4, <1>5, <3>1
  <2> DEFINE a == Min(hops)
             b == Min(lengths)
  <2>2. b \in lengths /\ \A x \in lengths : b <= x
    BY <2>1, MinIs
  <2>3. a \in hops /\ \A x \in hops : a <= x
    <3> HIDE DEF hops
    <3> QED BY <2>1, MinIs
  <2> HIDE DEF a, b
  <2>4. b \in hops
    <3>1. b \in 0..n /\ b \in 0..b /\ id \in w[b]
      BY <1>3, <2>2
    <3> QED BY <1>1, <3>1
  <2>5. \E x \in lengths : x <= a
    <3>1. a \in 0..n /\ id \in f[a]
      BY <2>3
    <3>2. PICK j \in 0..a : id \in w[j]
      BY <1>1, <3>1
    <3>3. j # 0
      BY <1>2, <3>2
    <3>4. j \in 1..n /\ j <= a
      BY <3>1, <3>3
    <3> QED BY <1>3, <3>2, <3>4
  <2>6. a = b
    BY <1>3, <2>2, <2>3, <2>4, <2>5
  <2>7. b \in 1..n
    BY <1>3, <2>2
  <2> QED BY <2>6, <2>7 DEF a, b
<1> QED BY <1>4, <1>5 DEF f, lengths

\* A graph with texts to read.
Textual(g) ==
  /\ IsFiniteSet(NodeIds(g)) /\ NodeIds(g) \subseteq Ids
  /\ \A id \in NodeIds(g) : Readable(g.nodes[id])

Gathers(C, X) ==
  /\ IsFiniteSet(C) /\ \A c \in C : IsCandidate(c) /\ c.id \in X
  /\ \A id \in X : \E c \in C : c.id = id

LEMMA GatheredIs ==
  ASSUME NEW g, Textual(g), NEW X \in SUBSET NodeIds(g), NEW hop, NEW last,
         \A id \in X : hop[id] \in Nat \ {0}
  PROVE  LET C == {Candidate(g, id, hop[id], last[id]) : id \in X}
         IN Gathers(C, X) /\ \A c \in C : c.hop = hop[c.id]
<1> DEFINE f == [id \in X |-> Candidate(g, id, hop[id], last[id])]
           C == {Candidate(g, id, hop[id], last[id]) : id \in X}
<1>1. \A id \in X : IsCandidate(f[id]) /\ f[id].id = id /\ f[id].hop = hop[id]
  BY CandidateIs DEF Textual
<1>2. DOMAIN f = X /\ C = {f[id] : id \in DOMAIN f}
  OBVIOUS
<1> HIDE DEF f, C
<1>3. IsFiniteSet(X)
  BY FS_Subset DEF Textual
<1>4. IsFiniteSet(C)
  BY <1>2, <1>3, FiniteImage
<1>5. \A c \in C : \E id \in X : c = f[id]
  BY <1>2
<1>6. \A id \in X : f[id] \in C
  BY <1>2
<1>7. Gathers(C, X) /\ \A c \in C : c.hop = hop[c.id]
  BY <1>1, <1>4, <1>5, <1>6 DEF Gathers
<1> QED BY <1>7 DEF C

Walked(g, targets, n) == {id \in NodeIds(g) \ targets : LengthsTo(g, targets, n, id) # {}}
Callers(g, targets) == {id \in NodeIds(g) \ targets : \E e \in g.edges : e.from = id /\ e.to \in targets}

LEMMA DependenciesAre ==
  ASSUME NEW g, Textual(g), NEW targets, NEW n \in Nat
  PROVE  /\ Gathers(Dependencies(g, targets, n, {}), Walked(g, targets, n))
         /\ \A c \in Dependencies(g, targets, n, {}) : c.hop = Min(LengthsTo(g, targets, n, c.id))
<1> DEFINE f == Near(g, targets, n)
           X == Walked(g, targets, n)
           hopOf(id) == Min({k \in 0..n : id \in f[k]})
           lastOf(id) == CHOOSE e \in g.edges : e.to = id /\ e.from \in f[hopOf(id) - 1] \cap NodeIds(g)
           Y == {id \in (f[n] \ targets) \cap NodeIds(g) : Passes(g.nodes[id], {})}
<1>1. Dependencies(g, targets, n, {}) = {Candidate(g, id, hopOf(id), lastOf(id)) : id \in Y}
  BY DEF Dependencies, Near
<1>2. Y = X
  <2>1. \A id \in NodeIds(g) \ targets : id \in f[n] <=> LengthsTo(g, targets, n, id) # {}
    BY HopIs
  <2>2. \A id : Passes(g.nodes[id], {})
    BY DEF Passes
  <2> HIDE DEF f
  <2> QED BY <2>1, <2>2 DEF Walked
<1>3. \A id \in X : hopOf(id) = Min(LengthsTo(g, targets, n, id)) /\ hopOf(id) \in Nat \ {0}
  <2> TAKE id \in X
  <2>1. id \notin targets /\ LengthsTo(g, targets, n, id) # {}
    BY DEF Walked
  <2>2. hopOf(id) = Min(LengthsTo(g, targets, n, id)) /\ Min(LengthsTo(g, targets, n, id)) \in 1..n
    BY <2>1, HopIs
  <2>3. \A k \in 1..n : k \in Nat \ {0}
    OBVIOUS
  <2> HIDE DEF hopOf
  <2> QED BY <2>2, <2>3
<1> DEFINE hop == [id \in X |-> hopOf(id)]
           last == [id \in X |-> lastOf(id)]
           C == {Candidate(g, id, hop[id], last[id]) : id \in X}
<1>4. Dependencies(g, targets, n, {}) = C
  BY <1>1, <1>2
<1>5. \A id \in X : hop[id] = Min(LengthsTo(g, targets, n, id)) /\ hop[id] \in Nat \ {0}
  BY <1>3
<1>6. X \in SUBSET NodeIds(g)
  BY DEF Walked
<1> HIDE DEF X, hop, last
<1>7. Gathers(C, X) /\ \A c \in C : c.hop = hop[c.id]
  BY <1>5, <1>6, GatheredIs
<1> HIDE DEF C
<1>8. \A c \in C : c.hop = Min(LengthsTo(g, targets, n, c.id))
  BY <1>5, <1>7 DEF Gathers
<1> QED BY <1>4, <1>7, <1>8 DEF X

LEMMA CallersAre ==
  ASSUME NEW g, Textual(g), NEW targets
  PROVE  /\ Gathers(CallersAndTests(g, targets), Callers(g, targets))
         /\ \A c \in CallersAndTests(g, targets) : c.hop = 1
<1> DEFINE into(id) == {e \in g.edges : e.from = id /\ e.to \in targets}
           X == Callers(g, targets)
           Y == {id \in NodeIds(g) \ targets : into(id) # {}}
           hop == [id \in X |-> 1]
           last == [id \in X |-> CHOOSE e \in into(id) : TRUE]
           C == {Candidate(g, id, hop[id], last[id]) : id \in X}
<1>1. CallersAndTests(g, targets) = {Candidate(g, id, 1, CHOOSE e \in into(id) : TRUE) : id \in Y}
  BY DEF CallersAndTests
<1>2. Y = X
  BY DEF Callers
<1>3. CallersAndTests(g, targets) = C
  BY <1>1, <1>2
<1>4. \A id \in X : hop[id] = 1 /\ hop[id] \in Nat \ {0}
  OBVIOUS
<1>5. X \in SUBSET NodeIds(g)
  BY DEF Callers
<1> HIDE DEF X, hop, last
<1>6. Gathers(C, X) /\ \A c \in C : c.hop = hop[c.id]
  BY <1>4, <1>5, GatheredIs
<1> HIDE DEF C
<1>7. \A c \in C : c.hop = 1
  BY <1>4, <1>6 DEF Gathers
<1> QED BY <1>3, <1>6, <1>7 DEF X

\* Candidates in an order, one category after the other.
Lists(s, S) ==
  /\ s \in Seq(S) /\ ToSet(s) = S
  /\ \A j, k \in 1..Len(s) : j < k => s[j].hop <= s[k].hop

AreCandidates(S) == IsFiniteSet(S) /\ \A c \in S : IsCandidate(c)

LEMMA ByScoreIs ==
  ASSUME NEW S, AreCandidates(S), \A c \in S : c.hop = 1
  PROVE  Lists(ByScore(S), S)
<1> DEFINE before == {p \in S \X S : Score(p[1]) >= Score(p[2])}
           s == Sorted(S, before)
<1>1. \A x, y \in S : <<x, y>> \in before <=> Score(x) >= Score(y)
  OBVIOUS
<1>2. \A x \in S : Score(x) \in Int
  BY DEF AreCandidates, IsCandidate
<1>3. ByScore(S) = s
  BY DEF ByScore
<1> HIDE DEF before
<1>4. Orders(before, S)
  <2>1. ASSUME NEW x \in S, NEW y \in S PROVE <<x, y>> \in before \/ <<y, x>> \in before
    <3> DEFINE a == Score(x)
               b == Score(y)
    <3>1. a \in Int /\ b \in Int
      BY <1>2
    <3> HIDE DEF a, b
    <3>2. a >= b \/ b >= a
      BY <3>1
    <3> QED BY <1>1, <3>2 DEF a, b
  <2>2. ASSUME NEW x \in S, NEW y \in S, NEW z \in S, <<x, y>> \in before, <<y, z>> \in before
        PROVE  <<x, z>> \in before
    <3>1. Score(x) >= Score(y) /\ Score(y) >= Score(z)
      BY <1>1, <2>2
    <3>2. Score(x) >= Score(z)
      BY <1>2, <3>1
    <3> QED BY <1>1, <3>2
  <2> QED BY <2>1, <2>2 DEF Orders
<1>5. s \in Seq(S) /\ ToSet(s) = S
  BY <1>4, SortedIs DEF AreCandidates
<1> HIDE DEF s
<1>6. \A j, k \in 1..Len(s) : j < k => s[j].hop <= s[k].hop
  <2> TAKE j, k \in 1..Len(s)
  <2>1. s[j] \in S /\ s[k] \in S
    BY <1>5
  <2> QED BY <2>1
<1> QED BY <1>3, <1>5, <1>6 DEF Lists

LEMMA ByHopIs ==
  ASSUME NEW S, AreCandidates(S)
  PROVE  Lists(ByHop(S), S)
<1> DEFINE before == {p \in S \X S : \/ p[1].hop < p[2].hop
                                     \/ p[1].hop = p[2].hop /\ Score(p[1]) >= Score(p[2])}
           s == Sorted(S, before)
<1>1. \A x, y \in S : <<x, y>> \in before <=> \/ x.hop < y.hop
                                              \/ x.hop = y.hop /\ Score(x) >= Score(y)
  OBVIOUS
<1>2. \A x \in S : Score(x) \in Int /\ x.hop \in Nat
  BY DEF AreCandidates, IsCandidate
<1>3. ByHop(S) = s
  BY DEF ByHop
<1> HIDE DEF before
<1>4. Orders(before, S)
  <2>1. ASSUME NEW x \in S, NEW y \in S PROVE <<x, y>> \in before \/ <<y, x>> \in before
    <3> DEFINE a == Score(x)
               b == Score(y)
    <3>1. a \in Int /\ b \in Int /\ x.hop \in Nat /\ y.hop \in Nat
      BY <1>2
    <3> HIDE DEF a, b
    <3>2. \/ x.hop < y.hop \/ (x.hop = y.hop /\ a >= b) \/ y.hop < x.hop \/ (y.hop = x.hop /\ b >= a)
      BY <3>1
    <3> QED BY <1>1, <3>2 DEF a, b
  <2>2. ASSUME NEW x \in S, NEW y \in S, NEW z \in S, <<x, y>> \in before, <<y, z>> \in before
        PROVE  <<x, z>> \in before
    <3> DEFINE a == Score(x)
               b == Score(y)
               c == Score(z)
    <3>1. a \in Int /\ b \in Int /\ c \in Int /\ x.hop \in Nat /\ y.hop \in Nat /\ z.hop \in Nat
      BY <1>2
    <3>2. /\ x.hop < y.hop \/ (x.hop = y.hop /\ a >= b)
          /\ y.hop < z.hop \/ (y.hop = z.hop /\ b >= c)
      BY <1>1, <2>2
    <3> HIDE DEF a, b, c
    <3>3. x.hop < z.hop \/ (x.hop = z.hop /\ a >= c)
      BY <3>1, <3>2
    <3> QED BY <1>1, <3>3 DEF a, c
  <2> QED BY <2>1, <2>2 DEF Orders
<1>5. /\ s \in Seq(S) /\ ToSet(s) = S
      /\ \A j, k \in 1..Len(s) : j < k => <<s[j], s[k]>> \in before
  BY <1>4, SortedIs DEF AreCandidates
<1> HIDE DEF s
<1>6. \A j, k \in 1..Len(s) : j < k => s[j].hop <= s[k].hop
  <2> SUFFICES ASSUME NEW j \in 1..Len(s), NEW k \in 1..Len(s), j < k PROVE s[j].hop <= s[k].hop
    OBVIOUS
  <2>1. s[j] \in S /\ s[k] \in S /\ <<s[j], s[k]>> \in before
    BY <1>5
  <2> QED BY <1>1, <1>2, <2>1
<1> QED BY <1>3, <1>5, <1>6 DEF Lists

LEMMA ListsConcat ==
  ASSUME NEW S, NEW s, Lists(s, S), NEW T, NEW t, Lists(t, T), \A c \in S, d \in T : c.hop <= d.hop
  PROVE  Lists(s \o t, S \cup T)
<1> DEFINE U == S \cup T
           r == s \o t
           n == Len(s)
           m == Len(t)
<1>1. s \in Seq(U) /\ t \in Seq(U) /\ IsSequence(s) /\ IsSequence(t) /\ s \in Seq(S) /\ t \in Seq(T)
  BY SeqIsSequence DEF Lists
<1>2. ToSet(r) = U
  BY <1>1, SequenceConcat DEF Lists
<1>3. r \in Seq(U) /\ Len(r) = n + m /\ n \in Nat /\ m \in Nat
      /\ \A j \in 1..(n + m) : r[j] = IF j <= n THEN s[j] ELSE t[j - n]
  <2> HIDE DEF U
  <2> QED BY <1>1
<1>4. (\A j \in 1..n : s[j] \in S) /\ (\A j \in 1..m : t[j] \in T)
  BY <1>1
<1> HIDE DEF r, n, m
<1>5. ASSUME NEW j \in 1..(n + m), NEW k \in 1..(n + m), j < k PROVE r[j].hop <= r[k].hop
  <2>1. CASE k <= n
    <3>1. r[j] = s[j] /\ r[k] = s[k] /\ j \in 1..n /\ k \in 1..n
      BY <1>3, <1>5, <2>1
    <3> QED BY <1>5, <3>1 DEF Lists, n
  <2>2. CASE j <= n /\ n < k
    <3>1. r[j] = s[j] /\ r[k] = t[k - n] /\ j \in 1..n /\ k - n \in 1..m
      BY <1>3, <2>2
    <3> QED BY <1>4, <3>1
  <2>3. CASE n < j
    <3>1. r[j] = t[j - n] /\ r[k] = t[k - n] /\ j - n \in 1..m /\ k - n \in 1..m /\ j - n < k - n
      BY <1>3, <1>5, <2>3
    <3> QED BY <3>1 DEF Lists, m
  <2> QED BY <1>3, <1>5, <2>1, <2>2, <2>3
<1> QED BY <1>2, <1>3, <1>5 DEF Lists, r

LEMMA InCategoriesIs ==
  ASSUME NEW deps, AreCandidates(deps), NEW callers, AreCandidates(callers),
         \A c \in callers : c.hop = 1
  PROVE  Lists(InCategories(deps, callers), deps \cup callers)
<1> DEFINE A == {c \in deps : c.hop = 1}
           B == {c \in callers : c.relation # "tests_for"}
           C == {c \in callers : c.relation = "tests_for"}
           D == {c \in deps : c.hop > 1}
<1>1. /\ AreCandidates(A) /\ AreCandidates(B) /\ AreCandidates(C) /\ AreCandidates(D)
      /\ \A c \in A \cup B \cup C : c.hop = 1
      /\ \A c \in D : c.hop \in Nat /\ c.hop > 1
  <2>1. IsFiniteSet(A) /\ IsFiniteSet(B) /\ IsFiniteSet(C) /\ IsFiniteSet(D)
    BY FS_Subset DEF AreCandidates
  <2> QED BY <2>1 DEF AreCandidates, IsCandidate
<1>2. deps \cup callers = ((A \cup B) \cup C) \cup D
  <2>1. \A c \in deps : c.hop = 1 \/ c.hop > 1
    BY DEF AreCandidates, IsCandidate
  <2> QED BY <2>1
<1>3. InCategories(deps, callers) = ByScore(A) \o ByScore(B) \o ByScore(C) \o ByHop(D)
  BY DEF InCategories
<1> HIDE DEF A, B, C, D
<1>4. Lists(ByScore(A), A) /\ Lists(ByScore(B), B) /\ Lists(ByScore(C), C)
  BY <1>1, ByScoreIs
<1>5. Lists(ByHop(D), D)
  BY <1>1, ByHopIs
<1>6. Lists(ByScore(A) \o ByScore(B), A \cup B)
  BY <1>1, <1>4, ListsConcat
<1>7. Lists((ByScore(A) \o ByScore(B)) \o ByScore(C), (A \cup B) \cup C)
  BY <1>1, <1>4, <1>6, ListsConcat
<1>8. Lists(((ByScore(A) \o ByScore(B)) \o ByScore(C)) \o ByHop(D), ((A \cup B) \cup C) \cup D)
  <2>1. \A c \in (A \cup B) \cup C, d \in D : c.hop <= d.hop
    BY <1>1
  <2> QED BY <1>5, <1>7, <2>1, ListsConcat
<1> QED BY <1>2, <1>3, <1>8

LEMMA AsksIs ==
  ASSUME NEW g, Textual(g), NEW targets \in SUBSET NodeIds(g)
  PROVE  Asks(g, targets) \in Nat
<1> DEFINE order == SetToSeq(targets)
           s == [i \in DOMAIN order |-> TargetTokens(g.nodes[order[i]])]
           n == Len(order)
<1>1. IsFiniteSet(targets)
  BY FS_Subset DEF Textual
<1>2. IsSequence(order) /\ ToSet(order) = targets
  BY <1>1, SetToSeqIs
<1>3. n \in Nat /\ DOMAIN order = 1..n /\ \A i \in 1..n : order[i] \in targets
  <2> HIDE DEF order
  <2> QED BY <1>2 DEF IsSequence, ToSet
<1>4. Asks(g, targets) = Total(s)
  BY DEF Asks
<1>5. s \in [1..n -> Nat]
  <2>1. \A i \in 1..n : TargetTokens(g.nodes[order[i]]) \in Nat
    BY <1>3, ShownIs DEF Textual
  <2> HIDE DEF order, n
  <2> QED BY <1>3, <2>1
<1> HIDE DEF s, n
<1>6. s \in Seq(Nat)
  BY <1>3, <1>5
<1> QED BY <1>4, <1>6, TotalIs

\* Of every finite graph with texts, whatever is wanted and within whatever budget: all that
\* is near is in the answer or was dropped from it, what is in it is within the budget, and
\* nothing gets in before what is nearer (context.rs).
THEOREM EveryContextFits ==
  ASSUME NEW g, Textual(g), NEW targets, NEW budget \in Nat, NEW n \in Nat,
         NEW answer \in AssembleContext(g, targets, budget, n, {})
  PROVE  /\ EverythingIsFound(g, targets, n, answer)
         /\ BudgetIsSpent(Asks(g, targets), budget, answer)
<1> DEFINE deps == Dependencies(g, targets, n, {})
           callers == CallersAndTests(g, targets)
           order == InCategories(deps, callers)
           wanted == Asks(g, targets)
           u == BudgetFit(wanted, order, budget)
<1>1. targets \in SUBSET NodeIds(g) /\ answer = [items |-> u.items, dropped |-> u.dropped,
                                                estimated_tokens |-> budget - u.left]
  BY DEF AssembleContext
<1>2. wanted \in Nat
  BY <1>1, AsksIs
<1>3. Gathers(deps, Walked(g, targets, n)) /\ \A c \in deps : c.hop = Min(LengthsTo(g, targets, n, c.id))
  BY DependenciesAre
<1>4. Gathers(callers, Callers(g, targets)) /\ \A c \in callers : c.hop = 1
  BY CallersAre
<1> DEFINE all == deps \cup callers
<1> HIDE DEF deps, callers
<1>5. AreCandidates(deps) /\ AreCandidates(callers)
  BY <1>3, <1>4 DEF Gathers, AreCandidates
<1>6. Lists(order, all)
  BY <1>4, <1>5, InCategoriesIs
<1> HIDE DEF order, wanted
<1>7. \A c \in all : IsCandidate(c) /\ c.id \in Ids
  <2>1. Walked(g, targets, n) \subseteq Ids /\ Callers(g, targets) \subseteq Ids
    BY DEF Walked, Callers, Textual
  <2> QED BY <1>3, <1>4, <2>1 DEF Gathers
<1> DEFINE m == Len(order)
<1>8. m \in Nat /\ order \in Seq(all) /\ ToSet(order) = all /\ \A j \in 1..m : order[j] \in all
  <2> HIDE DEF all
  <2> QED BY <1>6 DEF Lists
<1>9. IsOrder(order)
  <2>1. order \in Seq({order[j] : j \in DOMAIN order})
    <3>1. IsSequence(order)
      BY <1>8, SeqIsSequence
    <3> QED BY <3>1 DEF IsSequence, ToSet
  <2> HIDE DEF all
  <2> QED BY <1>6, <1>7, <1>8, <2>1 DEF IsOrder, Lists
<1>10. BudgetIsSpent(wanted, budget, answer)
  BY <1>1, <1>2, <1>9, FitSpends
<1> DEFINE told == ToSet(u.items) \cup ToSet(u.dropped)
<1>11. /\ \A i \in told : \E j \in 1..m : i.id = order[j].id /\ i.hop = order[j].hop
       /\ \A j \in 1..m : \E i \in told : i.id = order[j].id /\ i.hop = order[j].hop
  <2>1. FitInv(u, m, order, IF wanted > budget THEN 0 ELSE budget - wanted)
    BY <1>2, <1>9, BudgetFitIs
  <2> HIDE DEF u, m
  <2> QED BY <2>1 DEF FitInv
<1> HIDE DEF told, u
<1>12. \A c \in all : \E j \in 1..m : order[j] = c
  <2> HIDE DEF all
  <2> QED BY <1>8 DEF ToSet
<1>13. /\ \A i \in told : \E c \in all : i.id = c.id /\ i.hop = c.hop
       /\ \A c \in all : \E i \in told : i.id = c.id /\ i.hop = c.hop
  <2> HIDE DEF all, m
  <2>1. ASSUME NEW i \in told PROVE \E c \in all : i.id = c.id /\ i.hop = c.hop
    <3>1. PICK j \in 1..m : i.id = order[j].id /\ i.hop = order[j].hop
      BY <1>11
    <3>2. order[j] \in all
      BY <1>8
    <3> QED BY <3>1, <3>2
  <2>2. ASSUME NEW c \in all PROVE \E i \in told : i.id = c.id /\ i.hop = c.hop
    <3>1. PICK j \in 1..m : order[j] = c
      BY <1>12
    <3>2. \E i \in told : i.id = order[j].id /\ i.hop = order[j].hop
      BY <1>11
    <3> QED BY <3>1, <3>2
  <2> QED BY <2>1, <2>2
<1> DEFINE lengths(id) == LengthsTo(g, targets, n, id)
           leads == {e.from : e \in {e \in g.edges : e.to \in targets}} \ targets
<1>14. \A id \in NodeIds(g) \ targets : id \in Callers(g, targets) <=> id \in leads
  BY DEF Callers
<1>15. {i.id : i \in told} = {id \in NodeIds(g) \ targets : lengths(id) # {} \/ id \in leads}
  <2> HIDE DEF leads
  <2>1. ASSUME NEW i \in told
        PROVE  i.id \in NodeIds(g) \ targets /\ (lengths(i.id) # {} \/ i.id \in leads)
    <3>1. PICK c \in all : i.id = c.id
      BY <1>13
    <3>2. CASE c \in deps
      <4>1. c.id \in Walked(g, targets, n)
        BY <1>3, <3>2 DEF Gathers
      <4> QED BY <3>1, <4>1 DEF Walked
    <3>3. CASE c \in callers
      <4>1. c.id \in Callers(g, targets)
        BY <1>4, <3>3 DEF Gathers
      <4>2. c.id \in NodeIds(g) \ targets
        BY <4>1 DEF Callers
      <4> QED BY <1>14, <3>1, <4>1, <4>2
    <3> QED BY <3>2, <3>3
  <2>2. ASSUME NEW id \in NodeIds(g) \ targets, lengths(id) # {} \/ id \in leads
        PROVE  \E i \in told : i.id = id
    <3>1. \E c \in all : c.id = id
      <4>1. CASE lengths(id) # {}
        <5>1. id \in Walked(g, targets, n)
          BY <4>1 DEF Walked
        <5> QED BY <1>3, <5>1 DEF Gathers
      <4>2. CASE id \in leads
        <5>1. id \in Callers(g, targets)
          BY <1>14, <4>2
        <5> QED BY <1>4, <5>1 DEF Gathers
      <4> QED BY <2>2, <4>1, <4>2
    <3> HIDE DEF all
    <3> QED BY <1>13, <3>1
  <2> HIDE DEF lengths
  <2> QED BY <2>1, <2>2
<1>16. \A i \in told : (i.hop = 1 /\ i.id \in leads) \/ i.hop = Min(lengths(i.id))
  <2> TAKE i \in told
  <2>1. PICK c \in all : i.id = c.id /\ i.hop = c.hop
    BY <1>13
  <2>2. CASE c \in deps
    BY <1>3, <2>1, <2>2
  <2>3. CASE c \in callers
    <3>1. c.id \in Callers(g, targets) /\ c.hop = 1
      BY <1>4, <2>3 DEF Gathers
    <3>2. c.id \in NodeIds(g) \ targets
      BY <3>1 DEF Callers
    <3> HIDE DEF leads
    <3> QED BY <1>14, <2>1, <3>1, <3>2
  <2> QED BY <2>2, <2>3
<1>17. EverythingIsFound(g, targets, n, answer)
  <2>1. answer.items = u.items /\ answer.dropped = u.dropped
    BY <1>1
  <2>2. told = ToSet(answer.items) \cup ToSet(answer.dropped)
    BY <2>1 DEF told
  <2>3. EverythingIsFound(g, targets, n, answer) <=>
          LET answered == ToSet(answer.items) \cup ToSet(answer.dropped)
          IN /\ {i.id : i \in answered} = {id \in NodeIds(g) \ targets : lengths(id) # {} \/ id \in leads}
             /\ \A i \in answered : (i.hop = 1 /\ i.id \in leads) \/ i.hop = Min(lengths(i.id))
    BY DEF EverythingIsFound, LengthsTo, Walks
  <2> HIDE DEF lengths, leads
  <2> QED BY <1>15, <1>16, <2>2, <2>3
<1> QED BY <1>10, <1>17 DEF wanted

-----------------------------------------------------------------------------
(* Documents *)

IsDocument(headings) == headings \in Seq([level : Nat, number : Seq(Nat)])

\* One number begins with another.
Begins(r, s) == Len(r) <= Len(s) /\ \A j \in 1..Len(r) : r[j] = s[j]

LEMMA PrefixIs ==
  ASSUME NEW r \in Seq(Nat), NEW s \in Seq(Nat)
  PROVE  IsPrefix(r, s) <=> Begins(r, s)
<1> DEFINE n == Len(r)
<1>1. n \in Nat /\ Len(s) \in Nat
  OBVIOUS
<1>2. ASSUME n <= Len(s) PROVE SubSeq(r, 1, n) = SubSeq(s, 1, n) <=> \A j \in 1..n : r[j] = s[j]
  <2>1. SubSeq(r, 1, n) = [j \in 1..n |-> r[j]] /\ SubSeq(s, 1, n) = [j \in 1..n |-> s[j]]
    BY <1>1, <1>2
  <2> DEFINE a == [j \in 1..n |-> r[j]]
             b == [j \in 1..n |-> s[j]]
  <2>2. a = b <=> \A j \in 1..n : r[j] = s[j]
    <3>1. ASSUME a = b, NEW j \in 1..n PROVE r[j] = s[j]
      <4>1. a[j] = b[j]
        BY <3>1
      <4> QED BY <4>1
    <3> QED BY <3>1
  <2> QED BY <2>1, <2>2
<1> QED BY <1>2 DEF IsPrefix, Begins

LEMMA FrontIs ==
  ASSUME NEW s \in Seq(Nat), Len(s) > 1
  PROVE  Front(s) \in Seq(Nat) /\ Len(Front(s)) = Len(s) - 1
         /\ \A j \in 1..(Len(s) - 1) : Front(s)[j] = s[j]
  BY DEF Front

\* Nothing is before itself, nor before what it begins with.
LEMMA BeginsFirst ==
  ASSUME NEW r \in Seq(Nat), NEW s \in Seq(Nat), Begins(r, s)
  PROVE  ~ Before(s, r)
<1> SUFFICES ASSUME Before(s, r) PROVE FALSE
  OBVIOUS
<1>1. PICK k \in 1..Len(r) : k <= Len(s) => s[k] < r[k]
  BY DEF Before
<1>2. Len(r) \in Nat /\ Len(s) \in Nat /\ Len(r) <= Len(s) /\ r[k] = s[k] /\ r[k] \in Nat
  BY DEF Begins
<1> QED BY <1>1, <1>2

\* What is before a number and does not begin with it stays so for what is after.
LEMMA BeforeBegins ==
  ASSUME NEW f \in Seq(Nat), NEW r \in Seq(Nat), Before(f, r), Len(r) <= Len(f),
         NEW s \in Seq(Nat), Before(r, s), Len(f) <= Len(s), \A j \in 1..Len(f) : f[j] = s[j]
  PROVE  FALSE
<1>1. Len(r) \in Nat /\ Len(f) \in Nat /\ Len(s) \in Nat
  OBVIOUS
<1>0. (\A j \in 1..Len(r) : r[j] \in Nat) /\ (\A j \in 1..Len(f) : f[j] \in Nat)
      /\ (\A j \in 1..Len(s) : s[j] \in Nat)
  OBVIOUS
<1>2. PICK k \in 1..Len(r) : (\A j \in 1..(k - 1) : f[j] = r[j]) /\ (k <= Len(f) => f[k] < r[k])
  BY DEF Before
<1>3. PICK m \in 1..Len(s) : (\A j \in 1..(m - 1) : r[j] = s[j]) /\ (m <= Len(r) => r[m] < s[m])
  BY DEF Before
<1>4. k \in Nat /\ m \in Nat /\ k >= 1 /\ m >= 1 /\ k <= Len(r) /\ k <= Len(f)
  BY <1>1
<1>5. f[k] < r[k] /\ f[k] \in Nat /\ r[k] \in Nat /\ f[k] = s[k] /\ s[k] \in Nat
  <2>1. k \in 1..Len(f) /\ k \in 1..Len(r) /\ k \in 1..Len(s)
    BY <1>1, <1>4
  <2>2. f[k] = s[k]
    BY <2>1
  <2>3. f[k] \in Nat /\ r[k] \in Nat /\ s[k] \in Nat
    BY <1>0, <2>1
  <2> QED BY <1>2, <1>4, <2>2, <2>3
<1>6. CASE k < m
  <2>1. k \in 1..(m - 1)
    BY <1>4, <1>6
  <2>2. r[k] = s[k]
    BY <1>3, <2>1
  <2> QED BY <1>5, <2>2
<1>7. CASE k >= m
  <2>1. m \in 1..Len(r) /\ m \in 1..Len(f) /\ m \in 1..Len(s) /\ m <= Len(r)
    BY <1>1, <1>4, <1>7
  <2>2. r[m] < s[m] /\ f[m] = s[m] /\ r[m] \in Nat /\ s[m] \in Nat
    <3>1. f[m] = s[m]
      BY <2>1
    <3>2. r[m] < s[m]
      BY <1>3, <2>1
    <3> QED BY <1>0, <2>1, <3>1, <3>2
  <2>3. CASE k = m
    BY <1>5, <2>2, <2>3
  <2>4. CASE k > m
    <3>1. m \in 1..(k - 1)
      BY <1>4, <2>4
    <3>2. f[m] = r[m]
      BY <1>2, <3>1
    <3> QED BY <2>2, <3>2
  <2> QED BY <1>4, <1>7, <2>3, <2>4
<1> QED BY <1>4, <1>6, <1>7

\* Between a number and what begins with it there is nothing as short that is not it.
LEMMA BetweenBegins ==
  ASSUME NEW r \in Seq(Nat), NEW b \in Seq(Nat), Before(r, b), Len(b) <= Len(r),
         NEW a \in Seq(Nat), Before(b, a) \/ a = b, Begins(r, a)
  PROVE  FALSE
<1>1. Len(r) \in Nat /\ Len(a) \in Nat /\ Len(b) \in Nat /\ Len(r) <= Len(a)
      /\ \A j \in 1..Len(r) : r[j] = a[j]
  BY DEF Begins
<1>0. (\A j \in 1..Len(a) : a[j] \in Nat) /\ (\A j \in 1..Len(b) : b[j] \in Nat)
  OBVIOUS
<1>2. PICK k \in 1..Len(b) : (\A j \in 1..(k - 1) : r[j] = b[j]) /\ (k <= Len(r) => r[k] < b[k])
  BY DEF Before
<1>3. k \in Nat /\ k >= 1 /\ k <= Len(b) /\ k <= Len(r) /\ k \in 1..Len(r) /\ k \in 1..Len(a)
  BY <1>1
<1>4. r[k] < b[k] /\ r[k] = a[k] /\ r[k] \in Nat /\ b[k] \in Nat
  BY <1>1, <1>2, <1>3
<1>5. CASE a = b
  BY <1>4, <1>5
<1>6. CASE Before(b, a)
  <2>1. PICK m \in 1..Len(a) : m <= Len(b) + 1 /\ (\A j \in 1..(m - 1) : b[j] = a[j]) /\ (m <= Len(b) => b[m] < a[m])
    BY <1>6 DEF Before
  <2>2. m \in Nat /\ m >= 1
    BY <1>1
  <2>3. CASE k < m
    <3>1. k \in 1..(m - 1)
      BY <1>3, <2>2, <2>3
    <3>2. b[k] = a[k]
      BY <2>1, <3>1
    <3> QED BY <1>4, <3>2
  <2>4. CASE k >= m
    <3>1. m \in 1..Len(b) /\ m \in 1..Len(r) /\ m \in 1..Len(a) /\ m <= Len(b)
      BY <1>1, <1>3, <2>2, <2>4
    <3>2. b[m] < a[m] /\ a[m] = r[m] /\ b[m] \in Nat /\ a[m] \in Nat
      <4>1. a[m] = r[m]
        BY <1>1, <3>1
      <4>2. b[m] < a[m]
        BY <2>1, <3>1
      <4> QED BY <1>0, <3>1, <4>1, <4>2
    <3>3. CASE k = m
      BY <1>4, <3>2, <3>3
    <3>4. CASE k > m
      <4>1. m \in 1..(k - 1)
        BY <1>3, <2>2, <3>4
      <4>2. r[m] = b[m]
        BY <1>2, <4>1
      <4> QED BY <3>2, <4>2
    <3> QED BY <1>3, <2>2, <2>4, <3>3, <3>4
  <2> QED BY <1>3, <2>2, <2>3, <2>4
<1> QED BY <1>5, <1>6

LEMMA SectionOf ==
  ASSUME NEW headings, IsDocument(headings), NEW first \in 1..Len(headings),
         NEW last \in Nat, first <= last, last <= Len(headings)
  PROVE  ToSet(SubSeq(headings, first, last)) = {headings[i] : i \in first..last}
<1> DEFINE D == [level : Nat, number : Seq(Nat)]
           n == Len(headings)
           t == SubSeq(headings, first, last)
           m == last - first + 1
<1> HIDE DEF D
<1>1. headings \in Seq(D)
  BY DEF IsDocument, D
<1>2. t = [i \in 1..m |-> headings[i + first - 1]] /\ first \in Nat /\ m \in Nat
  BY <1>1
<1> HIDE DEF t, m
<1>3. ASSUME NEW x \in ToSet(t) PROVE \E i \in first..last : x = headings[i]
  <2>1. PICK i \in 1..m : x = t[i]
    BY <1>2, <1>3 DEF ToSet
  <2>2. i + first - 1 \in first..last /\ t[i] = headings[i + first - 1]
    BY <1>2 DEF m
  <2> QED BY <2>1, <2>2
<1>4. ASSUME NEW i \in first..last PROVE headings[i] \in ToSet(t)
  <2> DEFINE j == i - first + 1
  <2>1. j \in 1..m /\ j + first - 1 = i
    BY <1>2 DEF m
  <2> HIDE DEF j
  <2>2. t[j] = headings[i] /\ j \in DOMAIN t
    BY <1>2, <2>1
  <2> QED BY <2>2 DEF ToSet
<1>5. ToSet(t) = {headings[i] : i \in first..last}
  BY <1>3, <1>4
<1> QED BY <1>5 DEF t

\* A section has what has its number, in every document that is in order
\* (extract_design_section).
THEOREM EverySectionIsWhole ==
  ASSUME NEW headings, IsDocument(headings), NEW ref \in Seq(Nat)
  PROVE  SectionIsWhole(headings, ref)
<1> DEFINE n == Len(headings)
           number(i) == headings[i].number
           M == Matching(headings, ref)
<1>1. n \in Nat /\ DOMAIN headings = 1..n
      /\ \A i \in 1..n : number(i) \in Seq(Nat) /\ Len(number(i)) \in Nat /\ headings[i].level \in Nat
  <2> DEFINE D == [level : Nat, number : Seq(Nat)]
  <2>1. \A d \in D : d.number \in Seq(Nat) /\ d.level \in Nat /\ Len(d.number) \in Nat
    OBVIOUS
  <2> HIDE DEF D
  <2>2. headings \in Seq(D)
    BY DEF IsDocument, D
  <2>3. n \in Nat /\ DOMAIN headings = 1..n /\ \A i \in 1..n : headings[i] \in D
    BY <2>2
  <2> QED BY <2>1, <2>3
<1>2. M \in SUBSET (1..n) /\ \A i \in 1..n : i \in M <=> Begins(ref, number(i))
  BY <1>1, PrefixIs DEF Matching
<1> DEFINE R == Len(ref)
<1>3. R \in Nat
  OBVIOUS
<1> SUFFICES ASSUME InOrder(headings), \E i \in DOMAIN headings : number(i) = ref
             PROVE  ToSet(DesignSection(headings, ref)) = {headings[i] : i \in M}
  BY DEF SectionIsWhole
<1>4. /\ \A i, j \in 1..n : i < j => Before(number(i), number(j))
      /\ \A i \in 1..n : Len(number(i)) > 1 => \E j \in 1..n : number(j) = Front(number(i))
      /\ \A i, j \in 1..n : headings[i].level <= headings[j].level <=> Len(number(i)) <= Len(number(j))
  BY <1>1 DEF InOrder
<1>5. PICK own \in 1..n : number(own) = ref
  BY <1>1
<1>6. own \in M
  BY <1>2, <1>3, <1>5 DEF Begins
<1> DEFINE first == Min(M)
<1>7. first \in M /\ \A i \in M : first <= i
  <2>1. M \in SUBSET Nat /\ M # {}
    BY <1>2, <1>6
  <2> HIDE DEF M
  <2> QED BY <2>1, MinIs
<1> DEFINE after == {j \in (first + 1)..n : headings[j].level <= headings[first].level}
           end == Min(after \cup {n + 1})
<1>8. DesignSection(headings, ref) = SubSeq(headings, first, end - 1)
  <2>1. DesignSection(headings, ref) = IF M = {} THEN <<>> ELSE SubSeq(headings, first, end - 1)
    BY DEF DesignSection
  <2> HIDE DEF M
  <2> QED BY <1>6, <2>1
<1> HIDE DEF M, first
\* The first that matches is the heading itself.
<1>9. first = own
  <2>1. first \in 1..n /\ first <= own /\ Begins(ref, number(first))
    BY <1>2, <1>6, <1>7
  <2> SUFFICES ASSUME first < own PROVE FALSE
    BY <2>1
  <2>2. Before(number(first), ref)
    BY <1>4, <1>5, <2>1
  <2> QED BY <1>1, <2>1, <2>2, BeginsFirst
<1>10. first \in 1..n /\ number(first) = ref
  BY <1>5, <1>9
<1>11. /\ end \in after \cup {n + 1} /\ \A j \in after \cup {n + 1} : end <= j
       /\ end \in Nat /\ first < end /\ end <= n + 1
  <2>1. after \cup {n + 1} \in SUBSET Nat /\ after \cup {n + 1} # {}
    BY <1>1, <1>10
  <2>2. \A j \in after \cup {n + 1} : first < j
    BY <1>1, <1>10
  <2> DEFINE S == after \cup {n + 1}
             e == Min(S)
  <2>3. n + 1 \in S
    OBVIOUS
  <2> HIDE DEF S
  <2>4. e \in S /\ \A j \in S : e <= j
    BY <2>1, MinIs DEF S
  <2> HIDE DEF e
  <2>5. e \in Nat /\ first < e /\ e <= n + 1
    BY <2>1, <2>2, <2>3, <2>4 DEF S
  <2> QED BY <2>4, <2>5 DEF S, e
<1> HIDE DEF end
<1>12. \A j \in (first + 1)..n : j \in 1..n /\ (j \in after <=> Len(number(j)) <= R)
  <2> TAKE j \in (first + 1)..n
  <2>1. j \in 1..n
    BY <1>1, <1>10
  <2> QED BY <1>4, <1>10, <2>1
<1> HIDE DEF after, number, n
\* What matches comes before the end of the section,
<1>13. ASSUME NEW i \in M PROVE i \in first..(end - 1)
  <2>1. i \in 1..n /\ first <= i /\ Begins(ref, number(i))
    BY <1>2, <1>7
  <2> SUFFICES ASSUME end <= i PROVE FALSE
    BY <1>1, <1>10, <1>11, <2>1
  <2>2. end \in (first + 1)..n /\ end \in after
    BY <1>1, <1>10, <1>11, <2>1
  <2>3. Len(number(end)) <= R /\ end \in 1..n
    BY <1>12, <2>2
  <2>4. Before(ref, number(end))
    BY <1>4, <1>10, <1>11, <2>3
  <2>5. Before(number(end), number(i)) \/ number(i) = number(end)
    BY <1>1, <1>4, <2>1, <2>3
  <2> QED BY <1>1, <2>1, <2>3, <2>4, <2>5, BetweenBegins
\* and all that comes before it matches: what does not would be below something that
\* does not match either.
<1>14. ASSUME NEW i \in first..(end - 1) PROVE i \in M
  <2> DEFINE T == {k \in Nat : k \in first..(end - 1) /\ k \notin M}
  <2> SUFFICES ASSUME T # {} PROVE FALSE
    BY <1>10, <1>11
  <2> DEFINE k == Min(T)
  <2>1. k \in T /\ \A j \in T : k <= j
    <3>1. T \in SUBSET Nat
      OBVIOUS
    <3> HIDE DEF T
    <3> QED BY <3>1, MinIs
  <2> HIDE DEF k
  <2>2. k \in Nat /\ first <= k /\ k < end /\ k \notin M /\ k \in 1..n
    BY <1>1, <1>10, <1>11, <2>1
  <2>3. \A j \in first..(end - 1) : j < k => j \in M
    BY <1>1, <1>10, <1>11, <2>1
  <2> HIDE DEF T
  <2>4. first < k
    BY <1>7, <1>10, <2>2
  <2>5. k \in (first + 1)..n /\ k \notin after
    BY <1>1, <1>10, <1>11, <2>2, <2>4
  <2>6. Len(number(k)) > R /\ Len(number(k)) \in Nat /\ number(k) \in Seq(Nat)
    BY <1>1, <1>3, <1>12, <2>5
  <2>7. R >= 1
    <3> SUFFICES ASSUME R = 0 PROVE FALSE
      BY <1>3
    <3>1. Begins(ref, number(k))
      BY <2>6 DEF Begins
    <3> QED BY <1>2, <2>2, <3>1
  <2>8. PICK j \in 1..n : number(j) = Front(number(k))
    <3>1. Len(number(k)) > 1
      BY <1>3, <2>6, <2>7
    <3> QED BY <1>4, <2>2, <3>1
  <2> DEFINE f == Front(number(k))
  <2>9. /\ f \in Seq(Nat) /\ Len(f) = Len(number(k)) - 1 /\ R <= Len(f) /\ Len(f) \in Nat
        /\ \A x \in 1..Len(f) : f[x] = number(k)[x]
    <3> DEFINE s == number(k)
               m == Len(s)
    <3>1. s \in Seq(Nat) /\ m \in Nat /\ m > R
      BY <2>6
    <3>2. f = Front(s) /\ s = number(k)
      OBVIOUS
    <3> HIDE DEF f, s, m
    <3>3. m > 1
      BY <1>3, <2>7, <3>1
    <3>4. f \in Seq(Nat) /\ Len(f) = m - 1 /\ \A x \in 1..(m - 1) : f[x] = s[x]
      BY <3>1, <3>2, <3>3, FrontIs DEF m
    <3>5. R <= m - 1 /\ m - 1 \in Nat
      BY <1>3, <3>1
    <3> QED BY <3>2, <3>4, <3>5 DEF m
  <2>10. Begins(f, number(k)) /\ f # number(k)
    BY <2>6, <2>9 DEF Begins
  <2> HIDE DEF f
  <2>11. j < k
    <3> SUFFICES ASSUME k <= j PROVE FALSE
      BY <2>2
    <3>1. k # j
      BY <2>8, <2>10 DEF f
    <3>2. Before(number(k), f)
      BY <1>4, <2>2, <2>8, <3>1 DEF f
    <3> QED BY <2>6, <2>9, <2>10, <3>2, BeginsFirst
  <2>12. CASE first <= j
    <3>1. j \in first..(end - 1)
      BY <1>10, <1>11, <2>2, <2>11, <2>12
    <3>2. j \in M
      BY <2>3, <2>11, <3>1
    <3>3. Begins(ref, f)
      BY <1>2, <2>8, <3>2 DEF f
    <3>4. Begins(ref, number(k))
      <4>1. \A x \in 1..R : x \in 1..Len(f)
        BY <1>3, <2>9
      <4>2. \A x \in 1..R : ref[x] = number(k)[x]
        BY <2>9, <3>3, <4>1 DEF Begins
      <4> QED BY <2>6, <4>2 DEF Begins
    <3> QED BY <1>2, <2>2, <3>4
  <2>13. CASE j < first
    <3>1. Before(f, ref)
      BY <1>4, <1>10, <2>8, <2>13 DEF f
    <3>2. Before(ref, number(k))
      BY <1>4, <1>10, <2>2, <2>4
    <3>3. Len(f) <= Len(number(k))
      BY <2>6, <2>9
    <3> QED BY <2>6, <2>9, <3>1, <3>2, <3>3, BeforeBegins
  <2> QED BY <1>10, <2>12, <2>13
<1>15. M = first..(end - 1)
  BY <1>13, <1>14
<1>16. ToSet(SubSeq(headings, first, end - 1)) = {headings[i] : i \in first..(end - 1)}
  <2> DEFINE last == end - 1
  <2>1. last \in Nat /\ first <= last /\ last <= Len(headings) /\ first \in 1..Len(headings)
    BY <1>1, <1>10, <1>11 DEF n
  <2> HIDE DEF last
  <2>2. ToSet(SubSeq(headings, first, last)) = {headings[i] : i \in first..last}
    BY <2>1, SectionOf
  <2> QED BY <2>2 DEF last
<1> QED BY <1>8, <1>15, <1>16

LEMMA ReadIsTextual == Textual(AsRead(Relations))
<1> DEFINE g == AsRead(Relations)
<1>1. NodeIds(g) = Present /\ Present \in SUBSET Ids
  BY ReadIsGraph DEF Present
<1>2. IsFiniteSet(Present)
  BY <1>1, NamesAreFinite
<1>3. g.nodes = [i \in Present |-> [Texts[i] EXCEPT !.status = graph.status[i]]]
  BY DEF AsRead
<1> HIDE DEF g
<1>4. ASSUME NEW i \in Present PROVE Readable(g.nodes[i])
  <2>1. g.nodes[i] = [Texts[i] EXCEPT !.status = graph.status[i]]
    BY <1>3
  <2>2. \A field \in Numbers : field \in DOMAIN Texts[i] /\ Texts[i][field] \in Nat
    BY <1>1, TextsAssumption DEF TextsAssumption
  <2>3. \A field \in Numbers : field # "status"
    BY DEF Numbers
  <2>4. ASSUME NEW field \in Numbers PROVE g.nodes[i][field] = Texts[i][field]
    BY <2>1, <2>2, <2>3
  <2> QED BY <2>2, <2>4 DEF Readable
<1> QED BY <1>1, <1>2, <1>4 DEF Textual, g

\* So is what agents are given to read of a planned graph.
THEOREM PlanContexts == PlanSpec => []ContextsFit
<1> DEFINE g == AsRead(Relations)
<1>1. Textual(g) /\ NodeIds(g) = Present
  BY ReadIsTextual, ReadIsGraph
<1>2. SectionsAreWhole
  <2> SUFFICES ASSUME NEW headings \in Documents, NEW k \in DOMAIN headings
               PROVE  SectionIsWhole(headings, headings[k].number)
    BY DEF SectionsAreWhole
  <2> DEFINE D == [level : Nat, number : Seq(Nat)]
  <2>1. headings \in Seq(D)
    BY AskedAssumption DEF AskedAssumption
  <2>2. headings[k] \in D
    <3> HIDE DEF D
    <3> QED BY <2>1
  <2> QED BY <2>1, <2>2, EverySectionIsWhole DEF IsDocument
<1>3. MaxDepth \in Nat /\ \A budget \in Budgets : budget \in Nat
  BY AskedAssumption DEF AskedAssumption
<1> HIDE DEF g
<1>4. ASSUME NEW targets \in TargetSets, NEW budget \in Budgets,
             NEW answer \in AssembleContext(g, targets, budget, MaxDepth, {})
      PROVE  /\ EverythingIsFound(g, targets, MaxDepth, answer)
             /\ BudgetIsSpent(Asks(g, targets), budget, answer)
  BY <1>1, <1>3, EveryContextFits
<1>5. ASSUME NEW c \in GraphContext(g) PROVE c.interfaces \subseteq Present
  <2>1. PICK id : c = TaskContext(g, id)
    BY DEF GraphContext
  <2>2. c.interfaces = Related(g, id, "depends_on") \cap NodeIds(g)
    BY <2>1 DEF TaskContext
  <2> QED BY <1>1, <2>2
<1>6. ContextsFit
  BY <1>2, <1>4, <1>5 DEF ContextsFit, g
<1> QED BY <1>6, PTL

-----------------------------------------------------------------------------
(* Patterns for paths *)

\* The places of the path from where it matches the pattern from i on.
FitsFrom(fits, pattern, path, i) ==
  {j \in 1..(Len(path) + 1) :
     IF i > Len(pattern) THEN j > Len(path)
     ELSE IF pattern[i] = "**" THEN i = Len(pattern) \/ \E k \in fits[i + 1] : k >= j
     ELSE j <= Len(path) /\ Rituals!SegmentMatch(pattern[i], path[j]) /\ j + 1 \in fits[i + 1]}

Fitting(fits, pattern, path) ==
  \A i \in 1..(Len(pattern) + 1) : fits[i] = FitsFrom(fits, pattern, path, i)

\* The recursion of the matcher goes from each part of the pattern to the next.
LEMMA GlobIs ==
  ASSUME NEW pattern, NEW path, Len(pattern) \in Nat, Len(path) \in Nat
  PROVE  \E fits : Fitting(fits, pattern, path) /\ (Rituals!GlobMatch(pattern, path) <=> 1 \in fits[1])
<1> DEFINE n == Len(pattern)
           m == Len(path)
           J == 1..(m + 1)
           U == SUBSET J
           row(i, r) == {j \in J : IF i > n THEN j > m
                                   ELSE IF pattern[i] = "**" THEN i = n \/ \E k \in r : k >= j
                                   ELSE j <= m /\ Rituals!SegmentMatch(pattern[i], path[j]) /\ j + 1 \in r}
           step == [k \in 1..n |-> [r \in U |-> row(n + 1 - k, r)]]
           start == {j \in J : j > m}
<1>1. n \in Nat /\ m \in Nat /\ start \in U
  OBVIOUS
<1>2. \A i, r : row(i, r) \in U
  OBVIOUS
<1>3. step \in [1..n -> [U -> U]] /\ \A k \in 1..n : \A r \in U : step[k][r] = row(n + 1 - k, r)
  <2> HIDE DEF row, U
  <2> QED BY <1>2
<1> HIDE DEF U, step, start
<1>4. PICK f \in [0..n -> U] : IteratesTo(f, n, start, step)
  BY <1>1, <1>3, Iterates
<1>5. f[0] = start /\ \A k \in 1..n : f[k] = row(n + 1 - k, f[k - 1])
  <2>1. f[0] = start /\ \A k \in 1..n : f[k] = step[k][f[k - 1]]
    BY <1>4 DEF IteratesTo
  <2>2. \A k \in 1..n : k - 1 \in 0..n /\ f[k - 1] \in U
    BY <1>1, <1>4
  <2> HIDE DEF row
  <2> QED BY <1>3, <2>1, <2>2
<1> DEFINE h == [i \in 1..(n + 1) |-> f[n + 1 - i]]
<1>6. \A i \in 1..(n + 1) : h[i] = row(i, h[i + 1])
  <2> TAKE i \in 1..(n + 1)
  <2>1. h[i] = f[n + 1 - i]
    OBVIOUS
  <2>2. CASE i > n
    <3>1. n + 1 - i = 0
      BY <1>1, <2>2
    <3>2. h[i] = start
      BY <1>5, <2>1, <3>1
    <3>3. row(i, h[i + 1]) = start
      BY <2>2 DEF start
    <3> QED BY <3>2, <3>3
  <2>3. CASE ~ (i > n)
    <3>1. n + 1 - i \in 1..n /\ n + 1 - (n + 1 - i) = i /\ (n + 1 - i) - 1 = n + 1 - (i + 1) /\ i + 1 \in 1..(n + 1)
      BY <1>1, <2>3
    <3>2. h[i + 1] = f[n + 1 - (i + 1)]
      BY <3>1
    <3> HIDE DEF row, h
    <3> QED BY <1>5, <2>1, <3>1, <3>2
  <2> QED BY <2>2, <2>3
<1>7. h = [i \in 1..(n + 1) |-> row(i, h[i + 1])]
  <2>1. h = [i \in 1..(n + 1) |-> h[i]]
    OBVIOUS
  <2> HIDE DEF row, h
  <2> QED BY <1>6, <2>1
<1> DEFINE g == CHOOSE e : e = [i \in 1..(n + 1) |-> row(i, e[i + 1])]
<1>8. g = [i \in 1..(n + 1) |-> row(i, g[i + 1])]
  <2> HIDE DEF row, h
  <2> QED BY <1>7
<1>9. Rituals!GlobMatch(pattern, path) <=> 1 \in g[1]
  BY DEF Rituals!GlobMatch
<1> HIDE DEF g
<1>10. \A i \in 1..(n + 1) : g[i] = row(i, g[i + 1])
  <2> HIDE DEF row
  <2> QED BY <1>8
<1>11. Fitting(g, pattern, path)
  BY <1>10 DEF Fitting, FitsFrom
<1> QED BY <1>9, <1>11

\* One turn of it: a part without a star stands for itself.
Turns(fits, pattern, path) ==
  /\ \A j \in 1..(Len(path) + 1) : j \in fits[Len(pattern) + 1] <=> j > Len(path)
  /\ fits[Len(pattern) + 1] \subseteq 1..(Len(path) + 1)
  /\ \A i \in 1..Len(pattern) : fits[i] \subseteq 1..(Len(path) + 1)
  /\ \A i \in 1..Len(pattern) : pattern[i] # "**" =>
       \A j \in 1..(Len(path) + 1) :
         j \in fits[i] <=> j <= Len(path) /\ Rituals!SegmentMatch(pattern[i], path[j]) /\ j + 1 \in fits[i + 1]
  /\ \A i \in 1..Len(pattern) : pattern[i] = "**" =>
       \A j \in 1..(Len(path) + 1) :
         j \in fits[i] <=> i = Len(pattern) \/ \E k \in fits[i + 1] : k >= j

LEMMA FitsAt ==
  ASSUME NEW fits, NEW pattern, NEW path, Len(pattern) \in Nat, Len(path) \in Nat,
         Fitting(fits, pattern, path)
  PROVE  Turns(fits, pattern, path)
<1> DEFINE n == Len(pattern)
           m == Len(path)
<1>1. \A i \in 1..(n + 1) : fits[i] = FitsFrom(fits, pattern, path, i)
  BY DEF Fitting
<1>2. n + 1 \in 1..(n + 1) /\ n + 1 > n /\ \A i \in 1..n : i \in 1..(n + 1) /\ ~ (i > n)
  OBVIOUS
<1>3. fits[n + 1] = {j \in 1..(m + 1) : j > m}
  BY <1>1, <1>2 DEF FitsFrom
<1>4. ASSUME NEW i \in 1..n, pattern[i] # "**"
      PROVE  fits[i] = {j \in 1..(m + 1) : j <= m /\ Rituals!SegmentMatch(pattern[i], path[j]) /\ j + 1 \in fits[i + 1]}
  BY <1>1, <1>2, <1>4 DEF FitsFrom
<1>5. ASSUME NEW i \in 1..n, pattern[i] = "**"
      PROVE  fits[i] = {j \in 1..(m + 1) : i = n \/ \E k \in fits[i + 1] : k >= j}
  BY <1>1, <1>2, <1>5 DEF FitsFrom
<1>6. \A i \in 1..n : fits[i] \subseteq 1..(m + 1)
  BY <1>1, <1>2 DEF FitsFrom
<1> HIDE DEF n, m
<1>7. \A j \in 1..(m + 1) : j \in fits[n + 1] <=> j > m
  BY <1>3
<1>8. fits[n + 1] \subseteq 1..(m + 1)
  BY <1>3
<1>9. ASSUME NEW i \in 1..n, pattern[i] # "**", NEW j \in 1..(m + 1)
      PROVE  j \in fits[i] <=> j <= m /\ Rituals!SegmentMatch(pattern[i], path[j]) /\ j + 1 \in fits[i + 1]
  BY <1>4, <1>9
<1>10. ASSUME NEW i \in 1..n, pattern[i] = "**", NEW j \in 1..(m + 1)
       PROVE  j \in fits[i] <=> i = n \/ \E k \in fits[i + 1] : k >= j
  BY <1>5, <1>10
<1> QED BY <1>6, <1>7, <1>8, <1>9, <1>10 DEF n, m, Turns

IsPathName(path) ==
  /\ IsSequence(path) /\ path # <<>>
  /\ \A i \in 1..Len(path) : path[i] \notin DOMAIN Wild

LEMMA PathLength ==
  ASSUME NEW path, IsPathName(path)
  PROVE  /\ Len(path) \in Nat /\ Len(path) >= 1 /\ path \in Seq(ToSet(path))
         /\ 1 \in 1..Len(path) /\ Len(path) \in 1..Len(path)
  BY DEF IsPathName, IsSequence

\* A path matches what begins with a plain name only if it begins with that name.
LEMMA GlobBegins ==
  ASSUME NEW pattern, Len(pattern) \in Nat, Len(pattern) >= 1, pattern[1] # "**", pattern[1] # "*",
         pattern[1] \notin DOMAIN Wild, NEW path, IsSequence(path), Rituals!GlobMatch(pattern, path)
  PROVE  path # <<>> /\ path[1] = pattern[1]
<1>1. Len(pattern) \in Nat /\ Len(path) \in Nat /\ 1 \in 1..Len(pattern) /\ 1 \in 1..(Len(path) + 1)
  BY DEF IsSequence
<1>2. PICK fits : Fitting(fits, pattern, path) /\ (Rituals!GlobMatch(pattern, path) <=> 1 \in fits[1])
  BY <1>1, GlobIs
<1>3. 1 <= Len(path) /\ Rituals!SegmentMatch(pattern[1], path[1])
  BY <1>1, <1>2, FitsAt DEF Turns
<1> QED BY <1>3 DEF Rituals!SegmentMatch

\* The three forms the gates use.
LEMMA GlobBelow ==
  ASSUME NEW d, d # "**", d # "*", d \notin DOMAIN Wild, NEW path, IsPathName(path)
  PROVE  Rituals!GlobMatch(<<d, "**">>, path) <=> path[1] = d
<1> DEFINE pattern == <<d, "**">>
<1>1. Len(pattern) = 2 /\ pattern[1] = d /\ pattern[2] = "**" /\ 1 \in 1..Len(pattern) /\ 2 \in 1..Len(pattern)
  OBVIOUS
<1>2. Len(path) \in Nat /\ 1 \in 1..(Len(path) + 1) /\ 1 <= Len(path) /\ 2 \in 1..(Len(path) + 1)
  BY PathLength
<1> HIDE DEF pattern
<1>3. PICK fits : Fitting(fits, pattern, path) /\ (Rituals!GlobMatch(pattern, path) <=> 1 \in fits[1])
  BY <1>1, <1>2, GlobIs
<1>3a. Turns(fits, pattern, path)
  BY <1>1, <1>2, <1>3, FitsAt
<1>4. 2 \in fits[2]
  BY <1>1, <1>2, <1>3a DEF Turns
<1>5. 1 \in fits[1] <=> Rituals!SegmentMatch(d, path[1]) /\ 1 + 1 \in fits[1 + 1]
  BY <1>1, <1>2, <1>3a DEF Turns
<1>6. 1 \in fits[1] <=> Rituals!SegmentMatch(d, path[1])
  BY <1>4, <1>5
<1> QED BY <1>3, <1>6 DEF Rituals!SegmentMatch, pattern

LEMMA GlobFile ==
  ASSUME NEW f, f # "**", NEW path, IsPathName(path)
  PROVE  Rituals!GlobMatch(<<f>>, path) <=> Len(path) = 1 /\ Rituals!SegmentMatch(f, path[1])
<1> DEFINE pattern == <<f>>
<1>1. Len(pattern) = 1 /\ pattern[1] = f /\ 1 \in 1..Len(pattern)
  OBVIOUS
<1>2. Len(path) \in Nat /\ 1 \in 1..(Len(path) + 1) /\ 1 <= Len(path) /\ 2 \in 1..(Len(path) + 1)
  BY PathLength
<1> HIDE DEF pattern
<1>3. PICK fits : Fitting(fits, pattern, path) /\ (Rituals!GlobMatch(pattern, path) <=> 1 \in fits[1])
  BY <1>1, <1>2, GlobIs
<1>3a. Turns(fits, pattern, path)
  BY <1>1, <1>2, <1>3, FitsAt
<1>4. 2 \in fits[2] <=> 2 > Len(path)
  BY <1>1, <1>2, <1>3a DEF Turns
<1>5. 1 \in fits[1] <=> Rituals!SegmentMatch(f, path[1]) /\ 1 + 1 \in fits[1 + 1]
  BY <1>1, <1>2, <1>3a DEF Turns
<1>6. 2 \in fits[2] <=> Len(path) = 1
  <2> DEFINE m == Len(path)
  <2>1. m \in Nat /\ m >= 1 /\ (2 \in fits[2] <=> 2 > m)
    BY <1>2, <1>4
  <2> HIDE DEF m
  <2>2. 2 > m <=> m = 1
    BY <2>1
  <2> QED BY <2>1, <2>2 DEF m
<1>7. 1 \in fits[1] <=> Rituals!SegmentMatch(f, path[1]) /\ Len(path) = 1
  <2> HIDE DEF Rituals!SegmentMatch
  <2>1. 1 + 1 = 2
    OBVIOUS
  <2> QED BY <1>5, <1>6, <2>1, Zenon
<1> QED BY <1>3, <1>7 DEF pattern

LEMMA GlobAnywhere ==
  ASSUME NEW f, f # "**", NEW path, IsPathName(path)
  PROVE  Rituals!GlobMatch(<<"**", f>>, path) <=> Rituals!SegmentMatch(f, path[Len(path)])
<1> DEFINE pattern == <<"**", f>>
           m == Len(path)
<1>1. Len(pattern) = 2 /\ pattern[1] = "**" /\ pattern[2] = f /\ 1 \in 1..Len(pattern) /\ 2 \in 1..Len(pattern)
  OBVIOUS
<1>2. m \in Nat /\ 1 \in 1..(m + 1) /\ 1 <= m /\ m \in 1..(m + 1) /\ m + 1 \in 1..(m + 1)
  BY PathLength
<1> HIDE DEF pattern
<1>3. PICK fits : Fitting(fits, pattern, path) /\ (Rituals!GlobMatch(pattern, path) <=> 1 \in fits[1])
  BY <1>1, <1>2, GlobIs
<1>3a. Turns(fits, pattern, path)
  BY <1>1, <1>2, <1>3, FitsAt
<1>4. \A j \in 1..(m + 1) : j \in fits[3] <=> j > m
  BY <1>1, <1>2, <1>3a DEF Turns
<1>5. \A j \in 1..(m + 1) : j \in fits[2] <=> j <= m /\ Rituals!SegmentMatch(f, path[j]) /\ j + 1 \in fits[2 + 1]
  BY <1>1, <1>2, <1>3a DEF Turns
<1>6. fits[2] \subseteq 1..(m + 1)
  BY <1>1, <1>2, <1>3a DEF Turns
<1>7. 1 \in fits[1] <=> \E k \in fits[1 + 1] : k >= 1
  BY <1>1, <1>2, <1>3a DEF Turns
<1> HIDE DEF m
<1>8. \A j \in 1..(m + 1) : j \in fits[2] <=> j = m /\ Rituals!SegmentMatch(f, path[m])
  <2> TAKE j \in 1..(m + 1)
  <2>1. j <= m => j + 1 \in 1..(m + 1)
    BY <1>2
  <2>2. j <= m => (j + 1 \in fits[3] <=> j = m)
    BY <1>2, <1>4, <2>1
  <2> QED BY <1>2, <1>5, <2>2
<1>9. 1 \in fits[1] <=> Rituals!SegmentMatch(f, path[m])
  BY <1>2, <1>6, <1>7, <1>8
<1> QED BY <1>3, <1>9 DEF pattern, m

\* A name without a star in it, and whatever one with a star stands for.
LEMMA SegmentIs ==
  ASSUME NEW f, f # "*", NEW x, x \notin DOMAIN Wild
  PROVE  Rituals!SegmentMatch(f, x) <=> x = f \/ (f \in DOMAIN Wild /\ x \in Wild[f])
  BY DEF Rituals!SegmentMatch

Directories == {"src", "lib", "tests", "crates", ".gid", "docs", "memory"}
Starred == {"*.md", "*.py", "*.go", "RESEARCH-*", "RESEARCH-*.md"}

LEMMA NamesAre ==
  /\ DOMAIN Wild = Starred /\ DOMAIN Starting = Directories
  /\ \A d \in Directories : d \notin Starred /\ d # "**" /\ d # "*"
  /\ \A f \in Starred : f # "**" /\ f # "*"
  /\ \A f \in Starred : Wild[f] # {} /\ \A x \in Wild[f] : x \notin Starred /\ x \notin Directories
  /\ \A d \in Directories : \A x \in Starting[d] : x \notin Directories
<1>1. DOMAIN Wild = Starred /\ DOMAIN Starting = Directories
  BY NamesAssumption DEF NamesAssumption, Directories, Starred
<1>2. \A d \in Directories : d \notin Starred /\ d # "**" /\ d # "*"
  BY DEF Directories, Starred
<1>3. \A f \in Starred : f # "**" /\ f # "*"
  BY DEF Starred
<1>4. \A f \in Starred : Wild[f] # {} /\ \A x \in Wild[f] : x \notin Starred /\ x \notin Directories
  BY <1>1, NamesAssumption DEF NamesAssumption
<1>5. \A d \in Directories : \A x \in Starting[d] : x \notin Directories
  BY <1>1, NamesAssumption DEF NamesAssumption
<1> QED BY <1>1, <1>2, <1>3, <1>4, <1>5

LEMMA PathsAre == \A path \in Paths : IsPathName(path)
  BY PathsAssumption, SeqIsSequence DEF PathsAssumption, IsPathName

LEMMA PathIs ==
  ASSUME NEW path, IsPathName(path)
  PROVE  /\ Len(path) \in Nat /\ Len(path) >= 1 /\ path \in Seq(ToSet(path))
         /\ path[1] \notin Starred /\ path[Len(path)] \notin Starred
<1>1. \A i \in 1..Len(path) : path[i] \notin DOMAIN Wild
  BY DEF IsPathName
<1> QED BY <1>1, PathLength, NamesAre

LEMMA BelowIs ==
  ASSUME NEW d
  PROVE  Rituals!Last(<<d, "**">>) = "**" /\ Rituals!Front(<<d, "**">>) = <<d>>
<1> DEFINE pattern == <<d, "**">>
           S == {d, "**"}
           x == SubSeq(pattern, 1, 1)
<1>1. pattern \in Seq(S) /\ Len(pattern) = 2 /\ pattern[1] = d /\ pattern[2] = "**"
  OBVIOUS
<1> HIDE DEF pattern, S
<1>2. x \in Seq(S) /\ Len(x) = 1 /\ x[1] = d
  BY <1>1
<1> HIDE DEF x
<1>3. x = <<d>>
  BY <1>2
<1>4. Rituals!Last(pattern) = "**"
  BY <1>1 DEF Rituals!Last
<1>5. Rituals!Front(pattern) = <<d>>
  BY <1>1, <1>3 DEF Rituals!Front, x
<1> QED BY <1>4, <1>5 DEF pattern

\* What the gates' matcher makes of the same three forms.
LEMMA GatedBelow ==
  ASSUME NEW d \in Directories, NEW path, IsPathName(path)
  PROVE  Rituals!GatedMatch(<<d, "**">>, path) <=> path # <<d>> /\ path[1] \in {d} \cup Starting[d]
<1> DEFINE pattern == <<d, "**">>
<1>1. /\ Len(pattern) = 2 /\ pattern[1] = d /\ pattern[2] = "**" /\ Rituals!Last(pattern) = "**"
      /\ Rituals!Front(pattern) = <<d>> /\ pattern # <<"**">> /\ d # "**"
  BY NamesAre, BelowIs
<1>2. Rituals!StartsWith(path, <<d>>) <=> path[1] \in {d} \cup Starting[d]
  <2>1. Len(<<d>>) = 1 /\ Rituals!Front(<<d>>) = <<>> /\ <<d>>[1] = d
    BY DEF Rituals!Front
  <2>2. SubSeq(path, 1, 0) = <<>> /\ Len(path) >= 1
    BY PathIs
  <2> DEFINE name == <<d>>
  <2> HIDE DEF name
  <2>3. Len(name) = 1 /\ Rituals!Front(name) = <<>> /\ name[1] = d
    BY <2>1 DEF name
  <2>4. Rituals!StartsWith(path, name) <=> path[1] \in {d} \cup Starting[d]
    BY <2>2, <2>3 DEF Rituals!StartsWith
  <2> QED BY <2>4 DEF name
<1>3. path = pattern => path # <<d>> /\ path[1] = d
  BY <1>1
<1> HIDE DEF pattern
<1>4. Rituals!GatedMatch(pattern, path)
        <=> path = pattern \/ (Rituals!StartsWith(path, <<d>>) /\ path # <<d>>)
  BY <1>1 DEF Rituals!GatedMatch
<1> QED BY <1>2, <1>3, <1>4 DEF pattern

LEMMA GatedFile ==
  ASSUME NEW f, f # "**", NEW path, IsPathName(path)
  PROVE  Rituals!GatedMatch(<<f>>, path)
           <=> Len(path) = 1 /\ (path[1] = f \/ (f \in DOMAIN Wild /\ path[1] \in Wild[f]))
<1>1. Len(<<f>>) = 1 /\ <<f>>[1] = f /\ <<f>> # <<"**">>
  OBVIOUS
<1>2. path = <<f>> <=> Len(path) = 1 /\ path[1] = f
  BY PathIs
<1> QED BY <1>1, <1>2 DEF Rituals!GatedMatch

LEMMA GatedAnywhere ==
  ASSUME NEW f \in Starred, NEW path, IsPathName(path)
  PROVE  Rituals!GatedMatch(<<"**", f>>, path) <=> path[Len(path)] \in Wild[f]
<1> DEFINE pattern == <<"**", f>>
<1>1. /\ Len(pattern) = 2 /\ pattern[1] = "**" /\ pattern[2] = f /\ Rituals!Last(pattern) = f
      /\ f \in DOMAIN Wild /\ f # "**" /\ pattern # <<"**">>
  BY NamesAre DEF Rituals!Last
<1>2. path # pattern
  <2>1. pattern[Len(pattern)] \in Starred
    BY <1>1
  <2> HIDE DEF pattern
  <2> QED BY <2>1, PathIs
<1> HIDE DEF pattern
<1>3. Rituals!GatedMatch(pattern, path) <=> Rituals!Last(path) \in Wild[f]
  BY <1>1, <1>2 DEF Rituals!GatedMatch
<1> QED BY <1>3 DEF pattern, Rituals!Last

-----------------------------------------------------------------------------
(* Gates and scopes *)

Languages == {"Rust", "TypeScript", "Python", "Go"}

IsBelow(pattern) == \E d \in Directories : pattern = <<d, "**">>
IsFile(pattern) == \E f : f # "**" /\ f # "*" /\ f \notin Directories /\ pattern = <<f>>
IsAnywhere(pattern) == \E f \in Starred : pattern = <<"**", f>>

\* The forms of the patterns of all gates.
LEMMA UngatedAre == \A pattern \in Rituals!Ungated : IsBelow(pattern) \/ IsFile(pattern)
<1>1. \A d \in Directories : IsBelow(<<d, "**">>)
  BY DEF IsBelow
<1>2. \A f : f # "**" /\ f # "*" /\ f \notin Directories => IsFile(<<f>>)
  BY DEF IsFile
<1>3. IsFile(<<"DESIGN.md">>) /\ IsFile(<<"AGENTS.md">>) /\ IsFile(<<"TOOLS.md">>) /\ IsFile(<<"MEMORY.md">>) /\ IsFile(<<"*.md">>)
  BY <1>2 DEF Directories
<1>4. IsBelow(<<".gid", "**">>) /\ IsBelow(<<"docs", "**">>) /\ IsBelow(<<"memory", "**">>)
  BY <1>1 DEF Directories
<1> QED BY <1>3, <1>4 DEF Rituals!Ungated, Rituals!InDocs

LEMMA GatedAre ==
  ASSUME NEW language \in Languages, NEW pattern \in Rituals!ForLanguage(language).gated_paths
  PROVE  IsBelow(pattern) \/ IsFile(pattern) \/ IsAnywhere(pattern)
<1>1. \A d \in Directories : IsBelow(<<d, "**">>)
  BY DEF IsBelow
<1>2. \A f : f # "**" /\ f # "*" /\ f \notin Directories => IsFile(<<f>>)
  BY DEF IsFile
<1>3. \A f \in Starred : IsAnywhere(<<"**", f>>)
  BY DEF IsAnywhere
<1>4. CASE language = "Rust"
  <2>1. Rituals!ForLanguage(language).gated_paths
          = {<<"src", "**">>, <<"tests", "**">>, <<"crates", "**">>, <<"Cargo.toml">>, <<"build.rs">>}
    BY <1>4 DEF Rituals!ForLanguage, Rituals!Gating
  <2>2. IsBelow(<<"src", "**">>) /\ IsBelow(<<"tests", "**">>) /\ IsBelow(<<"crates", "**">>)
    BY <1>1 DEF Directories
  <2>3. IsFile(<<"Cargo.toml">>) /\ IsFile(<<"build.rs">>)
    BY <1>2 DEF Directories
  <2> QED BY <2>1, <2>2, <2>3
<1>5. CASE language = "TypeScript"
  <2>1. Rituals!ForLanguage(language).gated_paths
          = {<<"src", "**">>, <<"lib", "**">>, <<"tests", "**">>, <<"package.json">>, <<"tsconfig.json">>}
    BY <1>5 DEF Rituals!ForLanguage, Rituals!Gating
  <2>2. IsBelow(<<"src", "**">>) /\ IsBelow(<<"tests", "**">>) /\ IsBelow(<<"lib", "**">>)
    BY <1>1 DEF Directories
  <2>3. IsFile(<<"package.json">>) /\ IsFile(<<"tsconfig.json">>)
    BY <1>2 DEF Directories
  <2> QED BY <2>1, <2>2, <2>3
<1>6. CASE language = "Python"
  <2>1. Rituals!ForLanguage(language).gated_paths = {<<"**", "*.py">>, <<"setup.py">>, <<"pyproject.toml">>}
    BY <1>6 DEF Rituals!ForLanguage, Rituals!Gating
  <2>2. IsAnywhere(<<"**", "*.py">>)
    BY <1>3 DEF Starred
  <2>3. IsFile(<<"setup.py">>) /\ IsFile(<<"pyproject.toml">>)
    BY <1>2 DEF Directories
  <2> QED BY <2>1, <2>2, <2>3
<1>7. CASE language = "Go"
  <2>1. Rituals!ForLanguage(language).gated_paths = {<<"**", "*.go">>, <<"go.mod">>, <<"go.sum">>}
    BY <1>7 DEF Rituals!ForLanguage, Rituals!Gating
  <2>2. IsAnywhere(<<"**", "*.go">>)
    BY <1>3 DEF Starred
  <2>3. IsFile(<<"go.mod">>) /\ IsFile(<<"go.sum">>)
    BY <1>2 DEF Directories
  <2> QED BY <2>1, <2>2, <2>3
<1> QED BY <1>4, <1>5, <1>6, <1>7 DEF Languages

\* The two matchers differ only on a directory, and on names it begins.
LEMMA MatchersDiffer ==
  ASSUME NEW pattern, IsBelow(pattern) \/ IsFile(pattern) \/ IsAnywhere(pattern), NEW path, IsPathName(path),
         Rituals!GlobMatch(pattern, path) # Rituals!GatedMatch(pattern, path)
  PROVE  /\ Rituals!Last(pattern) = "**"
         /\ path = Rituals!Front(pattern) \/ ~ Rituals!IsPrefix(Rituals!Front(pattern), path)
<1>0. ~ (Rituals!GlobMatch(pattern, path) <=> Rituals!GatedMatch(pattern, path))
  <2>1. Rituals!GlobMatch(pattern, path) \in BOOLEAN
    BY DEF Rituals!GlobMatch
  <2>2. Rituals!GatedMatch(pattern, path) \in BOOLEAN
    BY DEF Rituals!GatedMatch
  <2> QED BY <2>1, <2>2
<1>1. CASE IsBelow(pattern)
  <2>1. PICK d \in Directories : pattern = <<d, "**">>
    BY <1>1 DEF IsBelow
  <2>2. d # "**" /\ d # "*" /\ d \notin DOMAIN Wild
    BY NamesAre
  <2>3. Rituals!GlobMatch(<<d, "**">>, path) <=> path[1] = d
    BY <2>2, GlobBelow
  <2>4. Rituals!GatedMatch(<<d, "**">>, path) <=> path # <<d>> /\ path[1] \in {d} \cup Starting[d]
    BY GatedBelow
  <2>5. path = <<d>> \/ path[1] # d
    BY <1>0, <2>1, <2>3, <2>4
  <2>6. Rituals!Last(pattern) = "**" /\ Rituals!Front(pattern) = <<d>>
    BY <2>1, BelowIs
  <2>7. Rituals!IsPrefix(<<d>>, path) => path[1] = d
    <3> DEFINE name == <<d>>
    <3>1. Len(name) = 1 /\ SubSeq(name, 1, 1)[1] = d
      OBVIOUS
    <3>2. SubSeq(path, 1, 1)[1] = path[1]
      BY PathIs
    <3> HIDE DEF name
    <3>3. Rituals!IsPrefix(name, path) => path[1] = d
      BY <3>1, <3>2 DEF Rituals!IsPrefix
    <3> QED BY <3>3 DEF name
  <2> QED BY <2>5, <2>6, <2>7
<1>2. CASE IsFile(pattern)
  <2>1. PICK f : f # "**" /\ f # "*" /\ pattern = <<f>>
    BY <1>2 DEF IsFile
  <2>2. path[1] \notin DOMAIN Wild
    BY PathIs, NamesAre
  <2>3. Rituals!GlobMatch(<<f>>, path) <=> Len(path) = 1 /\ Rituals!SegmentMatch(f, path[1])
    BY <2>1, GlobFile
  <2>4. Rituals!SegmentMatch(f, path[1]) <=> path[1] = f \/ (f \in DOMAIN Wild /\ path[1] \in Wild[f])
    BY <2>1, <2>2, SegmentIs
  <2>5. Rituals!GatedMatch(<<f>>, path)
          <=> Len(path) = 1 /\ (path[1] = f \/ (f \in DOMAIN Wild /\ path[1] \in Wild[f]))
    BY <2>1, GatedFile
  <2> QED BY <1>0, <2>1, <2>3, <2>4, <2>5
<1>3. CASE IsAnywhere(pattern)
  <2>1. PICK f \in Starred : pattern = <<"**", f>>
    BY <1>3 DEF IsAnywhere
  <2>2. f # "**" /\ f # "*" /\ f \in DOMAIN Wild
    BY NamesAre
  <2>3. path[Len(path)] \notin DOMAIN Wild /\ path[Len(path)] # f
    BY PathIs, NamesAre
  <2>4. Rituals!GlobMatch(<<"**", f>>, path) <=> Rituals!SegmentMatch(f, path[Len(path)])
    BY <2>2, GlobAnywhere
  <2>5. Rituals!SegmentMatch(f, path[Len(path)]) <=> path[Len(path)] \in Wild[f]
    BY <2>2, <2>3, SegmentIs
  <2>6. Rituals!GatedMatch(<<"**", f>>, path) <=> path[Len(path)] \in Wild[f]
    BY GatedAnywhere
  <2> QED BY <1>0, <2>1, <2>4, <2>5, <2>6
<1> QED BY <1>1, <1>2, <1>3

\* The two matchers for patterns (scope.rs:330, gating.rs:338) agree on every path but a
\* directory itself and those whose name only begins with its name.
THEOREM MatchersAlwaysAgree == Rituals!MatchersAgree(Paths)
<1> DEFINE patterns == Rituals!Ungated \cup UNION {Rituals!ForLanguage(l).gated_paths : l \in Languages}
<1>1. ASSUME NEW pattern \in patterns, NEW path \in Paths,
             Rituals!GlobMatch(pattern, path) # Rituals!GatedMatch(pattern, path)
      PROVE  /\ Rituals!Last(pattern) = "**"
             /\ path = Rituals!Front(pattern) \/ ~ Rituals!IsPrefix(Rituals!Front(pattern), path)
  <2>1. IsBelow(pattern) \/ IsFile(pattern) \/ IsAnywhere(pattern)
    BY UngatedAre, GatedAre
  <2>2. IsPathName(path)
    BY PathsAre
  <2> QED BY <1>1, <2>1, <2>2, MatchersDiffer
<1>2. patterns = Rituals!Ungated \cup UNION {Rituals!ForLanguage(l).gated_paths : l \in {"Rust", "TypeScript", "Python", "Go"}}
  BY DEF Languages
<1> HIDE DEF patterns
<1> QED BY <1>1, <1>2 DEF Rituals!MatchersAgree

\* A scope that does not let everything be written keeps to two directories.
IsNarrow(pattern) == Len(pattern) \in Nat /\ Len(pattern) >= 1 /\ pattern[1] \in {".gid", "docs"}

LEMMA NarrowScopes ==
  ASSUME NEW id, Rituals!PhaseScope(id) # Rituals!Full
  PROVE  \A pattern \in Rituals!PhaseScope(id).writable_paths : IsNarrow(pattern)
<1>1. /\ IsNarrow(Rituals!InFeatures) /\ IsNarrow(Rituals!InDocs) /\ IsNarrow(Rituals!GraphFile)
      /\ IsNarrow(<<"docs", "RESEARCH-*">>) /\ IsNarrow(<<".gid", "**">>)
  BY DEF IsNarrow, Rituals!InFeatures, Rituals!InDocs, Rituals!GraphFile
<1>2. \A t, w, b : Rituals!Scope(t, w, b).writable_paths = w
  BY DEF Rituals!Scope
<1>3. \A pattern \in Rituals!Research.writable_paths : IsNarrow(pattern)
  BY <1>1, <1>2 DEF Rituals!Research
<1>4. \A pattern \in Rituals!Documentation.writable_paths : IsNarrow(pattern)
  BY <1>1, <1>2 DEF Rituals!Documentation
<1>5. \A pattern \in Rituals!Verify.writable_paths : IsNarrow(pattern)
  BY <1>1, <1>2 DEF Rituals!Verify
<1>6. \A pattern \in Rituals!GraphOps.writable_paths : IsNarrow(pattern)
  BY <1>1, <1>2 DEF Rituals!GraphOps
<1>7. \A pattern \in Rituals!Planning.writable_paths : IsNarrow(pattern)
  BY <1>1, <1>2 DEF Rituals!Planning
<1>8. \A t : \A pattern \in Rituals!Scope(t, {Rituals!InFeatures, Rituals!InDocs}, Rituals!Deny).writable_paths : IsNarrow(pattern)
  BY <1>1, <1>2
<1>9. /\ Rituals!CategoryScope["Design"] = Rituals!Documentation /\ Rituals!CategoryScope["Plan"] = Rituals!Planning
      /\ Rituals!CategoryScope["Verify"] = Rituals!Verify
  BY DEF Rituals!CategoryScope
<1>10. \/ \E t : Rituals!PhaseScope(id) = Rituals!Scope(t, {Rituals!InFeatures, Rituals!InDocs}, Rituals!Deny)
       \/ Rituals!PhaseScope(id) \in {Rituals!Research, Rituals!Documentation, Rituals!GraphOps, Rituals!Planning,
                                       Rituals!Verify, Rituals!Full}
  BY <1>9 DEF Rituals!PhaseScope
<1> QED BY <1>3, <1>4, <1>5, <1>6, <1>7, <1>8, <1>10

\* What such a scope lets be written is not gated.
LEMMA NarrowIsUngated ==
  ASSUME NEW language \in Languages, NEW path, IsPathName(path), path[1] \in {".gid", "docs"}
  PROVE  ~ Rituals!PathGated(Rituals!ForLanguage(language), path)
<1>1. path[1] \in Directories
  BY DEF Directories
<1>2. Rituals!ForLanguage(language).ungated_paths = Rituals!Ungated
  BY DEF Rituals!ForLanguage, Rituals!Gating, Languages
<1>3. CASE path # <<path[1]>>
  <2>1. Rituals!GatedMatch(<<path[1], "**">>, path)
    BY <1>1, <1>3, GatedBelow
  <2>2. <<path[1], "**">> \in Rituals!Ungated
    BY DEF Rituals!Ungated, Rituals!InDocs
  <2> QED BY <1>2, <2>1, <2>2 DEF Rituals!PathGated
<1>4. CASE path = <<path[1]>>
  <2> SUFFICES ASSUME NEW pattern \in Rituals!ForLanguage(language).gated_paths, Rituals!GatedMatch(pattern, path)
               PROVE  FALSE
    BY DEF Rituals!PathGated
  <2>1. Len(path) = 1 /\ path[Len(path)] = path[1]
    BY <1>4
  <2>2. CASE IsBelow(pattern)
    <3>1. PICK d \in Directories : pattern = <<d, "**">>
      BY <2>2 DEF IsBelow
    <3>2. path # <<d>> /\ path[1] \in {d} \cup Starting[d]
      BY <3>1, GatedBelow
    <3>3. path[1] # d
      BY <1>4, <3>2
    <3> QED BY <1>1, <3>2, <3>3, NamesAre
  <2>3. CASE IsFile(pattern)
    <3>1. PICK f : f # "**" /\ f \notin Directories /\ pattern = <<f>>
      BY <2>3 DEF IsFile
    <3>2. path[1] = f \/ (f \in DOMAIN Wild /\ path[1] \in Wild[f])
      BY <3>1, GatedFile
    <3> QED BY <1>1, <3>1, <3>2, NamesAre
  <2>4. CASE IsAnywhere(pattern)
    <3>1. PICK f \in Starred : pattern = <<"**", f>>
      BY <2>4 DEF IsAnywhere
    <3>2. path[1] \in Wild[f]
      BY <2>1, <3>1, GatedAnywhere
    <3> QED BY <1>1, <3>1, <3>2, NamesAre
  <2> QED BY <2>2, <2>3, <2>4, GatedAre
<1> QED BY <1>3, <1>4

\* A command begins with another when its words do.
LEMMA WordsBegin ==
  ASSUME NEW S, NEW s \in Seq(S), NEW t \in Seq(S)
  PROVE  Rituals!IsPrefix(s, t) <=> Len(s) <= Len(t) /\ \A j \in 1..Len(s) : s[j] = t[j]
<1> DEFINE n == Len(s)
<1>1. n \in Nat /\ Len(t) \in Nat
  OBVIOUS
<1>2. ASSUME n <= Len(t) PROVE SubSeq(s, 1, n) = SubSeq(t, 1, n) <=> \A j \in 1..n : s[j] = t[j]
  <2>1. SubSeq(s, 1, n) = [j \in 1..n |-> s[j]] /\ SubSeq(t, 1, n) = [j \in 1..n |-> t[j]]
    BY <1>1, <1>2
  <2> DEFINE a == [j \in 1..n |-> s[j]]
             b == [j \in 1..n |-> t[j]]
  <2>2. a = b <=> \A j \in 1..n : s[j] = t[j]
    <3>1. ASSUME a = b, NEW j \in 1..n PROVE s[j] = t[j]
      <4>1. a[j] = b[j]
        BY <3>1
      <4> QED BY <4>1
    <3> QED BY <3>1
  <2> QED BY <2>1, <2>2
<1> QED BY <1>2 DEF Rituals!IsPrefix

\* Two words begin a command that has them first.
LEMMA TwoWordsBegin ==
  ASSUME NEW S, NEW t \in Seq(S), Len(t) >= 2
  PROVE  Rituals!IsPrefix(<<t[1], t[2]>>, t)
<1> DEFINE s == <<t[1], t[2]>>
<1>1. s \in Seq(S) /\ Len(s) = 2 /\ s[1] = t[1] /\ s[2] = t[2]
  OBVIOUS
<1> HIDE DEF s
<1>2. Rituals!IsPrefix(s, t)
  BY <1>1, WordsBegin
<1> QED BY <1>2 DEF s

LEMMA OneWordBegins ==
  ASSUME NEW S, NEW t \in Seq(S), Len(t) >= 1
  PROVE  Rituals!IsPrefix(<<t[1]>>, t)
<1> DEFINE s == <<t[1]>>
<1>1. s \in Seq(S) /\ Len(s) = 1 /\ s[1] = t[1]
  OBVIOUS
<1> HIDE DEF s
<1>2. Rituals!IsPrefix(s, t)
  BY <1>1, WordsBegin
<1> QED BY <1>2 DEF s

\* The command that verifies a project is one that is gated.
LEMMA VerifyIsGated ==
  ASSUME NEW language \in Languages
  PROVE  Rituals!Blocked(Rituals!ForLanguage(language), "shell", Rituals!VerifyCommand(language), FALSE)
<1> DEFINE config == Rituals!ForLanguage(language)
           command == Rituals!VerifyCommand(language)
<1>1. config.enabled = TRUE
  BY DEF Rituals!ForLanguage, Rituals!Gating, Languages
<1>2. \E c \in config.gated_commands : Rituals!IsPrefix(c, command)
  <2>1. CASE language = "Rust"
    <3>1. command = <<"cargo", "build", "&&", "cargo", "test">>
      BY <2>1 DEF Rituals!VerifyCommand
    <3>2. <<"cargo", "build">> \in config.gated_commands
      BY <2>1 DEF Rituals!ForLanguage, Rituals!Gating
    <3>3. command \in Seq({"cargo", "build", "&&", "test"}) /\ Len(command) >= 2 /\ command[1] = "cargo" /\ command[2] = "build"
      BY <3>1
    <3> HIDE DEF command, config
    <3>4. Rituals!IsPrefix(<<"cargo", "build">>, command)
      BY <3>3, TwoWordsBegin
    <3> QED BY <3>2, <3>4
  <2>2. CASE language = "TypeScript"
    <3>1. command = <<"npm", "run", "build", "&&", "npm", "test">>
      BY <2>2 DEF Rituals!VerifyCommand
    <3>2. <<"npm", "run", "build">> \in config.gated_commands
      BY <2>2 DEF Rituals!ForLanguage, Rituals!Gating
    <3> DEFINE S == {"npm", "run", "build", "&&", "test"}
               s == <<"npm", "run", "build">>
    <3>3. command \in Seq(S) /\ Len(command) = 6 /\ command[1] = "npm" /\ command[2] = "run" /\ command[3] = "build"
      BY <3>1
    <3>4. s \in Seq(S) /\ Len(s) = 3 /\ s[1] = "npm" /\ s[2] = "run" /\ s[3] = "build"
      OBVIOUS
    <3> HIDE DEF command, config, S, s
    <3>5. Rituals!IsPrefix(s, command)
      BY <3>3, <3>4, WordsBegin
    <3> QED BY <3>2, <3>5 DEF s
  <2>3. CASE language = "Python"
    <3>1. command = <<"python", "-m", "pytest">>
      BY <2>3 DEF Rituals!VerifyCommand
    <3>2. <<"python">> \in config.gated_commands
      BY <2>3 DEF Rituals!ForLanguage, Rituals!Gating
    <3>3. command \in Seq({"python", "-m", "pytest"}) /\ Len(command) >= 1 /\ command[1] = "python"
      BY <3>1
    <3> HIDE DEF command, config
    <3>4. Rituals!IsPrefix(<<"python">>, command)
      BY <3>3, OneWordBegins
    <3> QED BY <3>2, <3>4
  <2>4. CASE language = "Go"
    <3>1. command = <<"go", "build", "&&", "go", "test">>
      BY <2>4 DEF Rituals!VerifyCommand
    <3>2. <<"go", "build">> \in config.gated_commands
      BY <2>4 DEF Rituals!ForLanguage, Rituals!Gating
    <3>3. command \in Seq({"go", "build", "&&", "test"}) /\ Len(command) >= 2 /\ command[1] = "go" /\ command[2] = "build"
      BY <3>1
    <3> HIDE DEF command, config
    <3>4. Rituals!IsPrefix(<<"go", "build">>, command)
      BY <3>3, TwoWordsBegin
    <3> QED BY <3>2, <3>4
  <2> QED BY <2>1, <2>2, <2>3, <2>4 DEF Languages
<1> HIDE DEF config, command
<1>3. Rituals!Blocked(config, "shell", command, FALSE)
  BY <1>1, <1>2 DEF Rituals!Blocked
<1> QED BY <1>3 DEF config, command

\* A path that is gated outside of a ritual (gating.rs) can be written in the phases of
\* implementation and review only (scope.rs), and what verifies a project is gated.
THEOREM GatesAlwaysFit == Rituals!GatesFitScopes(Paths)
<1>1. ASSUME NEW language \in Languages, NEW path \in Paths, NEW id,
             Rituals!PathGated(Rituals!ForLanguage(language), path),
             Rituals!is_path_writable(Rituals!PhaseScope(id), path)
      PROVE  Rituals!PhaseScope(id) = Rituals!Full
  <2> SUFFICES ASSUME Rituals!PhaseScope(id) # Rituals!Full PROVE FALSE
    OBVIOUS
  <2>1. PICK pattern \in Rituals!PhaseScope(id).writable_paths : Rituals!GlobMatch(pattern, path)
    BY <1>1 DEF Rituals!is_path_writable
  <2>2. IsNarrow(pattern)
    BY NarrowScopes
  <2>3. Len(pattern) \in Nat /\ Len(pattern) >= 1 /\ pattern[1] \in Directories /\ pattern[1] \in {".gid", "docs"}
    BY <2>2 DEF IsNarrow, Directories
  <2>4. pattern[1] # "**" /\ pattern[1] # "*" /\ pattern[1] \notin DOMAIN Wild
    BY <2>3, NamesAre
  <2>5. IsPathName(path) /\ IsSequence(path)
    BY PathsAre DEF IsPathName
  <2>6. path[1] = pattern[1]
    BY <2>1, <2>3, <2>4, <2>5, GlobBegins
  <2> QED BY <1>1, <2>3, <2>5, <2>6, NarrowIsUngated
<1>2. \A language \in Languages : \A path : ~ Rituals!Blocked(Rituals!ForLanguage(language), "write", path, TRUE)
  BY DEF Rituals!Blocked
<1>3. ASSUME NEW language \in {"Rust", "TypeScript", "Python", "Go"}
      PROVE  /\ \A path \in Paths : \A phase \in Rituals!Shipped :
                  Rituals!PathGated(Rituals!ForLanguage(language), path)
                    /\ Rituals!is_path_writable(Rituals!PhaseScope(phase.id), path)
                      => Rituals!PhaseScope(phase.id) = Rituals!Full
             /\ Rituals!Blocked(Rituals!ForLanguage(language), "shell", Rituals!VerifyCommand(language), FALSE)
             /\ \A path \in Paths : ~ Rituals!Blocked(Rituals!ForLanguage(language), "write", path, TRUE)
  <2>1. language \in Languages
    BY DEF Languages
  <2> QED BY <1>1, <1>2, <2>1, VerifyIsGated
<1> QED BY <1>3 DEF Rituals!GatesFitScopes

-----------------------------------------------------------------------------
(* Templates *)

\* The file that is loaded comes before the one that is listed, if it is another.
LEMMA ListedAlwaysLoaded == Rituals!ListedIsLoaded(Templates)
<1> DEFINE All == [1..2 -> [Templates -> {"absent", "malformed", "good"}]]
<1> SUFFICES ASSUME NEW dirs \in All, NEW name \in Templates,
                    Rituals!ListedFrom(name, dirs) # {},
                    Rituals!ListedFrom(name, dirs) # Rituals!LoadedFrom(name, dirs)
             PROVE  \E i \in Rituals!LoadedFrom(name, dirs) : dirs[i][name] = "malformed"
  BY DEF Rituals!ListedIsLoaded
<1> DEFINE there == {i \in 1..2 : dirs[i][name] # "absent"}
           good == {i \in 1..2 : dirs[i][name] = "good"}
<1>1. /\ DOMAIN dirs = 1..2
      /\ \A i \in 1..2 : dirs[i][name] \in {"absent", "malformed", "good"}
  OBVIOUS
<1>2. /\ name \notin DOMAIN Rituals!Builtin
      /\ good # {} /\ Rituals!ListedFrom(name, dirs) = {Rituals!Min(good)}
      /\ Rituals!LoadedFrom(name, dirs) = IF there = {} THEN {} ELSE {Rituals!Min(there)}
  <2>1. name \notin DOMAIN Rituals!Builtin
    BY DEF Rituals!ListedFrom, Rituals!LoadedFrom
  <2> QED BY <1>1, <2>1 DEF Rituals!ListedFrom, Rituals!LoadedFrom
<1>3. good \in SUBSET Nat /\ there \in SUBSET Nat /\ good \subseteq there /\ there # {}
  <2>1. good \subseteq there
    BY <1>1
  <2> QED BY <1>2, <2>1
<1>4. \A S : Rituals!Min(S) = Min(S)
  BY DEF Rituals!Min, Min
<1>5. Min(there) \in there /\ \A x \in there : Min(there) <= x
  BY <1>3, MinIs
<1>6. Min(good) \in good /\ \A x \in good : Min(good) <= x
  BY <1>2, <1>3, MinIs
<1>7. Min(there) # Min(good)
  BY <1>2, <1>3, <1>4
<1>8. Min(there) \notin good
  <2> SUFFICES ASSUME Min(there) \in good PROVE FALSE
    OBVIOUS
  <2>1. Min(good) <= Min(there) /\ Min(there) <= Min(good)
    BY <1>3, <1>5, <1>6
  <2>2. Min(good) \in Nat /\ Min(there) \in Nat
    BY <1>3, <1>5, <1>6
  <2> QED BY <1>7, <2>1, <2>2
<1>9. dirs[Min(there)][name] = "malformed"
  BY <1>1, <1>5, <1>8
<1>10. Rituals!LoadedFrom(name, dirs) = {Min(there)}
  BY <1>2, <1>3, <1>4
<1> QED BY <1>9, <1>10

-----------------------------------------------------------------------------
(* The phases of the shipped rituals *)

IsPhase(phase, id, kind, what, output) ==
  phase.id = id /\ phase.kind = kind /\ phase.what = what /\ phase.output = output

Out(path, required) == {[path |-> path, required |-> required]}

LEMMA PhaseIs ==
  ASSUME NEW id, NEW kind, NEW what, NEW approval, NEW on_failure
  PROVE  /\ IsPhase(Rituals!Phase(id, kind, what, approval, on_failure), id, kind, what, {})
         /\ \A path, required :
              IsPhase(Rituals!Producing(Rituals!Phase(id, kind, what, approval, on_failure), path, required),
                      id, kind, what, Out(path, required))
  BY DEF IsPhase, Out, Rituals!Phase, Rituals!Producing

Requirements == Rituals!InFeature("requirements.md")
DesignOfFeature == Rituals!InFeature("design.md")
Reports == <<"docs", "RESEARCH-*.md">>

IsFull(phase) ==
  \/ IsPhase(phase, "discover-existing", "shell", <<"echo">>, {})
  \/ IsPhase(phase, "capture-idea", "skill", <<"idea-intake">>, Out(Rituals!InFeature("idea.md"), FALSE))
  \/ IsPhase(phase, "research", "skill", <<"research">>, Out(Reports, TRUE))
  \/ IsPhase(phase, "draft-requirements", "skill", <<"requirements">>, Out(Requirements, TRUE))
  \/ IsPhase(phase, "draft-design", "skill", <<"design-doc">>, Out(DesignOfFeature, TRUE))
  \/ IsPhase(phase, "generate-graph", "skill", <<"design-to-graph">>, Out(Rituals!GraphFile, TRUE))
  \/ IsPhase(phase, "plan-tasks", "gid", <<"plan">>, {})
  \/ IsPhase(phase, "execute-tasks", "harness", <<>>, {})
  \/ IsPhase(phase, "extract-code", "gid", <<"extract">>, {})
  \/ IsPhase(phase, "verify-quality", "gid", <<"advise", "--strict">>, {})

IsShort(phase) ==
  \/ IsPhase(phase, "draft-design", "skill", <<"draft-design">>, Out(<<"DESIGN.md">>, FALSE))
  \/ IsPhase(phase, "generate-graph", "skill", <<"design-to-graph">>, Out(Rituals!GraphFile, TRUE))
  \/ IsPhase(phase, "execute-tasks", "harness", <<>>, {})
  \/ IsPhase(phase, "verify", "gid", <<"advise">>, {})
  \/ IsPhase(phase, "analyze", "gid", <<"advise">>, {})
  \/ IsPhase(phase, "fix", "harness", <<>>, {})
  \/ IsPhase(phase, "verify", "shell", <<"cargo", "test", "||", "npm", "test", "||", "pytest">>, {})

Short == Rituals!PhasesOf(Rituals!QuickImpl) \cup Rituals!PhasesOf(Rituals!Bugfix)

\* What there is in the three rituals.
LEMMA FullAre ==
  /\ \A phase \in Rituals!PhasesOf(Rituals!FullDevCycle) : IsFull(phase)
  /\ \E phase \in Rituals!PhasesOf(Rituals!FullDevCycle) :
       IsPhase(phase, "research", "skill", <<"research">>, Out(Reports, TRUE))
  /\ \E phase \in Rituals!PhasesOf(Rituals!FullDevCycle) :
       IsPhase(phase, "draft-requirements", "skill", <<"requirements">>, Out(Requirements, TRUE))
  /\ \E phase \in Rituals!PhasesOf(Rituals!FullDevCycle) :
       IsPhase(phase, "draft-design", "skill", <<"design-doc">>, Out(DesignOfFeature, TRUE))
  /\ \E phase \in Rituals!PhasesOf(Rituals!FullDevCycle) :
       IsPhase(phase, "generate-graph", "skill", <<"design-to-graph">>, Out(Rituals!GraphFile, TRUE))
<1> DEFINE p1 == Rituals!Phase("discover-existing", "shell", <<"echo">>, "auto", "skip")
           p2 == Rituals!Producing(Rituals!Phase("capture-idea", "skill", <<"idea-intake">>, "optional", "escalate"),
                                   Rituals!InFeature("idea.md"), FALSE)
           p3 == Rituals!Producing(Rituals!Phase("research", "skill", <<"research">>, "required", "escalate"),
                                   Reports, TRUE)
           p4 == Rituals!Producing(Rituals!Phase("draft-requirements", "skill", <<"requirements">>, "required", "escalate"),
                                   Requirements, TRUE)
           p5 == Rituals!Producing(Rituals!Phase("draft-design", "skill", <<"design-doc">>, "required", "escalate"),
                                   DesignOfFeature, TRUE)
           p6 == Rituals!Producing(Rituals!Phase("generate-graph", "skill", <<"design-to-graph">>, "required", "escalate"),
                                   Rituals!GraphFile, TRUE)
           p7 == Rituals!Phase("plan-tasks", "gid", <<"plan">>, "optional", "escalate")
           p8 == Rituals!Phase("execute-tasks", "harness", <<>>, "auto", "escalate")
           p9 == Rituals!Phase("extract-code", "gid", <<"extract">>, "auto", "skip")
           p10 == Rituals!Phase("verify-quality", "gid", <<"advise", "--strict">>, "auto", "escalate")
<1>1. /\ IsPhase(p1, "discover-existing", "shell", <<"echo">>, {})
      /\ IsPhase(p2, "capture-idea", "skill", <<"idea-intake">>, Out(Rituals!InFeature("idea.md"), FALSE))
      /\ IsPhase(p3, "research", "skill", <<"research">>, Out(Reports, TRUE))
      /\ IsPhase(p4, "draft-requirements", "skill", <<"requirements">>, Out(Requirements, TRUE))
      /\ IsPhase(p5, "draft-design", "skill", <<"design-doc">>, Out(DesignOfFeature, TRUE))
      /\ IsPhase(p6, "generate-graph", "skill", <<"design-to-graph">>, Out(Rituals!GraphFile, TRUE))
      /\ IsPhase(p7, "plan-tasks", "gid", <<"plan">>, {})
      /\ IsPhase(p8, "execute-tasks", "harness", <<>>, {})
      /\ IsPhase(p9, "extract-code", "gid", <<"extract">>, {})
      /\ IsPhase(p10, "verify-quality", "gid", <<"advise", "--strict">>, {})
  <2> QED BY PhaseIs, Zenon
<1>2. Rituals!FullDevCycle = <<p1, p2, p3, p4, p5, p6, p7, p8, p9, p10>>
  BY DEF Rituals!FullDevCycle, Reports, Requirements, DesignOfFeature
<1> HIDE DEF p1, p2, p3, p4, p5, p6, p7, p8, p9, p10
<1>3. Rituals!PhasesOf(Rituals!FullDevCycle) = {p1, p2, p3, p4, p5, p6, p7, p8, p9, p10}
  BY <1>2 DEF Rituals!PhasesOf
<1> QED BY <1>1, <1>3, Zenon DEF IsFull

LEMMA ShortAre ==
  /\ \A phase \in Short : IsShort(phase)
  /\ \E phase \in Short :
       IsPhase(phase, "generate-graph", "skill", <<"design-to-graph">>, Out(Rituals!GraphFile, TRUE))
  /\ Rituals!Shipped = Rituals!PhasesOf(Rituals!FullDevCycle) \cup Short
<1> DEFINE q1 == Rituals!Producing(Rituals!Phase("draft-design", "skill", <<"draft-design">>, "auto", "skip"),
                                   <<"DESIGN.md">>, FALSE)
           q2 == Rituals!Producing(Rituals!Phase("generate-graph", "skill", <<"design-to-graph">>, "optional", "escalate"),
                                   Rituals!GraphFile, TRUE)
           q3 == Rituals!Phase("execute-tasks", "harness", <<>>, "auto", "escalate")
           q4 == Rituals!Phase("verify", "gid", <<"advise">>, "auto", "escalate")
           b1 == Rituals!Phase("analyze", "gid", <<"advise">>, "auto", "skip")
           b2 == Rituals!Phase("fix", "harness", <<>>, "auto", "escalate")
           b3 == Rituals!Phase("verify", "shell", <<"cargo", "test", "||", "npm", "test", "||", "pytest">>, "auto", "escalate")
<1>1. /\ IsPhase(q1, "draft-design", "skill", <<"draft-design">>, Out(<<"DESIGN.md">>, FALSE))
      /\ IsPhase(q2, "generate-graph", "skill", <<"design-to-graph">>, Out(Rituals!GraphFile, TRUE))
      /\ IsPhase(q3, "execute-tasks", "harness", <<>>, {})
      /\ IsPhase(q4, "verify", "gid", <<"advise">>, {})
      /\ IsPhase(b1, "analyze", "gid", <<"advise">>, {})
      /\ IsPhase(b2, "fix", "harness", <<>>, {})
      /\ IsPhase(b3, "verify", "shell", <<"cargo", "test", "||", "npm", "test", "||", "pytest">>, {})
  BY PhaseIs, Zenon
<1>2. Rituals!QuickImpl = <<q1, q2, q3, q4>> /\ Rituals!Bugfix = <<b1, b2, b3>>
  BY DEF Rituals!QuickImpl, Rituals!Bugfix
<1> HIDE DEF q1, q2, q3, q4, b1, b2, b3
<1>3. Rituals!PhasesOf(Rituals!QuickImpl) = {q1, q2, q3, q4} /\ Rituals!PhasesOf(Rituals!Bugfix) = {b1, b2, b3}
  BY <1>2 DEF Rituals!PhasesOf
<1>4. \A phase \in Short : IsShort(phase)
  BY <1>1, <1>3, Zenon DEF IsShort, Short
<1>4a. \E phase \in Short :
         IsPhase(phase, "generate-graph", "skill", <<"design-to-graph">>, Out(Rituals!GraphFile, TRUE))
  BY <1>1, <1>3 DEF Short
<1>5. Rituals!Shipped = Rituals!PhasesOf(Rituals!FullDevCycle) \cup Short
  <2> DEFINE B == Rituals!Builtin
  <2>1. DOMAIN B = {"full_dev_cycle", "quick_impl", "bugfix"}
    BY DEF Rituals!Builtin
  <2>2. B["full_dev_cycle"] = Rituals!FullDevCycle /\ B["quick_impl"] = Rituals!QuickImpl /\ B["bugfix"] = Rituals!Bugfix
    BY DEF Rituals!Builtin
  <2>3. Rituals!Shipped = UNION {Rituals!PhasesOf(B[name]) : name \in DOMAIN B}
    BY DEF Rituals!Shipped
  <2> HIDE DEF B
  <2> QED BY <2>1, <2>2, <2>3 DEF Short
<1> QED BY <1>4, <1>4a, <1>5

-----------------------------------------------------------------------------
(* Phases when all went well *)

Written(path) ==
  [i \in DOMAIN path |->
     IF path[i] = "<feature>" THEN "auth"
     ELSE IF path[i] \in DOMAIN Wild THEN CHOOSE s \in Wild[path[i]] : TRUE ELSE path[i]]

AllWell(in) ==
  /\ in.session = TRUE /\ in.succeeds = TRUE /\ in.readable = TRUE /\ in.planned = TRUE
  /\ in.saved = TRUE /\ in.configured = TRUE /\ in.ends = "done"

\* How it is when all was done.
LEMMA DoneIs ==
  ASSUME NEW phases
  PROVE  LET in == Rituals!AllDone(phases)
         IN /\ AllWell(in)
            /\ \A f : f \in in.files <=> \E phase \in phases : \E o \in phase.output : f = Written(o.path)
<1> DEFINE in == Rituals!AllDone(phases)
           outputs == UNION {phase.output : phase \in phases}
<1>1. AllWell(in)
  BY DEF Rituals!AllDone, AllWell
<1>2. in.files = {Written(o.path) : o \in outputs}
  BY DEF Rituals!AllDone, Written
<1>3. \A f : f \in in.files <=> \E phase \in phases : \E o \in phase.output : f = Written(o.path)
  <2> HIDE DEF in
  <2> QED BY <1>2
<1> QED BY <1>1, <1>3

\* No star and no template is left in what was written.
LEMMA WrittenIs ==
  ASSUME NEW path
  PROVE  /\ DOMAIN Written(path) = DOMAIN path
         /\ \A i \in DOMAIN path :
              /\ Written(path)[i] \notin DOMAIN Wild
              /\ path[i] = "<feature>" => Written(path)[i] = "auth"
              /\ path[i] # "<feature>" /\ path[i] \in DOMAIN Wild => Written(path)[i] \in Wild[path[i]]
              /\ path[i] # "<feature>" /\ path[i] \notin DOMAIN Wild => Written(path)[i] = path[i]
<1>1. DOMAIN Written(path) = DOMAIN path
  BY DEF Written
<1>2. "auth" \notin DOMAIN Wild
  BY NamesAre DEF Starred
<1>4. \A s \in DOMAIN Wild : (CHOOSE x \in Wild[s] : TRUE) \in Wild[s]
  <2> TAKE s \in DOMAIN Wild
  <2>1. Wild[s] # {}
    BY NamesAre
  <2> QED BY <2>1
<1>5. \A s \in DOMAIN Wild : \A x \in Wild[s] : x \notin DOMAIN Wild
  BY NamesAre
<1> QED BY <1>1, <1>2, <1>4, <1>5 DEF Written

\* A plain path is written as it is.
LEMMA GraphFileIs ==
  ASSUME NEW phases, NEW phase \in phases, NEW required, phase.output = Out(Rituals!GraphFile, required)
  PROVE  Rituals!GraphFile \in Rituals!AllDone(phases).files
<1> DEFINE p == Rituals!GraphFile
           o == [path |-> p, required |-> required]
<1>1. DOMAIN p = 1..2 /\ p[1] = ".gid" /\ p[2] = "graph.yml" /\ p = [i \in 1..2 |-> p[i]]
  BY DEF Rituals!GraphFile
<1>2. p[1] # "<feature>" /\ p[2] # "<feature>" /\ p[1] \notin DOMAIN Wild /\ p[2] \notin DOMAIN Wild
  <2>1. p[1] \notin Starred /\ p[2] \notin Starred
    BY <1>1 DEF Starred
  <2> QED BY <1>1, <2>1, NamesAre
<1>3. Written(p) = p
  <2> HIDE DEF p
  <2>1. \A i \in 1..2 : i = 1 \/ i = 2
    OBVIOUS
  <2>2. Written(p) = [i \in 1..2 |-> p[i]]
    BY <1>1, <1>2, <2>1 DEF Written
  <2> QED BY <1>1, <2>2
<1>4. o \in phase.output /\ o.path = p
  BY DEF Out
<1> HIDE DEF p, o
<1>5. p \in Rituals!AllDone(phases).files
  BY <1>3, <1>4, DoneIs
<1> QED BY <1>5 DEF p

\* What is named by a pattern or a template is not a file that was written.
LEMMA ReportsAreNot ==
  ASSUME NEW phases
  PROVE  Reports \notin Rituals!AllDone(phases).files
<1>1. DOMAIN Reports = 1..2 /\ Reports[2] = "RESEARCH-*.md" /\ 2 \in DOMAIN Reports
  BY DEF Reports
<1>2. Reports[2] \in DOMAIN Wild
  BY <1>1, NamesAre DEF Starred
<1> SUFFICES ASSUME Reports \in Rituals!AllDone(phases).files PROVE FALSE
  OBVIOUS
<1>3. PICK phase \in phases : \E o \in phase.output : Reports = Written(o.path)
  BY DoneIs
<1>4. PICK o \in phase.output : Reports = Written(o.path)
  BY <1>3
<1> QED BY <1>1, <1>2, <1>4, WrittenIs

\* What the shipped phases write.
OutputIs(path) ==
  \/ \E document : path = Rituals!InFeature(document)
  \/ DOMAIN path \in {1..1, 1..2}

LEMMA OutputsAre ==
  ASSUME NEW phase \in Rituals!Shipped, NEW o \in phase.output
  PROVE  OutputIs(o.path)
<1>1. \A path, required : o \in Out(path, required) => o.path = path
  BY DEF Out
<1>2. OutputIs(Reports) /\ OutputIs(Rituals!GraphFile) /\ OutputIs(<<"DESIGN.md">>)
  <2>1. DOMAIN Reports = 1..2 /\ DOMAIN Rituals!GraphFile = 1..2 /\ DOMAIN <<"DESIGN.md">> = 1..1
    BY DEF Reports, Rituals!GraphFile
  <2> QED BY <2>1 DEF OutputIs
<1>3. \A document : OutputIs(Rituals!InFeature(document))
  BY DEF OutputIs
<1>4. CASE IsFull(phase)
  BY <1>1, <1>2, <1>3, <1>4 DEF IsFull, IsPhase, Requirements, DesignOfFeature
<1>5. CASE IsShort(phase)
  BY <1>1, <1>2, <1>3, <1>5 DEF IsShort, IsPhase
<1> QED BY <1>4, <1>5, FullAre, ShortAre

LEMMA FeaturesAreNot ==
  ASSUME NEW document
  PROVE  Rituals!InFeature(document) \notin Rituals!AllDone(Rituals!Shipped).files
<1> DEFINE p == Rituals!InFeature(document)
<1>1. \A d : LET q == Rituals!InFeature(d) IN DOMAIN q = 1..4 /\ q[3] = "<feature>"
  BY DEF Rituals!InFeature
<1>1a. 3 \in 1..4 /\ 3 \notin 1..1 /\ 3 \notin 1..2
  OBVIOUS
<1> SUFFICES ASSUME p \in Rituals!AllDone(Rituals!Shipped).files PROVE FALSE
  OBVIOUS
<1> HIDE DEF p
<1>2. DOMAIN p = 1..4 /\ p[3] = "<feature>"
  BY <1>1 DEF p
<1>3. PICK phase \in Rituals!Shipped : \E o \in phase.output : p = Written(o.path)
  BY DoneIs
<1>4. PICK o \in phase.output : p = Written(o.path)
  BY <1>3
<1> DEFINE q == o.path
<1>5. OutputIs(q)
  BY OutputsAre
<1>6. DOMAIN q = 1..4 /\ p = Written(q)
  BY <1>2, <1>4, WrittenIs
<1> HIDE DEF q
<1>7. PICK d : q = Rituals!InFeature(d)
  BY <1>1a, <1>5, <1>6 DEF OutputIs
<1>8. q[3] = "<feature>"
  BY <1>1, <1>7
<1>9. p[3] = "auth"
  BY <1>1a, <1>6, <1>8, WrittenIs
<1> QED BY <1>2, <1>9

\* Commands of the shell that a phase may run.
LEMMA EchoIsAllowed == Rituals!is_bash_allowed(Rituals!PhaseScope("discover-existing"), <<"echo">>)
<1> DEFINE t == <<"echo">>
           S == {"echo"}
           e == <<>>
<1>1. e \in Seq(S) /\ t \in Seq(S) /\ Len(e) = 0 /\ Len(t) = 1
  OBVIOUS
<1>2. e \in Rituals!PhaseScope("discover-existing").bash_policy
  BY DEF Rituals!PhaseScope, Rituals!Full, Rituals!Scope, Rituals!AllowAll
<1> HIDE DEF t, S, e
<1>3. Rituals!IsPrefix(e, t)
  <2>1. Len(e) <= Len(t) /\ \A j \in 1..Len(e) : e[j] = t[j]
    BY <1>1
  <2> QED BY <1>1, <2>1, WordsBegin
<1>4. Rituals!is_bash_allowed(Rituals!PhaseScope("discover-existing"), t)
  BY <1>2, <1>3 DEF Rituals!is_bash_allowed
<1> QED BY <1>4 DEF t

LEMMA TestsAreAllowed ==
  Rituals!is_bash_allowed(Rituals!PhaseScope("verify"), <<"cargo", "test", "||", "npm", "test", "||", "pytest">>)
<1> DEFINE t == <<"cargo", "test", "||", "npm", "test", "||", "pytest">>
<1>1. t \in Seq({"cargo", "test", "||", "npm", "pytest"}) /\ Len(t) >= 2 /\ t[1] = "cargo" /\ t[2] = "test"
  OBVIOUS
<1>2. <<"cargo", "test">> \in Rituals!PhaseScope("verify").bash_policy
  BY DEF Rituals!PhaseScope, Rituals!CategoryScope, Rituals!Verify, Rituals!Scope
<1> HIDE DEF t
<1>3. Rituals!IsPrefix(<<"cargo", "test">>, t)
  BY <1>1, TwoWordsBegin
<1>4. Rituals!is_bash_allowed(Rituals!PhaseScope("verify"), t)
  BY <1>2, <1>3 DEF Rituals!is_bash_allowed
<1> QED BY <1>4 DEF t

Words ==
  {"cargo", "test", "check", "clippy", "npm", "pytest", "go", "build", "&&", "run", "python", "-m", "echo"}

LEMMA AreWords ==
  /\ "cargo" \in Words /\ "test" \in Words /\ "check" \in Words /\ "clippy" \in Words /\ "npm" \in Words
  /\ "pytest" \in Words /\ "go" \in Words /\ "build" \in Words /\ "&&" \in Words /\ "run" \in Words
  /\ "python" \in Words /\ "-m" \in Words /\ "echo" \in Words
  BY DEF Words

\* None of the commands of a composed ritual is among them.
LEMMA VerifyIsNotAllowed ==
  ASSUME NEW language
  PROVE  ~ Rituals!is_bash_allowed(Rituals!PhaseScope("verify"), Rituals!VerifyCommand(language))
<1> DEFINE t == Rituals!VerifyCommand(language)
           policy == Rituals!PhaseScope("verify").bash_policy
<1>1. /\ t \in Seq(Words) /\ Len(t) >= 1
      /\ \/ Len(t) >= 2 /\ t[1] \in {"cargo", "go"} /\ t[2] = "build"
         \/ Len(t) >= 2 /\ t[1] = "npm" /\ t[2] = "run"
         \/ t[1] \in {"python", "echo"}
  <2>1. \/ t = <<"cargo", "build", "&&", "cargo", "test">>
        \/ t = <<"npm", "run", "build", "&&", "npm", "test">>
        \/ t = <<"python", "-m", "pytest">> \/ t = <<"go", "build", "&&", "go", "test">> \/ t = <<"echo">>
    BY DEF Rituals!VerifyCommand
  <2> HIDE DEF t
  <2>2. CASE t = <<"cargo", "build", "&&", "cargo", "test">>
    BY <2>2, AreWords
  <2>3. CASE t = <<"npm", "run", "build", "&&", "npm", "test">>
    BY <2>3, AreWords
  <2>4. CASE t = <<"python", "-m", "pytest">>
    BY <2>4, AreWords
  <2>5. CASE t = <<"go", "build", "&&", "go", "test">>
    BY <2>5, AreWords
  <2>6. CASE t = <<"echo">>
    BY <2>6, AreWords
  <2> QED BY <2>1, <2>2, <2>3, <2>4, <2>5, <2>6
<1>2. \A c \in policy :
        /\ c \in Seq(Words)
        /\ \/ Len(c) = 2 /\ c[1] \in {"cargo", "npm", "go"} /\ c[2] \in {"test", "check", "clippy"}
           \/ Len(c) = 1 /\ c[1] = "pytest"
  <2>1. policy = {<<"cargo", "test">>, <<"cargo", "check">>, <<"cargo", "clippy">>,
                  <<"npm", "test">>, <<"pytest">>, <<"go", "test">>}
    BY DEF Rituals!PhaseScope, Rituals!CategoryScope, Rituals!Verify, Rituals!Scope
  <2> HIDE DEF policy
  <2> TAKE c \in policy
  <2>2. ASSUME NEW w \in {"test", "check", "clippy"}, c = <<"cargo", w>>
        PROVE  c \in Seq(Words) /\ Len(c) = 2 /\ c[1] = "cargo" /\ c[2] = w
    BY <2>2, AreWords
  <2>3. ASSUME NEW w \in {"npm", "go"}, c = <<w, "test">>
        PROVE  c \in Seq(Words) /\ Len(c) = 2 /\ c[1] = w /\ c[2] = "test"
    BY <2>3, AreWords
  <2>4. ASSUME c = <<"pytest">>
        PROVE  c \in Seq(Words) /\ Len(c) = 1 /\ c[1] = "pytest"
    BY <2>4, AreWords
  <2>5. \/ c = <<"cargo", "test">> \/ c = <<"cargo", "check">> \/ c = <<"cargo", "clippy">>
        \/ c = <<"npm", "test">> \/ c = <<"pytest">> \/ c = <<"go", "test">>
    BY <2>1
  <2>6. c = <<"pytest">> \/ (\E w \in {"npm", "go"} : c = <<w, "test">>)
        \/ (\E w \in {"test", "check", "clippy"} : c = <<"cargo", w>>)
    BY <2>5
  <2> QED BY <2>2, <2>3, <2>4, <2>6
<1> HIDE DEF t, policy
<1> SUFFICES ASSUME NEW c \in policy, Rituals!IsPrefix(c, t) PROVE FALSE
  BY DEF Rituals!is_bash_allowed, t, policy
<1>3. Len(c) <= Len(t) /\ \A j \in 1..Len(c) : c[j] = t[j]
  BY <1>1, <1>2, WordsBegin
<1>4. c[1] = t[1] /\ (Len(c) = 2 => c[2] = t[2])
  BY <1>2, <1>3
<1> QED BY <1>1, <1>2, <1>4

-----------------------------------------------------------------------------
(* Which phases pass *)

\* When an executor reports a success.
LEMMA ExecutedIs ==
  ASSUME NEW phase, NEW in
  PROVE  /\ phase.kind = "skill" =>
              (Rituals!ExecutePhase(phase, in) <=> in.session /\ Rituals!OutputsExist(phase, in.files))
         /\ phase.kind = "gid" =>
              (Rituals!ExecutePhase(phase, in)
                 <=> Rituals!ExecuteInProcess(phase.what[1], in) /\ Rituals!OutputsExist(phase, in.files))
         /\ phase.kind = "harness" =>
              (Rituals!ExecutePhase(phase, in)
                 <=> /\ in.configured
                     /\ in.in_yaml => /\ in.readable /\ in.planned
                                      /\ in.work => in.saved /\ in.ends \notin {"error", "failed"})
         /\ phase.kind = "shell" =>
              (Rituals!ExecutePhase(phase, in)
                 <=> /\ Rituals!is_bash_allowed(Rituals!PhaseScope(phase.id), phase.what)
                     /\ in.succeeds /\ Rituals!OutputsExist(phase, in.files))
<1>1. CASE phase.kind = "skill"
  BY <1>1 DEF Rituals!ExecutePhase, Rituals!ExecuteSkill
<1>2. CASE phase.kind = "gid"
  BY <1>2 DEF Rituals!ExecutePhase, Rituals!ExecuteCommand
<1>3. CASE phase.kind = "harness"
  BY <1>3 DEF Rituals!ExecutePhase, Rituals!ExecuteHarness
<1>4. CASE phase.kind = "shell"
  BY <1>4 DEF Rituals!ExecutePhase, Rituals!ExecuteShell
<1> QED BY <1>1, <1>2, <1>3, <1>4

LEMMA WritesIs ==
  ASSUME NEW phase, NEW files
  PROVE  /\ phase.output = {} => Rituals!OutputsExist(phase, files)
         /\ \A path, required : phase.output = Out(path, required) =>
              (Rituals!OutputsExist(phase, files) <=> (required => path \in files))
<1>1. \A path, required : \A o : o \in Out(path, required) <=> o = [path |-> path, required |-> required]
  BY DEF Out
<1>2. \A path, required : LET o == [path |-> path, required |-> required] IN o.path = path /\ o.required = required
  OBVIOUS
<1>3. ASSUME NEW path, NEW required, phase.output = Out(path, required)
      PROVE  Rituals!OutputsExist(phase, files) <=> (required => path \in files)
  <2> DEFINE o == [path |-> path, required |-> required]
  <2>1. o.path = path /\ o.required = required /\ phase.output = {o}
    BY <1>3 DEF Out
  <2> HIDE DEF o
  <2> QED BY <2>1 DEF Rituals!OutputsExist
<1> QED BY <1>3 DEF Rituals!OutputsExist

\* The phases of the two short rituals pass, and all but three of the long one.
LEMMA ShortPasses ==
  ASSUME NEW phase, IsShort(phase), NEW in, AllWell(in), Rituals!GraphFile \in in.files
  PROVE  Rituals!ExecutePhase(phase, in)
<1>1. CASE IsPhase(phase, "draft-design", "skill", <<"draft-design">>, Out(<<"DESIGN.md">>, FALSE))
  BY <1>1, ExecutedIs, WritesIs DEF IsPhase, AllWell
<1>2. CASE IsPhase(phase, "generate-graph", "skill", <<"design-to-graph">>, Out(Rituals!GraphFile, TRUE))
  BY <1>2, ExecutedIs, WritesIs DEF IsPhase, AllWell
<1>3. CASE phase.kind = "harness"
  BY <1>3, ExecutedIs DEF AllWell
<1>4. CASE phase.kind = "gid" /\ phase.what = <<"advise">> /\ phase.output = {}
  <2>1. phase.what[1] = "advise"
    BY <1>4
  <2> QED BY <1>4, <2>1, ExecutedIs, WritesIs DEF Rituals!ExecuteInProcess, AllWell
<1>5. CASE IsPhase(phase, "verify", "shell", <<"cargo", "test", "||", "npm", "test", "||", "pytest">>, {})
  BY <1>5, ExecutedIs, WritesIs, TestsAreAllowed DEF IsPhase, AllWell
<1> QED BY <1>1, <1>2, <1>3, <1>4, <1>5 DEF IsShort, IsPhase

\* The phases of the long one whose output is never found.
Unreachable == {"research", "draft-requirements", "draft-design"}

LEMMA FullPasses ==
  ASSUME NEW phase, IsFull(phase), NEW in, AllWell(in), Rituals!GraphFile \in in.files,
         Reports \notin in.files, Requirements \notin in.files, DesignOfFeature \notin in.files
  PROVE  /\ Rituals!ExecutePhase(phase, in) <=> phase.id \notin Unreachable
         /\ phase.id \in Unreachable => \E path \in {Reports, Requirements, DesignOfFeature} : phase.output = Out(path, TRUE)
<1>1. CASE IsPhase(phase, "discover-existing", "shell", <<"echo">>, {})
  BY <1>1, ExecutedIs, WritesIs, EchoIsAllowed DEF IsPhase, Unreachable, AllWell
<1>2. CASE IsPhase(phase, "capture-idea", "skill", <<"idea-intake">>, Out(Rituals!InFeature("idea.md"), FALSE))
  BY <1>2, ExecutedIs, WritesIs DEF IsPhase, Unreachable, AllWell
<1>3. CASE \E path \in {Reports, Requirements, DesignOfFeature} : \E id \in Unreachable :
             phase.id = id /\ phase.kind = "skill" /\ phase.output = Out(path, TRUE)
  BY <1>3, ExecutedIs, WritesIs DEF AllWell
<1>4. CASE IsPhase(phase, "generate-graph", "skill", <<"design-to-graph">>, Out(Rituals!GraphFile, TRUE))
  BY <1>4, ExecutedIs, WritesIs DEF IsPhase, Unreachable, AllWell
<1>5. CASE IsPhase(phase, "plan-tasks", "gid", <<"plan">>, {})
  <2>1. phase.what[1] = "plan"
    BY <1>5 DEF IsPhase
  <2> QED BY <1>5, <2>1, ExecutedIs, WritesIs DEF Rituals!ExecuteInProcess, IsPhase, Unreachable, AllWell
<1>6. CASE IsPhase(phase, "execute-tasks", "harness", <<>>, {})
  BY <1>6, ExecutedIs DEF IsPhase, Unreachable, AllWell
<1>7. CASE IsPhase(phase, "extract-code", "gid", <<"extract">>, {})
  <2>1. phase.what[1] = "extract"
    BY <1>7 DEF IsPhase
  <2> QED BY <1>7, <2>1, ExecutedIs, WritesIs DEF Rituals!ExecuteInProcess, IsPhase, Unreachable, AllWell
<1>8. CASE IsPhase(phase, "verify-quality", "gid", <<"advise", "--strict">>, {})
  <2>1. phase.what[1] = "advise"
    BY <1>8 DEF IsPhase
  <2> QED BY <1>8, <2>1, ExecutedIs, WritesIs DEF Rituals!ExecuteInProcess, IsPhase, Unreachable, AllWell
<1>9. \/ IsPhase(phase, "discover-existing", "shell", <<"echo">>, {})
      \/ IsPhase(phase, "capture-idea", "skill", <<"idea-intake">>, Out(Rituals!InFeature("idea.md"), FALSE))
      \/ \E path \in {Reports, Requirements, DesignOfFeature} : \E id \in Unreachable :
           phase.id = id /\ phase.kind = "skill" /\ phase.output = Out(path, TRUE)
      \/ IsPhase(phase, "generate-graph", "skill", <<"design-to-graph">>, Out(Rituals!GraphFile, TRUE))
      \/ IsPhase(phase, "plan-tasks", "gid", <<"plan">>, {})
      \/ IsPhase(phase, "execute-tasks", "harness", <<>>, {})
      \/ IsPhase(phase, "extract-code", "gid", <<"extract">>, {})
      \/ IsPhase(phase, "verify-quality", "gid", <<"advise", "--strict">>, {})
  <2>1. ASSUME NEW id, NEW what, NEW path, IsPhase(phase, id, "skill", what, Out(path, TRUE)),
               id \in Unreachable, path \in {Reports, Requirements, DesignOfFeature}
        PROVE  \E p \in {Reports, Requirements, DesignOfFeature} : \E i \in Unreachable :
                 phase.id = i /\ phase.kind = "skill" /\ phase.output = Out(p, TRUE)
    BY <2>1 DEF IsPhase
  <2>2. "research" \in Unreachable /\ "draft-requirements" \in Unreachable /\ "draft-design" \in Unreachable
    BY DEF Unreachable
  <2> QED BY <2>1, <2>2 DEF IsFull
<1> QED BY <1>1, <1>2, <1>3, <1>4, <1>5, <1>6, <1>7, <1>8, <1>9

\* A phase of a composed ritual.
IsComposed(phase) ==
  \/ \E id \in {"update-design", "draft-design", "update-graph", "generate-graph", "implement"} :
       IsPhase(phase, id, "skill", <<id>>, {})
  \/ IsPhase(phase, "execute-tasks", "harness", <<>>, {})
  \/ \E language : IsPhase(phase, "verify", "shell", Rituals!VerifyCommand(language), {})

LEMMA ComposedAre ==
  ASSUME NEW projects
  PROVE  /\ \A phase \in Rituals!Composed(projects) : IsComposed(phase)
         /\ \E phase \in Rituals!Composed(projects) : phase.id = "verify"
<1>1. ASSUME NEW files
      PROVE  /\ \A phase \in Rituals!PhasesOf(Rituals!ComposeRitual(files)) : IsComposed(phase)
             /\ \E phase \in Rituals!PhasesOf(Rituals!ComposeRitual(files)) : phase.id = "verify"
  <2> DEFINE skill(name) == Rituals!Phase(name, "skill", <<name>>, "auto", "escalate")
             p1 == skill(IF Rituals!Detect(files).has_design THEN "update-design" ELSE "draft-design")
             p2 == skill(IF Rituals!Detect(files).has_graph THEN "update-graph" ELSE "generate-graph")
             p3 == IF Rituals!Detect(files).has_source_code THEN skill("implement")
                   ELSE Rituals!Phase("execute-tasks", "harness", <<>>, "auto", "escalate")
             p4 == Rituals!Phase("verify", "shell", Rituals!VerifyCommand(Rituals!Detect(files).language), "auto", "escalate")
  <2>1. Rituals!ComposeRitual(files) = <<p1, p2, p3, p4>>
    BY DEF Rituals!ComposeRitual
  <2>2. \A name : IsPhase(skill(name), name, "skill", <<name>>, {})
    BY PhaseIs
  <2>3. IsComposed(skill("update-design")) /\ IsComposed(skill("draft-design")) /\ IsComposed(skill("update-graph"))
        /\ IsComposed(skill("generate-graph")) /\ IsComposed(skill("implement"))
    <3> HIDE DEF skill
    <3> QED BY <2>2 DEF IsComposed
  <2>4. IsComposed(p1) /\ IsComposed(p2)
    <3> HIDE DEF skill
    <3> QED BY <2>3
  <2>5. IsComposed(p3)
    <3>1. IsComposed(Rituals!Phase("execute-tasks", "harness", <<>>, "auto", "escalate"))
      BY PhaseIs DEF IsComposed
    <3> HIDE DEF skill
    <3> QED BY <2>3, <3>1
  <2>6. IsComposed(p4) /\ p4.id = "verify"
    BY PhaseIs DEF IsComposed, IsPhase
  <2> HIDE DEF p1, p2, p3, p4
  <2>7. Rituals!PhasesOf(Rituals!ComposeRitual(files)) = {p1, p2, p3, p4}
    BY <2>1 DEF Rituals!PhasesOf
  <2> QED BY <2>4, <2>5, <2>6, <2>7
<1>2. {} \in SUBSET projects
  OBVIOUS
<1>3. Rituals!Composed(projects) = UNION {Rituals!PhasesOf(Rituals!ComposeRitual(files)) : files \in SUBSET projects}
  BY DEF Rituals!Composed
<1> QED BY <1>1, <1>2, <1>3

LEMMA ComposedPasses ==
  ASSUME NEW phase, IsComposed(phase), NEW in, AllWell(in)
  PROVE  Rituals!ExecutePhase(phase, in) <=> phase.id # "verify"
<1>1. CASE \E id \in {"update-design", "draft-design", "update-graph", "generate-graph", "implement"} :
             IsPhase(phase, id, "skill", <<id>>, {})
  BY <1>1, ExecutedIs, WritesIs DEF IsPhase, AllWell
<1>2. CASE IsPhase(phase, "execute-tasks", "harness", <<>>, {})
  BY <1>2, ExecutedIs DEF IsPhase, AllWell
<1>3. CASE \E language : IsPhase(phase, "verify", "shell", Rituals!VerifyCommand(language), {})
  BY <1>3, ExecutedIs, VerifyIsNotAllowed DEF IsPhase, AllWell
<1> QED BY <1>1, <1>2, <1>3 DEF IsComposed

-----------------------------------------------------------------------------
(* Resolving what phases write *)

\* A pattern is matched by a path of its length each part of which matches.
LEMMA GlobEach ==
  ASSUME NEW pattern, NEW path, Len(pattern) \in Nat, Len(path) = Len(pattern),
         \A i \in 1..Len(pattern) : pattern[i] # "**" /\ Rituals!SegmentMatch(pattern[i], path[i])
  PROVE  Rituals!GlobMatch(pattern, path)
<1> DEFINE n == Len(pattern)
<1>1. PICK fits : Fitting(fits, pattern, path) /\ (Rituals!GlobMatch(pattern, path) <=> 1 \in fits[1])
  BY GlobIs
<1>2. Turns(fits, pattern, path)
  BY <1>1, FitsAt
<1>3. n + 1 \in fits[n + 1]
  <2>1. n + 1 \in 1..(Len(path) + 1) /\ n + 1 > Len(path)
    OBVIOUS
  <2> QED BY <1>2, <2>1 DEF Turns
<1>4. \A i \in 1..n : i + 1 \in fits[i + 1] => i \in fits[i]
  <2> TAKE i \in 1..n
  <2>1. i \in 1..(Len(path) + 1) /\ i <= Len(path)
    OBVIOUS
  <2> QED BY <1>2, <2>1 DEF Turns
<1> DEFINE T == {k \in Nat : k <= n => n + 1 - k \in fits[n + 1 - k]}
<1>5. Nat \subseteq T
  <2>1. 0 \in T
    BY <1>3
  <2>2. ASSUME NEW k \in Nat, k \in T PROVE k + 1 \in T
    <3>1. CASE k + 1 <= n
      <4>1. n + 1 - (k + 1) \in 1..n /\ n + 1 - (k + 1) + 1 = n + 1 - k /\ k <= n
        BY <3>1
      <4> QED BY <1>4, <2>2, <4>1
    <3>2. CASE ~ (k + 1 <= n)
      BY <3>2
    <3> QED BY <3>1, <3>2
  <2> HIDE DEF T
  <2> QED BY <2>1, <2>2, NatSetInduction
<1>6. n \in Nat /\ n <= n /\ n + 1 - n = 1
  OBVIOUS
<1>7. 1 \in fits[1]
  BY <1>5, <1>6
<1> QED BY <1>1, <1>7

\* What a phase wrote can be resolved from the path it was to write.
LEMMA WrittenResolves ==
  ASSUME NEW path, IsSequence(path),
         \A i \in DOMAIN path : path[i] # "**" /\ path[i] # "*",
         NEW files, Written(path) \in files
  PROVE  Rituals!Resolved(path, files) # {}
<1> DEFINE pattern == [i \in DOMAIN path |-> IF path[i] = "<feature>" THEN "*" ELSE path[i]]
           f == Written(path)
<1>1. Rituals!Resolved(path, files) = {g \in files : Rituals!GlobMatch(pattern, g)}
  BY DEF Rituals!Resolved
<1>2. DOMAIN path = 1..Len(path) /\ Len(path) \in Nat
  BY DEF IsSequence
<1>3. DOMAIN f = 1..Len(path) /\ DOMAIN pattern = 1..Len(path)
  BY <1>2, WrittenIs
<1>4. f = [i \in 1..Len(path) |-> f[i]] /\ pattern = [i \in 1..Len(path) |-> pattern[i]]
  <2>1. f = [i \in DOMAIN path |-> f[i]] /\ pattern = [i \in DOMAIN path |-> pattern[i]]
    BY DEF Written
  <2> HIDE DEF f, pattern
  <2> QED BY <1>2, <2>1
<1>5. \A i \in 1..Len(path) : pattern[i] # "**" /\ Rituals!SegmentMatch(pattern[i], f[i])
  <2> TAKE i \in 1..Len(path)
  <2>1. i \in DOMAIN path
    BY <1>2
  <2>2. CASE path[i] = "<feature>"
    BY <2>1, <2>2 DEF Rituals!SegmentMatch
  <2>3. CASE path[i] # "<feature>"
    <3>1. pattern[i] = path[i] /\ path[i] # "**"
      BY <2>1, <2>3
    <3> HIDE DEF f, pattern
    <3>2. CASE path[i] \in DOMAIN Wild
      <4>1. f[i] \in Wild[path[i]]
        BY <2>1, <2>3, <3>2, WrittenIs DEF f
      <4> QED BY <3>1, <3>2, <4>1 DEF Rituals!SegmentMatch
    <3>3. CASE path[i] \notin DOMAIN Wild
      <4>1. f[i] = path[i]
        BY <2>1, <2>3, <3>3, WrittenIs DEF f
      <4> QED BY <3>1, <4>1 DEF Rituals!SegmentMatch
    <3> QED BY <3>2, <3>3
  <2> QED BY <2>2, <2>3
<1> HIDE DEF f, pattern
<1>6. Len(f) = Len(path) /\ Len(pattern) = Len(path)
  BY <1>2, <1>3, <1>4, FunctionIsSequence
<1>7. Rituals!GlobMatch(pattern, f)
  BY <1>2, <1>5, <1>6, GlobEach
<1> QED BY <1>1, <1>7 DEF f

LEMMA PatternsArePlain ==
  ASSUME NEW path \in {Reports, Requirements, DesignOfFeature}
  PROVE  IsSequence(path) /\ \A i \in DOMAIN path : path[i] # "**" /\ path[i] # "*"
<1>1. CASE path = Reports
  <2>1. path \in Seq({"docs", "RESEARCH-*.md"})
    BY <1>1 DEF Reports
  <2>2. DOMAIN path = 1..2 /\ path[1] = "docs" /\ path[2] = "RESEARCH-*.md"
    BY <1>1 DEF Reports
  <2> QED BY <2>1, <2>2, SeqIsSequence
<1>2. ASSUME NEW document \in {"requirements.md", "design.md"}, path = Rituals!InFeature(document)
      PROVE  IsSequence(path) /\ \A i \in DOMAIN path : path[i] # "**" /\ path[i] # "*"
  <2>1. path \in Seq({".gid", "features", "<feature>", document})
    BY <1>2 DEF Rituals!InFeature
  <2>2. DOMAIN path = 1..4 /\ path[1] = ".gid" /\ path[2] = "features" /\ path[3] = "<feature>" /\ path[4] = document
    BY <1>2 DEF Rituals!InFeature
  <2>3. document # "**" /\ document # "*"
    OBVIOUS
  <2> QED BY <2>1, <2>2, <2>3, SeqIsSequence
<1> QED BY <1>1, <1>2 DEF Requirements, DesignOfFeature

LEMMA ShippedCanPass ==
  /\ {phase.id : phase \in Rituals!NeverPasses(Rituals!Shipped)} = {"research", "draft-requirements", "draft-design"}
  /\ Rituals!NeverPasses(Rituals!PhasesOf(Rituals!QuickImpl) \cup Rituals!PhasesOf(Rituals!Bugfix)) = {}
  /\ \A phase \in Rituals!NeverPasses(Rituals!Shipped) : \A o \in phase.output :
       Rituals!Resolved(o.path, Rituals!AllDone(Rituals!Shipped).files) # {}
<1> DEFINE in == Rituals!AllDone(Rituals!Shipped)
           few == Rituals!AllDone(Short)
           full == Rituals!PhasesOf(Rituals!FullDevCycle)
<1>1. AllWell(in) /\ AllWell(few)
  BY DoneIs
<1>2. \A phase \in full : IsFull(phase)
  BY FullAre
<1>3. \A phase \in Short : IsShort(phase)
  BY ShortAre
<1>4. Rituals!Shipped = full \cup Short
  BY ShortAre
<1>5. Rituals!GraphFile \in in.files
  <2>1. \E phase \in Rituals!Shipped :
          IsPhase(phase, "generate-graph", "skill", <<"design-to-graph">>, Out(Rituals!GraphFile, TRUE))
    BY <1>4, FullAre
  <2> QED BY <2>1, GraphFileIs DEF IsPhase
<1>6. Rituals!GraphFile \in few.files
  <2>1. \E phase \in Short : IsPhase(phase, "generate-graph", "skill", <<"design-to-graph">>, Out(Rituals!GraphFile, TRUE))
    BY ShortAre
  <2> QED BY <2>1, GraphFileIs DEF IsPhase
<1>7. Reports \notin in.files /\ Requirements \notin in.files /\ DesignOfFeature \notin in.files
  BY ReportsAreNot, FeaturesAreNot DEF Requirements, DesignOfFeature
<1> HIDE DEF in, few, full
<1>8. Rituals!NeverPasses(Short) = {}
  BY <1>1, <1>3, <1>6, ShortPasses DEF Rituals!NeverPasses, few
<1>9. \A phase \in Rituals!Shipped : phase \in Rituals!NeverPasses(Rituals!Shipped) <=> ~ Rituals!ExecutePhase(phase, in)
  BY DEF Rituals!NeverPasses, in
<1>10. \A phase \in Short : Rituals!ExecutePhase(phase, in)
  BY <1>1, <1>3, <1>5, ShortPasses
<1>11. \A phase \in full :
         /\ Rituals!ExecutePhase(phase, in) <=> phase.id \notin Unreachable
         /\ phase.id \in Unreachable => \E path \in {Reports, Requirements, DesignOfFeature} : phase.output = Out(path, TRUE)
  BY <1>1, <1>2, <1>5, <1>7, FullPasses
<1>12. Rituals!NeverPasses(Rituals!Shipped) \subseteq Rituals!Shipped
  BY DEF Rituals!NeverPasses
<1>13. \A phase \in Rituals!NeverPasses(Rituals!Shipped) :
         /\ phase \in full /\ phase.id \in Unreachable
         /\ \E path \in {Reports, Requirements, DesignOfFeature} : phase.output = Out(path, TRUE)
  BY <1>4, <1>9, <1>10, <1>11, <1>12
<1>14. {phase.id : phase \in Rituals!NeverPasses(Rituals!Shipped)} = Unreachable
  <2>1. ASSUME NEW id \in Unreachable PROVE \E phase \in full : phase.id = id
    BY <2>1, FullAre DEF IsPhase, Unreachable, full
  <2>2. ASSUME NEW id \in Unreachable PROVE \E phase \in Rituals!NeverPasses(Rituals!Shipped) : phase.id = id
    <3>1. PICK phase \in full : phase.id = id
      BY <2>1
    <3> QED BY <1>4, <1>9, <1>11, <3>1
  <2> QED BY <1>13, <2>2
<1>15. ASSUME NEW phase \in Rituals!NeverPasses(Rituals!Shipped), NEW o \in phase.output
       PROVE  Rituals!Resolved(o.path, in.files) # {}
  <2>1. PICK path \in {Reports, Requirements, DesignOfFeature} : phase.output = Out(path, TRUE)
    BY <1>13
  <2>2. o.path = path
    BY <2>1 DEF Out
  <2>3. Written(path) \in in.files
    BY <1>12, <2>2, DoneIs DEF in
  <2>4. IsSequence(path) /\ \A i \in DOMAIN path : path[i] # "**" /\ path[i] # "*"
    BY PatternsArePlain
  <2> QED BY <2>2, <2>3, <2>4, WrittenResolves
<1> QED BY <1>8, <1>14, <1>15 DEF Short, Unreachable, in

-----------------------------------------------------------------------------

\* Of the shipped rituals three phases, and of every composed one the last, fail whatever
\* was done; all others pass when all went well (executor.rs, template.rs, composer.rs).
THEOREM PhasesAlwaysCanPass == Rituals!PhasesCanPass(ProjectFiles)
<1> DEFINE composed == Rituals!Composed(ProjectFiles)
           in == Rituals!AllDone(composed)
<1>1. /\ \A phase \in composed : IsComposed(phase)
      /\ \E phase \in composed : phase.id = "verify"
  BY ComposedAre
<1>2. AllWell(in)
  BY DoneIs
<1> HIDE DEF composed
<1>3. \A phase \in composed : Rituals!ExecutePhase(phase, in) <=> phase.id # "verify"
  <2> HIDE DEF in
  <2> QED BY <1>1, <1>2, ComposedPasses
<1>4. Rituals!NeverPasses(composed) = {phase \in composed : phase.id = "verify"}
  BY <1>3 DEF Rituals!NeverPasses
<1>5. {phase.id : phase \in Rituals!NeverPasses(composed)} = {"verify"}
  <2> DEFINE N == Rituals!NeverPasses(composed)
  <2>1. (\A phase \in N : phase.id = "verify") /\ \E phase \in N : phase.id = "verify"
    BY <1>1, <1>4
  <2> HIDE DEF N
  <2>2. PICK last \in N : last.id = "verify"
    BY <2>1
  <2>3. "verify" \in {phase.id : phase \in N}
    BY <2>2
  <2>4. {phase.id : phase \in N} \subseteq {"verify"}
    BY <2>1
  <2>5. {phase.id : phase \in N} = {"verify"}
    BY <2>3, <2>4
  <2> QED BY <2>5 DEF N
<1>6. ASSUME NEW phase \in composed, phase.id = "verify"
      PROVE  phase \in Rituals!NeverPasses({phase})
  <2> DEFINE own == Rituals!AllDone({phase})
  <2>1. AllWell(own)
    BY DoneIs
  <2> HIDE DEF own
  <2>2. ~ Rituals!ExecutePhase(phase, own)
    BY <1>1, <1>6, <2>1, ComposedPasses
  <2> QED BY <2>2 DEF Rituals!NeverPasses, own
<1> QED BY <1>5, <1>6, ShippedCanPass DEF Rituals!PhasesCanPass, composed

\* Everything matches two stars.
LEMMA SegmentsAnywhere ==
  ASSUME NEW path, Len(path) \in Nat
  PROVE  Rituals!GlobMatch(<<"**">>, path)
<1> DEFINE pattern == <<"**">>
<1>1. Len(pattern) = 1 /\ pattern[1] = "**" /\ 1 \in 1..Len(pattern) /\ 1 \in 1..(Len(path) + 1)
  OBVIOUS
<1> HIDE DEF pattern
<1>2. PICK fits : Fitting(fits, pattern, path) /\ (Rituals!GlobMatch(pattern, path) <=> 1 \in fits[1])
  BY <1>1, GlobIs
<1>3. Turns(fits, pattern, path)
  BY <1>1, <1>2, FitsAt
<1>4. 1 \in fits[1]
  BY <1>1, <1>3 DEF Turns
<1> QED BY <1>2, <1>4 DEF pattern

\* A skill with a prompt of its own may write what that asks for.
PromptFits(id, what) ==
  LET scope == Rituals!PhaseScope(id)
      path == Rituals!PromptWrites[what]
  IN Rituals!Prompt(what, {}) = "built-in" =>
       "Write" \in Rituals!Tools(scope) /\ (Rituals!is_path_writable(scope, path) \/ path = Rituals!RootDesign)

LEMMA PromptsFit ==
  /\ PromptFits("generate-graph", "design-to-graph") /\ PromptFits("update-graph", "update-graph")
  /\ PromptFits("draft-design", "draft-design") /\ PromptFits("update-design", "update-design")
  /\ PromptFits("implement", "implement")
  /\ \A id : PromptFits(id, "idea-intake") /\ PromptFits(id, "research") /\ PromptFits(id, "requirements")
  /\ \A id : PromptFits(id, "design-doc") /\ PromptFits(id, "generate-graph")
<1> DEFINE W == Rituals!PromptWrites
<1>1. /\ DOMAIN W = {"design-to-graph", "update-graph", "draft-design", "quick-design", "update-design", "implement"}
      /\ W["design-to-graph"] = Rituals!GraphFile /\ W["update-graph"] = Rituals!GraphFile
      /\ W["draft-design"] = Rituals!RootDesign /\ W["update-design"] = Rituals!RootDesign
      /\ W["implement"] = <<"src", "main">>
  BY DEF Rituals!PromptWrites
<1> HIDE DEF W
<1>2. \A t, p, b : /\ Rituals!Scope(t, p, b).allowed_tools = t /\ Rituals!Scope(t, p, b).writable_paths = p
  BY DEF Rituals!Scope
<1>3. /\ "Write" \in Rituals!GraphOps.allowed_tools /\ <<".gid", "**">> \in Rituals!GraphOps.writable_paths
      /\ "Write" \in Rituals!Documentation.allowed_tools
      /\ "Write" \in Rituals!Full.allowed_tools /\ <<"**">> \in Rituals!Full.writable_paths
  BY <1>2 DEF Rituals!GraphOps, Rituals!Documentation, Rituals!Full
<1>4. /\ Rituals!PhaseScope("generate-graph") = Rituals!GraphOps /\ Rituals!PhaseScope("update-graph") = Rituals!GraphOps
      /\ Rituals!PhaseScope("draft-design") = Rituals!Documentation
      /\ Rituals!PhaseScope("update-design") = Rituals!Documentation
      /\ Rituals!PhaseScope("implement") = Rituals!Full
  <2>1. Rituals!CategoryScope["Design"] = Rituals!Documentation
    BY DEF Rituals!CategoryScope
  <2> QED BY <2>1 DEF Rituals!PhaseScope
<1>5. \A scope : "Write" \in scope.allowed_tools => "Write" \in Rituals!Tools(scope)
  BY DEF Rituals!Tools
<1>6. Rituals!GlobMatch(<<".gid", "**">>, Rituals!GraphFile)
  <2> DEFINE p == Rituals!GraphFile
  <2>1. p \in Seq({".gid", "graph.yml"}) /\ Len(p) = 2 /\ p[1] = ".gid" /\ p[2] = "graph.yml"
    BY DEF Rituals!GraphFile
  <2>2. p[1] \notin DOMAIN Wild /\ p[2] \notin DOMAIN Wild
    <3>1. ".gid" \notin Starred /\ "graph.yml" \notin Starred
      BY DEF Starred
    <3> HIDE DEF p
    <3> QED BY <2>1, <3>1, NamesAre
  <2>3. ".gid" # "**" /\ ".gid" # "*" /\ ".gid" \notin DOMAIN Wild
    BY NamesAre DEF Directories
  <2> HIDE DEF p
  <2>4. IsSequence(p)
    BY <2>1, SeqIsSequence
  <2>5. IsPathName(p)
    BY <2>1, <2>2, <2>4 DEF IsPathName
  <2>6. Rituals!GlobMatch(<<".gid", "**">>, p)
    BY <2>1, <2>3, <2>5, GlobBelow
  <2> QED BY <2>6 DEF p
<1>7. Rituals!GlobMatch(<<"**">>, <<"src", "main">>)
  <2>1. Len(<<"src", "main">>) \in Nat
    OBVIOUS
  <2> QED BY <2>1, SegmentsAnywhere
<1>8. Rituals!is_path_writable(Rituals!GraphOps, Rituals!GraphFile)
  BY <1>3, <1>6 DEF Rituals!is_path_writable
<1>9. Rituals!is_path_writable(Rituals!Full, <<"src", "main">>)
  BY <1>3, <1>7 DEF Rituals!is_path_writable
<1>10. PromptFits("generate-graph", "design-to-graph") /\ PromptFits("update-graph", "update-graph")
  BY <1>1, <1>3, <1>4, <1>5, <1>8 DEF PromptFits, W
<1>11. PromptFits("draft-design", "draft-design") /\ PromptFits("update-design", "update-design")
  BY <1>1, <1>3, <1>4, <1>5 DEF PromptFits, W
<1>12. PromptFits("implement", "implement")
  BY <1>1, <1>3, <1>4, <1>5, <1>9 DEF PromptFits, W
<1>13. \A skill \in {"idea-intake", "research", "requirements", "design-doc", "generate-graph"} :
         Rituals!Prompt(skill, {}) = "generic"
  <2> TAKE skill \in {"idea-intake", "research", "requirements", "design-doc", "generate-graph"}
  <2>1. skill \notin DOMAIN W
    BY <1>1
  <2> QED BY <2>1 DEF Rituals!Prompt, W
<1>14. \A id : \A skill \in {"idea-intake", "research", "requirements", "design-doc", "generate-graph"} :
         PromptFits(id, skill)
  BY <1>13 DEF PromptFits
<1> QED BY <1>10, <1>11, <1>12, <1>14

LEMMA PromptsAlwaysFit == Rituals!PromptsFitScopes(ProjectFiles)
<1>1. ASSUME NEW phase \in Rituals!Shipped \cup Rituals!Composed(ProjectFiles), phase.kind = "skill"
      PROVE  PromptFits(phase.id, phase.what[1])
  <2>1. \A s : <<s>>[1] = s
    OBVIOUS
  <2>2. CASE IsFull(phase)
    <3>1. \/ \E s \in {"idea-intake", "research", "requirements", "design-doc"} : phase.what = <<s>>
          \/ phase.id = "generate-graph" /\ phase.what = <<"design-to-graph">>
      BY <1>1, <2>2 DEF IsFull, IsPhase
    <3> QED BY <2>1, <3>1, PromptsFit
  <2>3. CASE IsShort(phase)
    <3>1. \/ phase.id = "draft-design" /\ phase.what = <<"draft-design">>
          \/ phase.id = "generate-graph" /\ phase.what = <<"design-to-graph">>
      BY <1>1, <2>3 DEF IsShort, IsPhase
    <3> QED BY <2>1, <3>1, PromptsFit
  <2>4. CASE IsComposed(phase)
    <3>1. \E id \in {"update-design", "draft-design", "update-graph", "generate-graph", "implement"} :
            phase.id = id /\ phase.what = <<id>>
      BY <1>1, <2>4 DEF IsComposed, IsPhase
    <3> QED BY <2>1, <3>1, PromptsFit
  <2> QED BY <2>2, <2>3, <2>4, FullAre, ShortAre, ComposedAre
<1> QED BY <1>1 DEF Rituals!PromptsFitScopes, PromptFits

\* The phases that a ritual does not get through without.
IsHarness(phase) ==
  phase.kind = "harness" /\ phase.id \in {"execute-tasks", "fix"} /\ phase.on_failure = "escalate"
MakesGraph(phase) ==
  /\ IsPhase(phase, "generate-graph", "skill", <<"design-to-graph">>, Out(Rituals!GraphFile, TRUE))
  /\ phase.on_failure = "escalate"

LEMMA StrictPhases ==
  ASSUME NEW name \in DOMAIN Rituals!Builtin
  PROVE  /\ \E phase \in Rituals!PhasesOf(Rituals!Builtin[name]) : IsHarness(phase)
         /\ name # "bugfix" => \E phase \in Rituals!PhasesOf(Rituals!Builtin[name]) : MakesGraph(phase)
         /\ Rituals!PhasesOf(Rituals!Builtin[name]) \subseteq Rituals!Shipped
<1> DEFINE B == Rituals!Builtin
           made(approval) ==
             Rituals!Producing(Rituals!Phase("generate-graph", "skill", <<"design-to-graph">>, approval, "escalate"),
                               Rituals!GraphFile, TRUE)
           run(id) == Rituals!Phase(id, "harness", <<>>, "auto", "escalate")
<1>1. DOMAIN B = {"full_dev_cycle", "quick_impl", "bugfix"}
  BY DEF Rituals!Builtin
<1>2. /\ B["full_dev_cycle"] = Rituals!FullDevCycle /\ B["quick_impl"] = Rituals!QuickImpl
      /\ B["bugfix"] = Rituals!Bugfix
  BY DEF Rituals!Builtin
<1>3. ASSUME NEW id \in {"execute-tasks", "fix"} PROVE IsHarness(run(id))
  BY DEF IsHarness, Rituals!Phase
<1>4. ASSUME NEW approval PROVE MakesGraph(made(approval))
  <2>1. made(approval).on_failure = "escalate"
    BY DEF Rituals!Phase, Rituals!Producing
  <2> QED BY <2>1, PhaseIs DEF MakesGraph
<1>5. \A ritual, i : i \in DOMAIN ritual => ritual[i] \in Rituals!PhasesOf(ritual)
  BY DEF Rituals!PhasesOf
<1>6. Rituals!FullDevCycle[6] = made("required") /\ Rituals!FullDevCycle[8] = run("execute-tasks")
      /\ 6 \in DOMAIN Rituals!FullDevCycle /\ 8 \in DOMAIN Rituals!FullDevCycle
  BY DEF Rituals!FullDevCycle
<1>7. Rituals!QuickImpl[2] = made("optional") /\ Rituals!QuickImpl[3] = run("execute-tasks")
      /\ 2 \in DOMAIN Rituals!QuickImpl /\ 3 \in DOMAIN Rituals!QuickImpl
  BY DEF Rituals!QuickImpl
<1>8. Rituals!Bugfix[2] = run("fix") /\ 2 \in DOMAIN Rituals!Bugfix
  BY DEF Rituals!Bugfix
<1>9. Rituals!PhasesOf(B[name]) \subseteq Rituals!Shipped
  BY DEF Rituals!Shipped
<1> HIDE DEF B, made, run
<1>10. CASE name = "full_dev_cycle"
  BY <1>2, <1>3, <1>4, <1>5, <1>6, <1>9, <1>10 DEF B
<1>11. CASE name = "quick_impl"
  BY <1>2, <1>3, <1>4, <1>5, <1>7, <1>9, <1>11 DEF B
<1>12. CASE name = "bugfix"
  BY <1>2, <1>3, <1>5, <1>8, <1>9, <1>12 DEF B
<1> QED BY <1>1, <1>10, <1>11, <1>12 DEF B

\* A ritual that gets through hides no failure.
LEMMA FailuresAlwaysShow ==
  ASSUME NEW planned \in BOOLEAN, NEW work \in BOOLEAN
  PROVE  Rituals!FailuresShow(planned, work)
<1> SUFFICES ASSUME NEW name \in DOMAIN Rituals!Builtin, NEW in_yaml \in BOOLEAN, NEW saved \in BOOLEAN,
                    NEW ends \in Rituals!Ends,
                    Rituals!GetsThrough(Rituals!Builtin[name],
                      [Rituals!AllDone(Rituals!Shipped) EXCEPT
                         !.files = IF in_yaml THEN @ ELSE @ \ {Rituals!GraphFile}, !.in_yaml = in_yaml,
                         !.planned = planned, !.work = work, !.saved = saved, !.ends = ends])
             PROVE  /\ in_yaml \/ name = "bugfix"
                    /\ in_yaml => planned /\ (work => saved /\ ends \in {"left", "done"})
  BY DEF Rituals!FailuresShow
<1> DEFINE in == [Rituals!AllDone(Rituals!Shipped) EXCEPT
                    !.files = IF in_yaml THEN @ ELSE @ \ {Rituals!GraphFile}, !.in_yaml = in_yaml,
                    !.planned = planned, !.work = work, !.saved = saved, !.ends = ends]
           ritual == Rituals!Builtin[name]
<1>1. in.planned = planned /\ in.work = work /\ in.in_yaml = in_yaml /\ in.saved = saved /\ in.ends = ends
  BY DEF Rituals!AllDone
<1>2. ~ in_yaml => Rituals!GraphFile \notin in.files
  BY DEF Rituals!AllDone
<1>3. Rituals!GetsThrough(ritual, in)
  OBVIOUS
<1> HIDE DEF in, ritual
<1>4. ASSUME NEW phase \in Rituals!PhasesOf(ritual), phase.on_failure = "escalate",
             phase.id \in {"generate-graph", "execute-tasks", "fix"}
      PROVE  Rituals!ExecutePhase(phase, in)
  <2>1. phase \notin Rituals!NeverPasses(Rituals!Shipped)
    <3>1. SUFFICES ASSUME phase \in Rituals!NeverPasses(Rituals!Shipped) PROVE FALSE
      OBVIOUS
    <3>2. phase.id \in {"research", "draft-requirements", "draft-design"}
      BY <3>1, ShippedCanPass
    <3> QED BY <1>4, <3>2
  <2> QED BY <1>3, <1>4, <2>1 DEF Rituals!GetsThrough, Rituals!Unpassable
<1>5. in_yaml \/ name = "bugfix"
  <2> SUFFICES ASSUME ~ in_yaml, name # "bugfix" PROVE FALSE
    OBVIOUS
  <2>1. PICK phase \in Rituals!PhasesOf(ritual) : MakesGraph(phase)
    BY StrictPhases DEF ritual
  <2>2. Rituals!ExecutePhase(phase, in)
    BY <1>4, <2>1 DEF MakesGraph, IsPhase
  <2>3. Rituals!OutputsExist(phase, in.files)
    BY <2>1, <2>2, ExecutedIs DEF MakesGraph, IsPhase
  <2> QED BY <1>2, <2>1, <2>3, WritesIs DEF MakesGraph, IsPhase
<1>6. in_yaml => planned /\ (work => saved /\ ends \in {"left", "done"})
  <2>1. PICK phase \in Rituals!PhasesOf(ritual) : IsHarness(phase)
    BY StrictPhases DEF ritual
  <2>2. Rituals!ExecutePhase(phase, in)
    BY <1>4, <2>1 DEF IsHarness
  <2>3. in.in_yaml => in.planned /\ (in.work => in.saved /\ in.ends \notin {"error", "failed"})
    BY <2>1, <2>2, ExecutedIs DEF IsHarness
  <2> QED BY <1>1, <2>3 DEF Rituals!Ends
<1> QED BY <1>5, <1>6

\* The phases of the shipped and of the composed rituals can pass, but for those that the
\* code makes impossible, and a shipped ritual that gets through hides no plan that could
\* not be made, no task that failed and no graph that was not saved, whatever the files,
\* paths and templates of a project are.
THEOREM PlanPhases == PlanSpec => []PhasesFit
<1>1. RitualsFit
  BY PhasesAlwaysCanPass, PromptsAlwaysFit, GatesAlwaysFit, MatchersAlwaysAgree, ListedAlwaysLoaded,
     FailuresAlwaysShow DEF RitualsFit
<1>2. PhasesFit
  BY <1>1 DEF PhasesFit
<1> QED BY <1>2, PTL
=============================================================================
