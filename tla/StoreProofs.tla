---- MODULE StoreProofs ----
(***************************************************************************)
(* Theorems about the store of the graph (GraphStore) and its migration    *)
(* (Migration), for any seeds, commands, bounds and, where it says so, any *)
(* number of processes.                                                    *)
(***************************************************************************)
EXTENDS Migration, SequenceLemmas

-----------------------------------------------------------------------------
(* The inductive invariant *)

\* Every variable of a process is there for every process.
LocalType ==
    /\ DOMAIN pc = Procs /\ DOMAIN cmd = Procs /\ DOMAIN backend = Procs
    /\ DOMAIN mem = Procs /\ DOMAIN ids = Procs /\ DOMAIN todo = Procs
    /\ DOMAIN base = Procs /\ DOMAIN clean = Procs

IsGraph(g) ==
    /\ g = [project |-> g.project, nodes |-> g.nodes, edges |-> g.edges]
    /\ g.nodes = [id \in DOMAIN g.nodes |-> g.nodes[id]]

\* A store that is not there holds nothing, and no edge of graph.db dangles.
FilesInv ==
    /\ IsGraph(db)
    /\ ~ db_file => db = NewGraph
    /\ yml_file \in {"absent", "torn", "there"}
    /\ yml_file = "absent" => yml = NewGraph
    /\ EdgesHaveEnds

Loading == {"load", "ids", "nodes", "edges"}

\* What p is loading from is what it was when its command began.
Held(p) ==
    IF backend[p] = "sqlite" THEN base[p] = db
    ELSE base[p] = IF yml_file = "there" THEN yml ELSE NewGraph

\* The edges that the ids p has asked for so far have brought.
Asked(p) == {e \in base[p].edges : Ends(e) \cap (ids[p] \ todo[p]) # {}}

\* A command that does not use what it loads.
Overwrites(p) == cmd[p].op = "design" /\ ~ cmd[p].merge

LoadedInv(p) ==
    /\ pc[p] \in Loading => Held(p)
    /\ pc[p] = "load" => mem[p] = NewGraph
    /\ pc[p] = "ids" => mem[p] = [NewGraph EXCEPT !.project = base[p].project]
    /\ pc[p] \in {"nodes", "edges"} => ids[p] = NodeIds(base[p]) /\ todo[p] \subseteq ids[p]
    /\ pc[p] = "nodes" =>
          mem[p] = [project |-> base[p].project,
                    nodes |-> [id \in ids[p] \ todo[p] |-> base[p].nodes[id]],
                    edges |-> {}]
    /\ pc[p] = "edges" =>
          \E kept \in Dedups(Asked(p)) : mem[p] = [base[p] EXCEPT !.edges = kept]
    /\ pc[p] = "edit" => mem[p] \in Loads(backend[p], base[p]) \/ Overwrites(p)
    /\ pc[p] \in {"save", "commit", "write"} => mem[p] \in Whole(p)
    /\ pc[p] = "commit" => ids[p] = NodeIds(db)

BackendInv(p) ==
    /\ pc[p] \in {"ids", "nodes", "edges", "commit"} => backend[p] = "sqlite"
    /\ pc[p] \in {"commit", "name", "description"} => db_file
    /\ pc[p] = "write" => backend[p] = "yaml"
    /\ backend[p] \in {"sqlite", "yaml"}

StoreInv ==
    /\ LocalType
    /\ FilesInv
    /\ \A p \in Procs : BackendInv(p) /\ (clean[p] => LoadedInv(p))

-----------------------------------------------------------------------------
(* Lemmas about graphs *)

LEMMA NewIsGraph == IsGraph(NewGraph) /\ Dangling(NewGraph) = {} /\ NodeIds(NewGraph) = {}
  <1>1. NewGraph.nodes = <<>> /\ NewGraph.edges = {}
    BY DEF NewGraph
  <1>2. <<>> = [id \in DOMAIN <<>> |-> <<>>[id]] /\ DOMAIN <<>> = {}
    OBVIOUS
  <1>3. NewGraph = [project |-> NewGraph.project, nodes |-> NewGraph.nodes,
                    edges |-> NewGraph.edges]
    BY DEF NewGraph
  <1>4. NewGraph.nodes = [id \in DOMAIN NewGraph.nodes |-> NewGraph.nodes[id]]
    BY <1>1, <1>2, Zenon
  <1>5. Dangling(NewGraph) = {} /\ NodeIds(NewGraph) = {}
    BY <1>1, <1>2 DEF Dangling, NodeIds
  <1> QED
    BY <1>3, <1>4, <1>5 DEF IsGraph

\* Nothing is kept of nothing.
LEMMA DedupsEmpty == {} \in Dedups({})
  BY DEF Dedups, Distinct

\* Adding what another id brings keeps one edge of each (from, to, relation).
LEMMA DedupsGrow ==
  ASSUME NEW seen, NEW more, NEW old \in Dedups(seen),
         NEW kept \in Dedups(old \cup more), old \subseteq kept
  PROVE  kept \in Dedups(seen \cup more)
  BY DEF Dedups, Distinct

\* Something may always be kept: the same representative of equal edges.
LEMMA DedupsSome == ASSUME NEW edges PROVE Deduped(edges) \in Dedups(edges)
  <1> DEFINE Pick(e) == CHOOSE f \in edges : SameEdge(e, f)
  <1>1. ASSUME NEW e \in edges PROVE Pick(e) \in edges /\ SameEdge(e, Pick(e))
    <2>1. SameEdge(e, e)
      BY DEF SameEdge
    <2> QED BY <2>1
  <1>2. ASSUME NEW e \in edges, NEW f \in edges, SameEdge(e, f) PROVE Pick(e) = Pick(f)
    <2>1. \A g \in edges : SameEdge(e, g) <=> SameEdge(f, g)
      BY <1>2 DEF SameEdge
    <2> QED BY <2>1
  <1>3. Deduped(edges) = {Pick(e) : e \in edges}
    BY DEF Deduped
  <1>4. ASSUME NEW e \in edges, NEW f \in edges, SameEdge(Pick(e), Pick(f))
        PROVE  Pick(e) = Pick(f)
    <2>1. SameEdge(e, f)
      BY <1>1, <1>4 DEF SameEdge
    <2> QED BY <2>1, <1>2
  <1> HIDE DEF Pick
  <1> QED BY <1>1, <1>3, <1>4 DEF Dedups, Distinct

\* A load of nothing returns nothing.
LEMMA LoadsNew == ASSUME NEW b PROVE NewGraph \in Loads(b, NewGraph)
  <1>1. NewGraph.edges = {} /\ NewGraph = [NewGraph EXCEPT !.edges = {}]
    BY DEF NewGraph
  <1> QED
    BY <1>1, DedupsEmpty DEF Loads

LEMMA LoadsSome == ASSUME NEW b, NEW g PROVE Loads(b, g) # {}
  BY DedupsSome DEF Loads

-----------------------------------------------------------------------------
(* What a step of one process does to the others *)

Apart(q) ==
    /\ pc'[q] = pc[q] /\ cmd'[q] = cmd[q] /\ backend'[q] = backend[q]
    /\ mem'[q] = mem[q] /\ ids'[q] = ids[q] /\ todo'[q] = todo[q] /\ base'[q] = base[q]
    /\ clean'[q] => clean[q] /\ db' = db /\ yml' = yml /\ yml_file' = yml_file

\* A process changes only its own memory, and what it changes of the store it
\* does not change unnoticed.
LEMMA StepApart ==
  ASSUME LocalType, FilesInv, NEW p \in Procs, StoreStep(p)
  PROVE  LocalType' /\ (db_file => db_file') /\ \A q \in Procs \ {p} : Apart(q)
  <1> USE DEF Apart, LocalType, Goto, End, files, local, bounds, ghosts, Disturb
  <1>1. ASSUME NEW c, Begin(p, c)
        PROVE  LocalType' /\ (db_file => db_file') /\ \A q \in Procs \ {p} : Apart(q)
    BY <1>1 DEF Begin
  <1>2. CASE Edit(p)
    BY <1>1, <1>2 DEF Edit
  <1>3. CASE HistoryRestore(p)
    BY <1>1, <1>3 DEF HistoryRestore
  <1>4. CASE HistorySave(p)
    BY <1>4 DEF HistorySave
  <1>5. CASE InitProject(p)
    BY <1>5 DEF InitProject
  <1>6. CASE LoadYaml(p)
    BY <1>6 DEF LoadYaml, LoadFailed
  <1>7. CASE LoadProject(p)
    BY <1>7 DEF LoadProject
  <1>8. CASE LoadIds(p)
    BY <1>8 DEF LoadIds
  <1>9. CASE LoadNode(p)
    BY <1>9 DEF LoadNode
  <1>10. CASE LoadedNodes(p)
    BY <1>10 DEF LoadedNodes
  <1>11. CASE LoadEdges(p)
    BY <1>11 DEF LoadEdges
  <1>12. CASE LoadedEdges(p)
    BY <1>12 DEF LoadedEdges
  <1>13. CASE Change(p)
    BY <1>13 DEF Change
  <1>14. CASE Restore(p)
    BY <1>14 DEF Restore
  <1>15. CASE TruncateYaml(p)
    BY <1>15 DEF TruncateYaml
  <1>16. CASE WriteYaml(p)
    BY <1>16 DEF WriteYaml
  <1>17. CASE ReadOldIds(p)
    BY <1>17 DEF ReadOldIds, FilesInv
  <1>18. CASE Commit(p)
    BY <1>18 DEF Commit
  <1>19. CASE SetName(p)
    BY <1>19 DEF SetName
  <1>20. CASE SetDescription(p)
    BY <1>20 DEF SetDescription
  <1>21. CASE Crash(p)
    BY <1>21 DEF Crash
  <1> QED
    BY <1>2, <1>3, <1>4, <1>5, <1>6, <1>7, <1>8, <1>9, <1>10, <1>11, <1>12, <1>13,
       <1>14, <1>15, <1>16, <1>17, <1>18, <1>19, <1>20, <1>21 DEF StoreStep

-----------------------------------------------------------------------------
(* The files *)

LEMMA BatchIsGraph ==
  ASSUME NEW d, IsGraph(d), NEW old, NEW g
  PROVE  IsGraph(Batch(d, old, g)) /\ Batch(d, old, g).project = d.project
  <1> DEFINE late == DOMAIN d.nodes \ old
             rows == Over(Rows(g.nodes), Restrict(d.nodes, late))
             edges == {e \in d.edges : Ends(e) \subseteq late \ NodeIds(g)} \cup g.edges
  <1>1. d = [project |-> d.project, nodes |-> d.nodes, edges |-> d.edges]
    BY DEF IsGraph
  <1>2. Batch(d, old, g) = [d EXCEPT !.nodes = rows, !.edges = edges]
    BY DEF Batch
  <1>3. rows = [id \in DOMAIN rows |-> rows[id]]
    BY DEF Over
  <1> HIDE DEF rows, edges
  <1>4. Batch(d, old, g) = [project |-> d.project, nodes |-> rows, edges |-> edges]
    BY <1>1, <1>2
  <1> QED
    BY <1>3, <1>4 DEF IsGraph

\* What is written into graph.db is refused if an edge dangles, and the rest of
\* what is written is the project.
LEMMA StepFiles ==
  ASSUME StoreInv, NEW p \in Procs, StoreStep(p)
  PROVE  FilesInv'
  <1> USE DEF StoreInv, files, local, bounds, ghosts
  <1>1. CASE UNCHANGED <<yml_file, yml, db_file, db>>
    BY <1>1 DEF FilesInv, EdgesHaveEnds
  <1>2. CASE UNCHANGED <<db_file, db>> /\ yml_file' \in {"torn", "there"}
    BY <1>2 DEF FilesInv, EdgesHaveEnds
  <1>3. CASE ReadOldIds(p)
    BY <1>3, NewIsGraph DEF FilesInv, EdgesHaveEnds, ReadOldIds
  <1>4. ASSUME Commit(p), db' # db PROVE FilesInv'
    <2> DEFINE d == Batch(db, ids[p], mem[p])
    <2>1. db' = d /\ Dangling(d) = {} /\ UNCHANGED <<yml_file, yml, db_file>> /\ db_file
      BY <1>4 DEF Commit, Refused, BackendInv
    <2>2. IsGraph(d)
      BY BatchIsGraph DEF FilesInv
    <2> HIDE DEF d
    <2> QED
      BY <2>1, <2>2 DEF FilesInv, EdgesHaveEnds
  <1>5. ASSUME pc[p] \in {"name", "description"}, UNCHANGED <<yml_file, yml, db_file>>,
               NEW project, db' = [db EXCEPT !.project = project]
        PROVE  FilesInv'
    <2>1. IsGraph(db') /\ Dangling(db') = Dangling(db)
      BY <1>5 DEF FilesInv, IsGraph, Dangling, NodeIds
    <2> QED
      BY <1>5, <2>1 DEF FilesInv, EdgesHaveEnds, BackendInv
  <1>6. CASE SetName(p)
    BY <1>5, <1>6 DEF SetName
  <1>7. CASE SetDescription(p)
    BY <1>5, <1>7 DEF SetDescription
  <1>8. CASE TruncateYaml(p) \/ WriteYaml(p) \/ InitProject(p)
    BY <1>2, <1>8 DEF TruncateYaml, WriteYaml, InitProject
  <1>9. CASE Commit(p) /\ db' = db
    BY <1>1, <1>9 DEF Commit
  <1>10. CASE Edit(p) \/ HistoryRestore(p) \/ HistorySave(p) \/ Change(p) \/ Restore(p)
    BY <1>1, <1>10 DEF Edit, HistoryRestore, Begin, HistorySave, Change, Restore
  <1>11. CASE LoadYaml(p) \/ LoadProject(p) \/ LoadIds(p) \/ LoadNode(p) \/ LoadedNodes(p)
              \/ LoadEdges(p) \/ LoadedEdges(p)
    BY <1>1, <1>11 DEF LoadYaml, LoadProject, LoadIds, LoadNode, LoadedNodes, LoadEdges,
                      LoadedEdges
  <1>12. CASE Crash(p)
    BY <1>1, <1>2, <1>12 DEF Crash
  <1> QED
    BY <1>3, <1>4, <1>6, <1>7, <1>8, <1>9, <1>10, <1>11, <1>12 DEF StoreStep

-----------------------------------------------------------------------------
(* The load *)

\* What the steps of a process leave of its own command.
Same(p) ==
    /\ cmd'[p] = cmd[p] /\ backend'[p] = backend[p] /\ base'[p] = base[p]
    /\ clean'[p] => clean[p]

Kept == yml_file' = yml_file /\ yml' = yml /\ db' = db

LEMMA WholeSame == ASSUME NEW p \in Procs, Same(p) PROVE Whole(p)' = Whole(p)
  BY DEF Whole, Same

LEMMA BeginStep ==
  ASSUME StoreInv, NEW p \in Procs, NEW c, Begin(p, c)
  PROVE  BackendInv(p)' /\ LoadedInv(p)'
  <1> USE DEF StoreInv, LocalType, Begin, Goto, files
  <1>1. pc'[p] \in {"edit", "load"} /\ mem'[p] = NewGraph /\ Kept /\ cmd'[p] = c
    BY DEF Kept
  <1>2. pc'[p] = "edit" => Overwrites(p)'
    BY <1>1 DEF Overwrites
  <1>3. PICK b \in {DetectBackend} \cup Explicit :
          /\ backend'[p] = b
          /\ base'[p] = IF b = "yaml" /\ yml_file = "torn" THEN NewGraph ELSE Stored(b)
    OBVIOUS
  <1>4. b \in {"sqlite", "yaml"}
    BY StoreAssumption DEF DetectBackend, StoreAssumption
  <1>5. Held(p)'
    BY <1>1, <1>3, <1>4 DEF Held, Kept, Stored, FilesInv
  <1>6. BackendInv(p)'
    BY <1>1, <1>3, <1>4 DEF BackendInv
  <1>7. LoadedInv(p)'
    BY <1>1, <1>2, <1>5 DEF LoadedInv
  <1> QED
    BY <1>6, <1>7

LEMMA LoadYamlStep ==
  ASSUME StoreInv, NEW p \in Procs, LoadYaml(p)
  PROVE  BackendInv(p)' /\ (clean'[p] => LoadedInv(p)')
  <1> USE DEF StoreInv, LocalType, Goto, files, ghosts, bounds
  <1>1. backend[p] = "yaml" /\ pc[p] = "load" /\ pc'[p] \in {"edit", "idle"} /\ Same(p) /\ Kept
    BY DEF LoadYaml, LoadFailed, Same, Kept
  <1>2. BackendInv(p)'
    BY <1>1 DEF BackendInv, Same
  <1>3. ASSUME clean[p], pc'[p] = "edit" PROVE mem'[p] = base[p]
    BY <1>1, <1>3 DEF LoadYaml, LoadedInv, Loading, Held, FilesInv
  <1>4. clean'[p] => LoadedInv(p)'
    BY <1>1, <1>3 DEF LoadedInv, Loading, Same, Loads
  <1> QED
    BY <1>2, <1>4

LEMMA LoadProjectStep ==
  ASSUME StoreInv, NEW p \in Procs, LoadProject(p)
  PROVE  BackendInv(p)' /\ (clean'[p] => LoadedInv(p)')
  <1> USE DEF StoreInv, LocalType, Goto, files, ghosts, bounds
  <1>1. backend[p] = "sqlite" /\ pc[p] = "load" /\ Same(p) /\ Kept
    BY DEF LoadProject, Same, Kept
  <1>2. BackendInv(p)'
    BY <1>1 DEF LoadProject, BackendInv, Same
  <1>3. ASSUME clean[p] PROVE base[p] = db /\ mem[p] = NewGraph
    BY <1>1, <1>3 DEF LoadedInv, Loading, Held
  <1>4. CASE db_file
    <2>1. pc'[p] = "ids" /\ mem'[p] = [mem[p] EXCEPT !.project = db.project]
      BY <1>4 DEF LoadProject
    <2>2. clean[p] => Held(p)'
      BY <1>1, <1>3 DEF Held, Same, Kept
    <2>3. clean[p] => mem'[p] = [NewGraph EXCEPT !.project = base'[p].project]
      BY <1>1, <1>3, <2>1 DEF Same
    <2>4. clean'[p] => LoadedInv(p)'
      BY <1>1, <2>1, <2>2, <2>3 DEF LoadedInv, Same
    <2> QED
      BY <1>2, <2>4
  <1>5. CASE ~ db_file
    <2>1. pc'[p] = "edit" /\ mem'[p] = mem[p]
      BY <1>5 DEF LoadProject
    <2>2. clean[p] => mem'[p] \in Loads(backend'[p], base'[p])
      BY <1>1, <1>3, <1>5, <2>1, LoadsNew DEF Same, FilesInv
    <2>3. clean'[p] => LoadedInv(p)'
      BY <1>1, <2>1, <2>2 DEF LoadedInv, Loading, Same
    <2> QED
      BY <1>2, <2>3
  <1> QED
    BY <1>4, <1>5

LEMMA LoadIdsStep ==
  ASSUME StoreInv, NEW p \in Procs, LoadIds(p)
  PROVE  BackendInv(p)' /\ (clean'[p] => LoadedInv(p)')
  <1> USE DEF StoreInv, LocalType, Goto, files, ghosts, bounds
  <1>1. /\ backend[p] = "sqlite" /\ pc[p] = "ids" /\ pc'[p] = "nodes" /\ Same(p) /\ Kept
        /\ mem'[p] = mem[p] /\ ids'[p] = NodeIds(db) /\ todo'[p] = NodeIds(db)
    BY DEF LoadIds, Same, Kept, BackendInv
  <1>2. BackendInv(p)'
    BY <1>1 DEF BackendInv, Same
  <1>3. ASSUME clean[p]
        PROVE  base[p] = db /\ mem[p] = [NewGraph EXCEPT !.project = base[p].project]
    BY <1>1, <1>3 DEF LoadedInv, Loading, Held
  <1>4. ASSUME clean[p]
        PROVE  mem'[p] = [project |-> base'[p].project,
                          nodes |-> [id \in ids'[p] \ todo'[p] |-> base'[p].nodes[id]],
                          edges |-> {}]
    <2>1. [id \in {} |-> base[p].nodes[id]] = <<>>
      OBVIOUS
    <2>2. ids'[p] \ todo'[p] = {}
      BY <1>1
    <2>3. NewGraph.nodes = [id \in ids'[p] \ todo'[p] |-> base'[p].nodes[id]]
      BY <2>2 DEF NewGraph
    <2> HIDE DEF LocalType, StoreInv
    <2> QED
      BY <1>1, <1>3, <1>4, <2>3 DEF Same, NewGraph
  <1>5. clean[p] => Held(p)'
    BY <1>1, <1>3 DEF Held, Same, Kept
  <1>6. clean'[p] => LoadedInv(p)'
    BY <1>1, <1>3, <1>4, <1>5 DEF LoadedInv, Same
  <1> QED
    BY <1>2, <1>6

LEMMA LoadNodeStep ==
  ASSUME StoreInv, NEW p \in Procs, LoadNode(p)
  PROVE  BackendInv(p)' /\ (clean'[p] => LoadedInv(p)')
  <1> USE DEF StoreInv, LocalType, files, ghosts, bounds
  <1>1. /\ backend[p] = "sqlite" /\ pc[p] = "nodes" /\ pc'[p] = "nodes" /\ Same(p) /\ Kept
        /\ ids'[p] = ids[p]
    BY DEF LoadNode, Same, Kept, BackendInv
  <1>2. BackendInv(p)'
    BY <1>1 DEF BackendInv, Same
  <1>3. ASSUME clean[p]
        PROVE  /\ base[p] = db /\ ids[p] = NodeIds(db) /\ todo[p] \subseteq ids[p]
               /\ mem[p] = [project |-> db.project,
                            nodes |-> [id \in ids[p] \ todo[p] |-> db.nodes[id]],
                            edges |-> {}]
    <2>1. base[p] = db /\ ids[p] = NodeIds(db) /\ todo[p] \subseteq ids[p]
      BY <1>1, <1>3 DEF LoadedInv, Loading, Held
    <2>2. mem[p] = [project |-> base[p].project,
                    nodes |-> [id \in ids[p] \ todo[p] |-> base[p].nodes[id]],
                    edges |-> {}]
      BY <1>1, <1>3 DEF LoadedInv
    <2> QED
      BY <2>1, <2>2, Zenon
  <1>4. ASSUME clean[p]
        PROVE  /\ todo'[p] \subseteq ids[p]
               /\ mem'[p] = [project |-> db.project,
                             nodes |-> [id \in ids[p] \ todo'[p] |-> db.nodes[id]],
                             edges |-> {}]
    <2>1. PICK id \in todo[p] :
            /\ mem' = [mem EXCEPT ![p].nodes = Over([i \in {id} |-> db.nodes[i]], @)]
            /\ todo' = [todo EXCEPT ![p] = @ \ {id}]
      BY <1>3, <1>4 DEF LoadNode
    <2> DEFINE old == [i \in ids[p] \ todo[p] |-> db.nodes[i]]
               new == [i \in ids[p] \ todo'[p] |-> db.nodes[i]]
    <2>2. todo'[p] = todo[p] \ {id}
      BY <2>1
    <2>3. Over([i \in {id} |-> db.nodes[i]], old) = new
      <3>1. ids[p] \ todo'[p] = {id} \cup (ids[p] \ todo[p])
        BY <1>3, <1>4, <2>2
      <3> QED
        BY <3>1 DEF Over
    <2>4. mem'[p] = [mem[p] EXCEPT !.nodes = Over([i \in {id} |-> db.nodes[i]], @)]
      BY <2>1
    <2>5. mem[p] = [project |-> db.project, nodes |-> old, edges |-> {}]
      BY <1>3, <1>4
    <2> HIDE DEF old, new
    <2>6. mem'[p] = [project |-> db.project, nodes |-> new, edges |-> {}]
      BY <2>3, <2>4, <2>5
    <2> QED
      BY <1>3, <1>4, <2>2, <2>6 DEF new
  <1>5. clean[p] => Held(p)'
    BY <1>1, <1>3 DEF Held, Same, Kept
  <1>6. clean'[p] => LoadedInv(p)'
    BY <1>1, <1>3, <1>4, <1>5 DEF LoadedInv, Same
  <1> QED
    BY <1>2, <1>6

LEMMA LoadedNodesStep ==
  ASSUME StoreInv, NEW p \in Procs, LoadedNodes(p)
  PROVE  BackendInv(p)' /\ (clean'[p] => LoadedInv(p)')
  <1> USE DEF StoreInv, LocalType, Goto, files, ghosts, bounds
  <1>1. /\ backend[p] = "sqlite" /\ pc[p] = "nodes" /\ pc'[p] = "edges" /\ Same(p) /\ Kept
        /\ ids'[p] = ids[p] /\ todo'[p] = ids[p] /\ mem'[p] = mem[p] /\ todo[p] = {}
    BY DEF LoadedNodes, Same, Kept, BackendInv
  <1>2. BackendInv(p)'
    BY <1>1 DEF BackendInv, Same
  <1>3. ASSUME clean[p]
        PROVE  /\ base[p] = db /\ ids[p] = NodeIds(db)
               /\ mem[p] = [project |-> db.project,
                            nodes |-> [id \in ids[p] |-> db.nodes[id]],
                            edges |-> {}]
    <2>1. ids[p] \ todo[p] = ids[p]
      BY <1>1
    <2> QED
      BY <1>1, <1>3, <2>1 DEF LoadedInv, Loading, Held
  <1>4. ASSUME clean[p]
        PROVE  {} \in Dedups(Asked(p)') /\ mem'[p] = [base'[p] EXCEPT !.edges = {}]
    <2>1. Asked(p)' = {}
      BY <1>1 DEF Asked
    <2>2. db.nodes = [id \in ids[p] |-> db.nodes[id]]
      BY <1>3, <1>4 DEF FilesInv, IsGraph, NodeIds
    <2>3. [db EXCEPT !.edges = {}] = [project |-> db.project, nodes |-> db.nodes, edges |-> {}]
      BY DEF FilesInv, IsGraph
    <2>4. mem[p] = [project |-> db.project, nodes |-> db.nodes, edges |-> {}]
      BY <1>3, <1>4, <2>2, Zenon
    <2> QED
      BY <1>1, <1>3, <1>4, <2>1, <2>3, <2>4, DedupsEmpty DEF Same
  <1>5. clean[p] => Held(p)'
    BY <1>1, <1>3 DEF Held, Same, Kept
  <1>6. clean'[p] => LoadedInv(p)'
    BY <1>1, <1>3, <1>4, <1>5 DEF LoadedInv, Same
  <1> QED
    BY <1>2, <1>6

LEMMA LoadEdgesStep ==
  ASSUME StoreInv, NEW p \in Procs, LoadEdges(p)
  PROVE  BackendInv(p)' /\ (clean'[p] => LoadedInv(p)')
  <1> USE DEF StoreInv, LocalType, files, ghosts, bounds
  <1>1. /\ backend[p] = "sqlite" /\ pc[p] = "edges" /\ pc'[p] = "edges" /\ Same(p) /\ Kept
        /\ ids'[p] = ids[p]
    BY DEF LoadEdges, Same, Kept, BackendInv
  <1>2. BackendInv(p)'
    BY <1>1 DEF BackendInv, Same
  <1>3. ASSUME clean[p]
        PROVE  base[p] = db /\ ids[p] = NodeIds(db) /\ todo[p] \subseteq ids[p]
    BY <1>1, <1>3 DEF LoadedInv, Loading, Held
  <1>4. ASSUME clean[p]
        PROVE  /\ todo'[p] \subseteq ids[p]
               /\ \E kept \in Dedups(Asked(p)') : mem'[p] = [base'[p] EXCEPT !.edges = kept]
    <2> DEFINE Of(id) == {e \in db.edges : id \in Ends(e)}
    <2>0. PICK id \in todo[p] :
            /\ \E kept \in Dedups(mem[p].edges \cup Of(id)) :
                  mem[p].edges \subseteq kept /\ mem' = [mem EXCEPT ![p].edges = kept]
            /\ todo' = [todo EXCEPT ![p] = @ \ {id}]
      BY DEF LoadEdges
    <2>1. PICK kept \in Dedups(mem[p].edges \cup Of(id)) :
            mem[p].edges \subseteq kept /\ mem' = [mem EXCEPT ![p].edges = kept]
      BY <2>0
    <2>2. PICK old \in Dedups(Asked(p)) : mem[p] = [base[p] EXCEPT !.edges = old]
      BY <1>1, <1>4 DEF LoadedInv
    <2>3. mem[p].edges = old
      BY <1>3, <1>4, <2>2 DEF FilesInv, IsGraph
    <2>4. todo'[p] = todo[p] \ {id} /\ mem'[p] = [mem[p] EXCEPT !.edges = kept]
      BY <2>0, <2>1
    <2>5. Asked(p)' = Asked(p) \cup Of(id)
      BY <1>1, <1>3, <1>4, <2>4 DEF Asked, Same
    <2>6. kept \in Dedups(Asked(p)')
      BY <2>1, <2>3, <2>5, DedupsGrow
    <2>7. mem'[p] = [base'[p] EXCEPT !.edges = kept]
      BY <1>1, <2>2, <2>4 DEF Same
    <2> QED
      BY <1>3, <1>4, <2>4, <2>6, <2>7
  <1>5. clean[p] => Held(p)'
    BY <1>1, <1>3 DEF Held, Same, Kept
  <1>6. clean'[p] => LoadedInv(p)'
    BY <1>1, <1>3, <1>4, <1>5 DEF LoadedInv, Same
  <1> QED
    BY <1>2, <1>6

\* All edges have been asked for, as none dangles.
LEMMA LoadedEdgesStep ==
  ASSUME StoreInv, NEW p \in Procs, LoadedEdges(p)
  PROVE  BackendInv(p)' /\ (clean'[p] => LoadedInv(p)')
  <1> USE DEF StoreInv, LocalType, Goto, files, ghosts, bounds
  <1>1. /\ backend[p] = "sqlite" /\ pc[p] = "edges" /\ pc'[p] = "edit" /\ Same(p) /\ Kept
        /\ mem'[p] = mem[p] /\ todo[p] = {}
    BY DEF LoadedEdges, Same, Kept, BackendInv
  <1>2. BackendInv(p)'
    BY <1>1 DEF BackendInv, Same
  <1>3. ASSUME clean[p] PROVE mem'[p] \in Loads(backend'[p], base'[p])
    <2>1. base[p] = db /\ ids[p] = NodeIds(db)
      BY <1>1, <1>3 DEF LoadedInv, Loading, Held
    <2>2. Asked(p) = base[p].edges
      BY <1>1, <2>1 DEF Asked, FilesInv, EdgesHaveEnds, Dangling, Ends
    <2> QED
      BY <1>1, <1>3, <2>2 DEF LoadedInv, Loads, Same
  <1>4. clean'[p] => LoadedInv(p)'
    BY <1>1, <1>3 DEF LoadedInv, Loading, Same
  <1> QED
    BY <1>2, <1>4

-----------------------------------------------------------------------------
(* The edit and the save *)

\* gid design without --merge saves what was parsed, whatever it is given.
LEMMA DesignOverwrites ==
  ASSUME NEW g, NEW c, c.op = "design", ~ c.merge
  PROVE  Outcomes(g, c) = {c.incoming}
  BY DEF Outcomes, Design

LEMMA ChangeStep ==
  ASSUME StoreInv, NEW p \in Procs, Change(p)
  PROVE  BackendInv(p)' /\ (clean'[p] => LoadedInv(p)')
  <1> USE DEF StoreInv, LocalType, Goto, End, files, ghosts, bounds
  <1>1. pc[p] = "edit" /\ pc'[p] \in {"idle", "save"} /\ Same(p) /\ cmd[p].op # "restore"
    BY DEF Change, Same
  <1>2. BackendInv(p)'
    BY <1>1 DEF BackendInv, Same
  <1>3. ASSUME clean[p], pc'[p] = "save" PROVE mem'[p] \in Whole(p)'
    <2>1. mem'[p] \in Outcomes(mem[p], cmd[p])
      BY <1>3 DEF Change
    <2>2. \E g \in Loads(backend[p], base[p]) : mem'[p] \in Outcomes(g, cmd[p])
      <3>1. CASE mem[p] \in Loads(backend[p], base[p])
        BY <2>1, <3>1
      <3>2. CASE Overwrites(p)
        BY <1>1, <2>1, <3>2, DesignOverwrites, LoadsSome DEF Overwrites
      <3> QED
        BY <1>1, <1>3, <3>1, <3>2 DEF LoadedInv
    <2> QED
      BY <1>1, <2>2, WholeSame DEF Whole
  <1>4. clean'[p] => LoadedInv(p)'
    BY <1>1, <1>3 DEF LoadedInv, Loading, Same
  <1> QED
    BY <1>2, <1>4

LEMMA RestoreStep ==
  ASSUME StoreInv, NEW p \in Procs, Restore(p)
  PROVE  BackendInv(p)' /\ (clean'[p] => LoadedInv(p)')
  <1> USE DEF StoreInv, LocalType, Goto, ghosts, bounds
  <1>1. /\ pc[p] = "edit" /\ pc'[p] = "save" /\ Same(p) /\ cmd[p].op = "restore"
        /\ mem'[p] = cmd[p].graph
    BY DEF Restore, Same
  <1>2. BackendInv(p)'
    BY <1>1 DEF BackendInv, Same
  <1>3. mem'[p] \in Whole(p)'
    BY <1>1 DEF Whole, Same
  <1>4. clean'[p] => LoadedInv(p)'
    BY <1>1, <1>3 DEF LoadedInv, Loading, Same
  <1> QED
    BY <1>2, <1>4

LEMMA TruncateYamlStep ==
  ASSUME StoreInv, NEW p \in Procs, TruncateYaml(p)
  PROVE  BackendInv(p)' /\ (clean'[p] => LoadedInv(p)')
  <1> USE DEF StoreInv, LocalType, Goto, Disturb, bounds
  <1>1. /\ pc[p] = "save" /\ backend[p] = "yaml" /\ pc'[p] = "write" /\ mem'[p] = mem[p]
        /\ Same(p)
    BY DEF TruncateYaml, Same
  <1>2. BackendInv(p)'
    BY <1>1 DEF BackendInv, Same
  <1>3. clean[p] => mem'[p] \in Whole(p)'
    BY <1>1, WholeSame DEF LoadedInv
  <1>4. clean'[p] => LoadedInv(p)'
    BY <1>1, <1>3 DEF LoadedInv, Loading, Same
  <1> QED
    BY <1>2, <1>4

LEMMA ReadOldIdsStep ==
  ASSUME StoreInv, NEW p \in Procs, ReadOldIds(p)
  PROVE  BackendInv(p)' /\ (clean'[p] => LoadedInv(p)')
  <1> USE DEF StoreInv, LocalType, Goto, ghosts, bounds
  <1>1. /\ pc[p] = "save" /\ backend[p] = "sqlite" /\ pc'[p] = "commit" /\ mem'[p] = mem[p]
        /\ Same(p) /\ ids'[p] = NodeIds(db') /\ db_file' = TRUE
    BY DEF ReadOldIds, Same
  <1>2. BackendInv(p)'
    BY <1>1 DEF BackendInv, Same
  <1>3. clean[p] => mem'[p] \in Whole(p)'
    BY <1>1, WholeSame DEF LoadedInv
  <1>4. ids'[p] = NodeIds(db)'
    BY <1>1 DEF NodeIds
  <1>5. clean'[p] => LoadedInv(p)'
    BY <1>1, <1>3, <1>4 DEF LoadedInv, Loading, Same
  <1> QED
    BY <1>2, <1>5

\* After the last write of a graph nothing is left to keep.
LEMMA EndStep ==
  ASSUME StoreInv, NEW p \in Procs,
         Commit(p) \/ SetName(p) \/ SetDescription(p) \/ WriteYaml(p) \/ Crash(p)
           \/ HistorySave(p) \/ InitProject(p)
  PROVE  BackendInv(p)' /\ (clean'[p] => LoadedInv(p)')
  <1> USE DEF StoreInv, LocalType, Goto, End, files, local, ghosts, Disturb
  <1>1. /\ pc'[p] \in {"idle", "name", "description"} /\ backend'[p] = backend[p]
        /\ pc'[p] # "idle" => db_file'
    BY DEF Commit, SetName, SetDescription, WriteYaml, Crash, HistorySave, InitProject, BackendInv
  <1>2. BackendInv(p)'
    BY <1>1 DEF BackendInv
  <1>3. LoadedInv(p)'
    BY <1>1 DEF LoadedInv, Loading
  <1> QED
    BY <1>2, <1>3

-----------------------------------------------------------------------------
(* The invariant *)

LEMMA StoreInitInv == StoreInit => StoreInv
  <1> SUFFICES ASSUME StoreInit PROVE StoreInv
    OBVIOUS
  <1>1. LocalType /\ \A p \in Procs : BackendInv(p) /\ LoadedInv(p)
    BY DEF StoreInit, LocalType, BackendInv, LoadedInv, Loading
  <1>2. IsGraph(db) /\ Dangling(db) = {}
    <2>1. CASE db_file
      <3>1. PICK g \in Seeds : Dangling(g) = {} /\ db = [g EXCEPT !.nodes = Rows(@)]
        BY <2>1 DEF StoreInit
      <3>2. g = [project |-> g.project, nodes |-> g.nodes, edges |-> g.edges]
        BY StoreAssumption DEF StoreAssumption, WellFormed
      <3>3. db = [project |-> g.project, nodes |-> Rows(g.nodes), edges |-> g.edges]
        BY <3>1, <3>2
      <3>4. NodeIds(db) = NodeIds(g)
        BY <3>3 DEF NodeIds, Rows
      <3>5. Dangling(db) = {}
        BY <3>1, <3>3, <3>4 DEF Dangling
      <3>6. IsGraph(db)
        BY <3>3 DEF IsGraph, Rows
      <3> QED
        BY <3>5, <3>6
    <2>2. CASE ~ db_file
      BY <2>2, NewIsGraph DEF StoreInit
    <2> QED
      BY <2>1, <2>2
  <1> QED
    BY <1>1, <1>2 DEF StoreInv, FilesInv, EdgesHaveEnds, StoreInit

\* A process that another one leaves alone does not notice its step.
LEMMA ApartInv ==
  ASSUME NEW q \in Procs, BackendInv(q), clean[q] => LoadedInv(q), Apart(q),
         db_file => db_file'
  PROVE  BackendInv(q)' /\ (clean'[q] => LoadedInv(q)')
  <1>1. BackendInv(q)'
    BY DEF BackendInv, Apart
  <1>2. ASSUME clean'[q] PROVE LoadedInv(q)'
    <2>1. LoadedInv(q) /\ Kept
      BY <1>2 DEF Apart, Kept
    <2>2. Held(q)' = Held(q)
      BY <2>1 DEF Apart, Kept, Held
    <2>3. Asked(q)' = Asked(q)
      BY <2>1 DEF Apart, Kept, Asked
    <2>4. Whole(q)' = Whole(q)
      BY DEF Apart, Whole
    <2>5. Overwrites(q)' = Overwrites(q)
      BY DEF Apart, Overwrites
    <2> HIDE DEF Held, Asked, Whole, Overwrites
    <2> QED
      BY <2>1, <2>2, <2>3, <2>4, <2>5 DEF LoadedInv, Apart, Kept
  <1> QED
    BY <1>1, <1>2

LEMMA StepInv ==
  ASSUME StoreInv, NEW p \in Procs, StoreStep(p)
  PROVE  StoreInv'
  <1>1. BackendInv(p)' /\ (clean'[p] => LoadedInv(p)')
    BY BeginStep, LoadYamlStep, LoadProjectStep, LoadIdsStep, LoadNodeStep, LoadedNodesStep,
       LoadEdgesStep, LoadedEdgesStep, ChangeStep, RestoreStep, TruncateYamlStep,
       ReadOldIdsStep, EndStep
       DEF StoreStep, Edit, HistoryRestore
  <1>2. LocalType' /\ (db_file => db_file') /\ \A q \in Procs \ {p} : Apart(q)
    BY StepApart DEF StoreInv
  <1>3. ASSUME NEW q \in Procs \ {p} PROVE BackendInv(q)' /\ (clean'[q] => LoadedInv(q)')
    BY <1>2, ApartInv DEF StoreInv
  <1>4. FilesInv'
    BY StepFiles
  <1> QED
    BY <1>1, <1>2, <1>3, <1>4 DEF StoreInv

LEMMA StoreStutter == StoreInv /\ UNCHANGED storeVars => StoreInv'
  <1> SUFFICES ASSUME StoreInv, UNCHANGED storeVars PROVE StoreInv'
    OBVIOUS
  <1> USE DEF storeVars, files, local, bounds, ghosts
  <1>1. LocalType' /\ FilesInv'
    BY DEF StoreInv, LocalType, FilesInv, EdgesHaveEnds
  <1>2. ASSUME NEW q \in Procs PROVE BackendInv(q)' /\ (clean'[q] => LoadedInv(q)')
    <2>1. Apart(q) /\ (db_file => db_file')
      BY DEF Apart
    <2> QED
      BY <2>1, ApartInv DEF StoreInv
  <1> QED
    BY <1>1, <1>2 DEF StoreInv

LEMMA StoreAlways == StoreSpec => []StoreInv
  <1>1. StoreInit => StoreInv
    BY StoreInitInv
  <1>2. StoreInv /\ [StoreNext]_storeVars => StoreInv'
    BY StepInv, StoreStutter DEF StoreNext
  <1> QED
    BY <1>1, <1>2, PTL DEF StoreSpec

\* EdgesHaveEnds for any number of processes that load, edit and save in any
\* order and die anywhere: no edge in graph.db refers to a node that is not there.
THEOREM StoreEdgesHaveEnds == StoreSpec => []EdgesHaveEnds
  <1>1. StoreInv => EdgesHaveEnds
    BY DEF StoreInv, FilesInv
  <1> QED
    BY <1>1, StoreAlways, PTL

-----------------------------------------------------------------------------
(* What is written *)

\* Everything that was read before a commit is replaced.
LEMMA BatchReplaces ==
  ASSUME NEW d, IsGraph(d), NEW g
  PROVE  /\ Batch(d, NodeIds(d), g).nodes = Rows(g.nodes)
         /\ Batch(d, NodeIds(d), g).edges = g.edges
  <1> DEFINE late == DOMAIN d.nodes \ NodeIds(d)
             rows == Over(Rows(g.nodes), Restrict(d.nodes, late))
             edges == {e \in d.edges : Ends(e) \subseteq late \ NodeIds(g)} \cup g.edges
  <1>1. late = {}
    BY DEF NodeIds
  <1>2. edges = g.edges
    BY <1>1 DEF Ends
  <1>3. rows = Rows(g.nodes)
    <2>1. DOMAIN Restrict(d.nodes, late) = {}
      BY <1>1 DEF Restrict
    <2> QED
      BY <2>1 DEF Over, Rows
  <1>4. Batch(d, NodeIds(d), g) = [d EXCEPT !.nodes = rows, !.edges = edges]
    BY DEF Batch
  <1>5. d = [project |-> d.project, nodes |-> d.nodes, edges |-> d.edges]
    BY DEF IsGraph
  <1> HIDE DEF rows, edges
  <1> QED
    BY <1>2, <1>3, <1>4, <1>5

LEMMA StepWhole ==
  ASSUME StoreInv, NEW p \in Procs, StoreStep(p), clean[p]
  PROVE  WholeEdit(p)
  <1>1. LoadedInv(p)
    BY DEF StoreInv
  <1>2. ASSUME pc[p] = "commit", pc'[p] # "commit", db' # db
        PROVE  \E g \in Whole(p) : db'.nodes = Rows(g.nodes) /\ db'.edges = g.edges
    <2>1. Commit(p)
      BY <1>2 DEF StoreStep, Edit, HistoryRestore, Begin, HistorySave, InitProject, LoadYaml,
         LoadProject, LoadIds, LoadNode, LoadedNodes, LoadEdges, LoadedEdges, Change, Restore,
         TruncateYaml, WriteYaml, ReadOldIds, SetName, SetDescription, Crash, files
    <2>2. db' = Batch(db, NodeIds(db), mem[p])
      BY <1>1, <1>2, <2>1 DEF Commit, LoadedInv
    <2>3. mem[p] \in Whole(p)
      BY <1>1, <1>2 DEF LoadedInv
    <2>4. IsGraph(db)
      BY DEF StoreInv, FilesInv
    <2> QED
      BY <2>2, <2>3, <2>4, BatchReplaces
  <1>3. ASSUME pc[p] = "write", pc'[p] = "idle", ~ Crash(p)
        PROVE  yml_file' = "there" /\ \E g \in Whole(p) : SameContent(yml', g)
    <2>1. mem[p] \in Whole(p)
      BY <1>1, <1>3 DEF LoadedInv
    <2>2. WriteYaml(p)
      BY <1>3 DEF StoreStep, Edit, HistoryRestore, Begin, HistorySave, InitProject, LoadYaml,
         LoadProject, LoadIds, LoadNode, LoadedNodes, LoadEdges, LoadedEdges, Change, Restore,
         TruncateYaml, ReadOldIds, Commit, SetName, SetDescription, files
    <2> QED
      BY <2>1, <2>2 DEF WriteYaml, SameContent
  <1> QED
    BY <1>2, <1>3 DEF WholeEdit

\* OnlyWholeEdits for any number of processes, graphs and commands: what a process
\* that nobody disturbed writes is its command applied to what a load gave when the
\* command began, an empty or cut graph.yml included.
THEOREM StoreOnlyWholeEdits == StoreSpec => OnlyWholeEdits
  <1>1. StoreInv /\ [StoreNext]_storeVars => [\A p \in Procs : WholeEdit(p)]_storeVars
    <2> SUFFICES ASSUME StoreInv, NEW p \in Procs, StoreStep(p), NEW q \in Procs, clean[q]
                 PROVE  WholeEdit(q)
      BY DEF StoreNext, WholeEdit
    <2>1. CASE q = p
      BY <2>1, StepWhole
    <2>2. CASE q # p
      BY <2>2, StepApart DEF StoreInv, Apart, WholeEdit
    <2> QED
      BY <2>1, <2>2
  <1> QED
    BY <1>1, StoreAlways, PTL DEF StoreSpec, OnlyWholeEdits

-----------------------------------------------------------------------------
(* Every command makes a graph of a graph *)

LEMMA NewWellFormed == WellFormed(NewGraph)
  <1>1. IsNodes(<<>>)
    BY DEF IsNodes
  <1> QED
    BY <1>1 DEF WellFormed, NewGraph

LEMMA WellFormedGraph ==
  ASSUME NEW g, NEW nodes, NEW edges, IsNodes(nodes), \A e \in edges : IsEdge(e)
  PROVE  WellFormed([project |-> g.project, nodes |-> nodes, edges |-> edges])
  BY DEF WellFormed

LEMMA WellFormedNodes ==
  ASSUME NEW g, WellFormed(g), NEW nodes, IsNodes(nodes)
  PROVE  WellFormed([g EXCEPT !.nodes = nodes])
  <1>1. [g EXCEPT !.nodes = nodes] = [project |-> g.project, nodes |-> nodes, edges |-> g.edges]
    BY DEF WellFormed
  <1> QED
    BY <1>1, WellFormedGraph DEF WellFormed

LEMMA WellFormedEdges ==
  ASSUME NEW g, WellFormed(g), NEW edges, \A e \in edges : IsEdge(e)
  PROVE  WellFormed([g EXCEPT !.edges = edges])
  <1>1. [g EXCEPT !.edges = edges] = [project |-> g.project, nodes |-> g.nodes, edges |-> edges]
    BY DEF WellFormed
  <1> QED
    BY <1>1, WellFormedGraph DEF WellFormed

LEMMA OverNodes ==
  ASSUME NEW f, IsNodes(f), NEW g, IsNodes(g)
  PROVE  IsNodes(Over(f, g))
  BY DEF IsNodes, Over

LEMMA NewEdgeIsEdge == ASSUME NEW a, NEW b, NEW r PROVE IsEdge(NewEdge(a, b, r))
  BY DEF IsEdge, NewEdge

LEMMA NewNodeIsNode ==
  ASSUME NEW t, NEW s
  PROVE  IsNode(NewNode(t)) /\ IsNode([NewNode(t) EXCEPT !.status = s])
  BY DEF IsNode, NewNode

LEMMA AddNodesWellFormed ==
  ASSUME NEW g, WellFormed(g), NEW nodes, \A id \in DOMAIN nodes : IsNode(nodes[id])
  PROVE  WellFormed(AddNodes(g, nodes))
  <1> DEFINE more == [id \in DOMAIN nodes \ NodeIds(g) |-> Typed(id, nodes[id])]
  <1>1. ASSUME NEW id \in DOMAIN nodes PROVE IsNode(Typed(id, nodes[id]))
    BY DEF IsNode, Typed
  <1>2. IsNodes(more)
    BY <1>1 DEF IsNodes
  <1>3. AddNodes(g, nodes) = [g EXCEPT !.nodes = Over(@, more)]
    BY DEF AddNodes
  <1> HIDE DEF more
  <1> QED
    BY <1>2, <1>3, OverNodes, WellFormedNodes DEF WellFormed

LEMMA AddNodeWellFormed ==
  ASSUME NEW g, WellFormed(g), NEW id, NEW node, IsNode(node)
  PROVE  WellFormed(AddNode(g, id, node))
  BY AddNodesWellFormed DEF AddNode

LEMMA RemoveNodesWellFormed ==
  ASSUME NEW g, WellFormed(g), NEW gone
  PROVE  WellFormed(RemoveNodes(g, gone))
  <1> DEFINE there == gone \cap NodeIds(g)
             nodes == Restrict(g.nodes, DOMAIN g.nodes \ there)
             edges == {e \in g.edges : Ends(e) \cap there = {}}
  <1>1. RemoveNodes(g, gone) = [g EXCEPT !.nodes = nodes, !.edges = edges]
    BY DEF RemoveNodes
  <1>2. IsNodes(nodes)
    BY DEF WellFormed, IsNodes, Restrict
  <1>3. \A e \in edges : IsEdge(e)
    BY DEF WellFormed
  <1> HIDE DEF nodes, edges
  <1>4. RemoveNodes(g, gone) = [project |-> g.project, nodes |-> nodes, edges |-> edges]
    BY <1>1 DEF WellFormed
  <1> QED
    BY <1>2, <1>3, <1>4, WellFormedGraph

LEMMA RemoveNodeWellFormed ==
  ASSUME NEW g, WellFormed(g), NEW id PROVE WellFormed(RemoveNode(g, id))
  BY RemoveNodesWellFormed DEF RemoveNode

LEMMA UpdateStatusWellFormed ==
  ASSUME NEW g, WellFormed(g), NEW id, NEW status
  PROVE  WellFormed(UpdateStatus(g, id, status))
  <1> DEFINE nodes == [g.nodes EXCEPT ![id].status = status]
  <1>1. CASE id \notin NodeIds(g)
    BY <1>1 DEF UpdateStatus
  <1>2. CASE id \in NodeIds(g)
    <2>1. UpdateStatus(g, id, status) = [g EXCEPT !.nodes = nodes]
      BY <1>2 DEF UpdateStatus
    <2>2. IsNode([g.nodes[id] EXCEPT !.status = status])
      BY <1>2 DEF WellFormed, IsNodes, IsNode, NodeIds
    <2>3. IsNodes(nodes)
      BY <1>2, <2>2 DEF WellFormed, IsNodes, NodeIds
    <2> HIDE DEF nodes
    <2> QED
      BY <2>1, <2>3, WellFormedNodes
  <1> QED
    BY <1>1, <1>2

LEMMA DedupedIsPart == ASSUME NEW edges PROVE Deduped(edges) \subseteq edges
  BY DedupsSome DEF Dedups

LEMMA AddEdgesWellFormed ==
  ASSUME NEW g, WellFormed(g), NEW edges, \A e \in edges : IsEdge(e)
  PROVE  WellFormed(AddEdges(g, edges))
  <1> DEFINE more == Deduped({e \in edges : \A f \in g.edges : ~ SameEdge(e, f)})
  <1>1. more \subseteq edges
    BY DedupedIsPart
  <1>2. AddEdges(g, edges) = [g EXCEPT !.edges = @ \cup more]
    BY DEF AddEdges
  <1> HIDE DEF more
  <1> QED
    BY <1>1, <1>2, WellFormedEdges DEF WellFormed

LEMMA AddEdgeWellFormed ==
  ASSUME NEW g, WellFormed(g), NEW edge, IsEdge(edge)
  PROVE  WellFormed(AddEdge(g, edge))
  BY AddEdgesWellFormed DEF AddEdge

LEMMA RemoveEdgesWellFormed ==
  ASSUME NEW g, WellFormed(g), NEW from, NEW to, NEW relation
  PROVE  WellFormed(RemoveEdges(g, from, to, relation))
  BY WellFormedEdges DEF RemoveEdges, WellFormed

LEMMA EditStepWellFormed ==
  ASSUME NEW g, WellFormed(g), NEW op PROVE WellFormed(EditStep(g, op))
  <1>1. CASE op.op = "add_node"
    BY <1>1, AddNodeWellFormed, NewNodeIsNode DEF EditStep
  <1>2. CASE op.op = "add_edge"
    BY <1>2, AddEdgeWellFormed, NewEdgeIsEdge DEF EditStep
  <1>3. CASE op.op = "remove_node"
    BY <1>3, RemoveNodeWellFormed DEF EditStep
  <1>4. CASE op.op = "update_status"
    BY <1>4, UpdateStatusWellFormed DEF EditStep
  <1>5. CASE op.op \notin {"add_node", "add_edge", "remove_node", "update_status"}
    BY <1>5 DEF EditStep
  <1> QED
    BY <1>1, <1>2, <1>3, <1>4, <1>5

LEMMA EditGraphWellFormed ==
  ASSUME NEW g, WellFormed(g), NEW c, Len(c.ops) \in Nat
  PROVE  \A h \in EditGraph(g, c) : WellFormed(h)
  <1> DEFINE N == Len(c.ops)
             Is(f, k) == f = [n \in 0..k |-> IF n = 0 THEN g ELSE EditStep(f[n - 1], c.ops[n])]
             after[n \in 0..N] == IF n = 0 THEN g ELSE EditStep(after[n - 1], c.ops[n])
             T == {k \in Nat : \E f : Is(f, k)}
             W == {k \in Nat : k <= N => WellFormed(after[k])}
  <1>1. Nat \subseteq T
    <2>1. 0 \in T
      <3>1. Is([n \in 0..0 |-> g], 0)
        OBVIOUS
      <3> QED BY <3>1
    <2>2. ASSUME NEW k \in Nat, k \in T PROVE k + 1 \in T
      <3>1. PICK r : Is(r, k)
        BY <2>2
      <3> DEFINE h == [n \in 0..(k + 1) |-> IF n <= k THEN r[n] ELSE EditStep(r[k], c.ops[k + 1])]
      <3>2. ASSUME NEW n \in 0..(k + 1)
            PROVE  h[n] = IF n = 0 THEN g ELSE EditStep(h[n - 1], c.ops[n])
        <4>1. CASE n <= k
          BY <3>1, <4>1
        <4>2. CASE n = k + 1
          BY <4>2
        <4> QED BY <4>1, <4>2
      <3>3. h = [n \in 0..(k + 1) |-> h[n]]
        OBVIOUS
      <3>4. Is(h, k + 1)
        <4> HIDE DEF h
        <4>1. [n \in 0..(k + 1) |-> h[n]]
                = [n \in 0..(k + 1) |-> IF n = 0 THEN g ELSE EditStep(h[n - 1], c.ops[n])]
          BY <3>2
        <4> QED BY <3>3, <4>1, Zenon
      <3> HIDE DEF h
      <3>5. \E f : Is(f, k + 1)
        BY <3>4
      <3> QED BY <3>5
    <2> HIDE DEF T
    <2> QED BY <2>1, <2>2, NatSetInduction
  <1>2. Is(after, N)
    <2>1. \E f : Is(f, N)
      BY <1>1
    <2>2. after = CHOOSE f : Is(f, N)
      OBVIOUS
    <2> QED BY <2>1, <2>2
  <1>3. EditGraph(g, c) = {after[N]}
    BY DEF EditGraph
  <1> HIDE DEF after
  <1>4. Nat \subseteq W
    <2>1. 0 \in W
      BY <1>2
    <2>2. ASSUME NEW k \in Nat, k \in W PROVE k + 1 \in W
      BY <1>2, <2>2, EditStepWellFormed
    <2> HIDE DEF W
    <2> QED BY <2>1, <2>2, NatSetInduction
  <1> QED BY <1>3, <1>4

LEMMA AddSpecWellFormed ==
  ASSUME NEW acc, WellFormed(acc.g), NEW feature, NEW spec
  PROVE  WellFormed(AddSpec(acc, feature, spec).g)
  <1> DEFINE task == UniqueId(acc.g, spec.base)
             node == [NewNode("task") EXCEPT !.status = spec.status]
             edge == NewEdge(task, feature, "implements")
  <1>1. IsNode(node) /\ IsEdge(edge)
    BY NewNodeIsNode, NewEdgeIsEdge
  <1>2. AddSpec(acc, feature, spec).g = AddEdge(AddNode(acc.g, task, node), edge)
    BY DEF AddSpec
  <1> HIDE DEF task, node, edge
  <1> QED
    BY <1>1, <1>2, AddNodeWellFormed, AddEdgeWellFormed

LEMMA AddFeatureWellFormed ==
  ASSUME NEW g, WellFormed(g), NEW wanted, NEW specs, Len(specs) \in Nat
  PROVE  WellFormed(AddFeature(g, wanted, specs))
  <1> DEFINE N == Len(specs)
             feature == UniqueId(g, wanted)
             start == [g |-> AddNode(g, feature, NewNode("feature")), id |-> <<>>]
             Is(f, k) == f = [n \in 0..k |-> IF n = 0 THEN start
                                             ELSE AddSpec(f[n - 1], feature, specs[n])]
             added[n \in 0..N] == IF n = 0 THEN start
                                  ELSE AddSpec(added[n - 1], feature, specs[n])
             T == {k \in Nat : \E f : Is(f, k)}
             W == {k \in Nat : k <= N => WellFormed(added[k].g)}
             links(id) == UNION {{NewEdge(id[s.title], id[d], "depends_on") :
                                    d \in s.deps \cap DOMAIN id} : s \in ToSet(specs)}
  <1>1. AddFeature(g, wanted, specs) = AddEdges(added[N].g, links(added[N].id))
    BY DEF AddFeature
  <1>2. WellFormed(start.g)
    BY AddNodeWellFormed, NewNodeIsNode
  <1>3. \A id : \A e \in links(id) : IsEdge(e)
    BY NewEdgeIsEdge
  <1> HIDE DEF start, feature, links
  <1>4. Nat \subseteq T
    <2>1. 0 \in T
      <3>1. Is([n \in 0..0 |-> start], 0)
        OBVIOUS
      <3> QED BY <3>1
    <2>2. ASSUME NEW k \in Nat, k \in T PROVE k + 1 \in T
      <3>1. PICK r : Is(r, k)
        BY <2>2
      <3> DEFINE h == [n \in 0..(k + 1) |-> IF n <= k THEN r[n]
                                            ELSE AddSpec(r[k], feature, specs[k + 1])]
      <3>2. ASSUME NEW n \in 0..(k + 1)
            PROVE  h[n] = IF n = 0 THEN start ELSE AddSpec(h[n - 1], feature, specs[n])
        <4>1. CASE n <= k
          BY <3>1, <4>1
        <4>2. CASE n = k + 1
          BY <4>2
        <4> QED BY <4>1, <4>2
      <3>3. h = [n \in 0..(k + 1) |-> h[n]]
        OBVIOUS
      <3> HIDE DEF h
      <3>4. [n \in 0..(k + 1) |-> h[n]]
              = [n \in 0..(k + 1) |-> IF n = 0 THEN start
                                      ELSE AddSpec(h[n - 1], feature, specs[n])]
        BY <3>2
      <3>5. Is(h, k + 1)
        BY <3>3, <3>4, Zenon
      <3>6. \E f : Is(f, k + 1)
        BY <3>5
      <3> QED BY <3>6
    <2> HIDE DEF T
    <2> QED BY <2>1, <2>2, NatSetInduction
  <1>5. Is(added, N)
    <2>1. \E f : Is(f, N)
      BY <1>4
    <2>2. added = CHOOSE f : Is(f, N)
      OBVIOUS
    <2> QED BY <2>1, <2>2
  <1> HIDE DEF added
  <1>6. Nat \subseteq W
    <2>1. 0 \in W
      BY <1>2, <1>5
    <2>2. ASSUME NEW k \in Nat, k \in W PROVE k + 1 \in W
      BY <1>5, <2>2, AddSpecWellFormed
    <2> HIDE DEF W
    <2> QED BY <2>1, <2>2, NatSetInduction
  <1>7. WellFormed(added[N].g)
    BY <1>6
  <1> QED
    BY <1>1, <1>3, <1>7, AddEdgesWellFormed

LEMMA AddTaskWellFormed ==
  ASSUME NEW g, WellFormed(g), NEW wanted, NEW feature, NEW depends
  PROVE  \A h \in AddTask(g, wanted, feature, depends) : WellFormed(h)
  <1> DEFINE task == UniqueId(g, wanted)
             h == AddNode(g, task, NewNode("task"))
             attached == IF feature = None THEN h
                         ELSE AddEdge(h, NewEdge(task, feature, "implements"))
             resolved == {d \in depends : ResolveNode(h, d) # {}}
             links(pick) == {NewEdge(task, pick[d], "depends_on") : d \in resolved}
  <1>1. WellFormed(attached)
    BY AddNodeWellFormed, AddEdgeWellFormed, NewNodeIsNode, NewEdgeIsEdge
  <1>2. \A pick : \A e \in links(pick) : IsEdge(e)
    BY NewEdgeIsEdge
  <1>3. \A k \in AddTask(g, wanted, feature, depends) : \E pick : k = AddEdges(attached, links(pick))
    BY DEF AddTask
  <1> HIDE DEF attached, links
  <1> QED
    BY <1>1, <1>2, <1>3, AddEdgesWellFormed

LEMMA MergeFeatureNodesWellFormed ==
  ASSUME NEW g, WellFormed(g), NEW feature, NEW incoming, WellFormed(incoming)
  PROVE  WellFormed(MergeFeatureNodes(g, feature, incoming))
  <1> DEFINE old == {e.from : e \in {e \in g.edges : e.to = feature
                                                     /\ e.relation = "implements"}}
             links == {NewEdge(id, feature, "implements") : id \in NodeIds(incoming)}
             nodes == AddNodes(RemoveNodes(g, old), incoming.nodes)
  <1>1. MergeFeatureNodes(g, feature, incoming) = AddEdges(AddEdges(nodes, links), incoming.edges)
    BY DEF MergeFeatureNodes
  <1>2. \A e \in links : IsEdge(e)
    BY NewEdgeIsEdge
  <1>3. /\ \A id \in DOMAIN incoming.nodes : IsNode(incoming.nodes[id])
        /\ \A e \in incoming.edges : IsEdge(e)
    BY DEF WellFormed, IsNodes
  <1>4. WellFormed(RemoveNodes(g, old))
    BY RemoveNodesWellFormed
  <1>5. WellFormed(nodes)
    BY <1>3, <1>4, AddNodesWellFormed
  <1> HIDE DEF nodes, links
  <1>6. WellFormed(AddEdges(nodes, links))
    BY <1>2, <1>5, AddEdgesWellFormed
  <1> QED
    BY <1>1, <1>3, <1>6, AddEdgesWellFormed

LEMMA RedirectedAreEdges ==
  ASSUME NEW edges, \A e \in edges : IsEdge(e), NEW old, NEW new
  PROVE  \A e \in Redirected(edges, old, new) : IsEdge(e)
  <1> DEFINE moved(e) == [e EXCEPT !.from = IF @ \in old THEN new ELSE @,
                                   !.to = IF @ \in old THEN new ELSE @]
  <1>1. ASSUME NEW e \in edges PROVE IsEdge(moved(e))
    <2> DEFINE from == IF e.from \in old THEN new ELSE e.from
               to == IF e.to \in old THEN new ELSE e.to
    <2>1. e = [from |-> e.from, to |-> e.to, relation |-> e.relation, source |-> e.source]
      BY DEF IsEdge
    <2>2. moved(e) = [e EXCEPT !.from = from, !.to = to]
      OBVIOUS
    <2> HIDE DEF from, to, moved
    <2>3. moved(e) = [from |-> from, to |-> to, relation |-> e.relation, source |-> e.source]
      BY <2>1, <2>2
    <2> QED
      BY <2>3 DEF IsEdge
  <1>2. Redirected(edges, old, new) = {moved(e) : e \in edges}
    BY DEF Redirected
  <1> HIDE DEF moved
  <1> QED
    BY <1>1, <1>2

LEMMA RenameWellFormed ==
  ASSUME NEW g, WellFormed(g), NEW old \in NodeIds(g), NEW new
  PROVE  WellFormed(Rename(g, old, new))
  <1> DEFINE nodes == [id \in (DOMAIN g.nodes \ {old}) \cup {new} |->
                          g.nodes[IF id = new THEN old ELSE id]]
             edges == Redirected(g.edges, {old}, new)
  <1>1. Rename(g, old, new) = [g EXCEPT !.nodes = nodes, !.edges = edges]
    BY DEF Rename
  <1>2. IsNodes(nodes)
    BY DEF WellFormed, IsNodes, NodeIds
  <1>3. \A e \in edges : IsEdge(e)
    BY RedirectedAreEdges DEF WellFormed
  <1> HIDE DEF nodes, edges
  <1>4. Rename(g, old, new) = [project |-> g.project, nodes |-> nodes, edges |-> edges]
    BY <1>1 DEF WellFormed
  <1> QED
    BY <1>2, <1>3, <1>4, WellFormedGraph

LEMMA MergeWellFormed ==
  ASSUME NEW g, WellFormed(g), NEW a, NEW b, NEW new
  PROVE  WellFormed(Merge(g, a, b, new))
  <1> DEFINE node == [NewNode(None) EXCEPT !.status =
                         MergedStatus(g.nodes[a].status, g.nodes[b].status)]
             added == AddNode(g, new, node)
             edges == {e \in Deduped(Redirected(g.edges, {a, b}, new)) : e.from # e.to}
             linked == [added EXCEPT !.edges = edges]
  <1>1. Merge(g, a, b, new) = RemoveNode(RemoveNode(linked, a), b)
    BY DEF Merge
  <1>2. WellFormed(added)
    BY AddNodeWellFormed, NewNodeIsNode
  <1>3. \A e \in edges : IsEdge(e)
    BY RedirectedAreEdges, DedupedIsPart DEF WellFormed
  <1> HIDE DEF added, edges
  <1>4. WellFormed(linked)
    BY <1>2, <1>3, WellFormedEdges
  <1> HIDE DEF linked
  <1> QED
    BY <1>1, <1>4, RemoveNodeWellFormed

LEMMA SplitWellFormed ==
  ASSUME NEW g, WellFormed(g), NEW id, NEW parts
  PROVE  WellFormed(Split(g, id, parts))
  <1> DEFINE part == [NewNode(g.nodes[id].type) EXCEPT !.status = g.nodes[id].status]
             added == AddNodes(g, [p \in ToSet(parts) |-> part])
             edges == Redirected(added.edges, {id}, Head(parts))
             linked == [added EXCEPT !.edges = edges]
  <1>1. Split(g, id, parts) = RemoveNode(linked, id)
    BY DEF Split
  <1>2. IsNode(part)
    BY NewNodeIsNode
  <1> HIDE DEF part
  <1>3. WellFormed(added)
    BY <1>2, AddNodesWellFormed
  <1> HIDE DEF added
  <1>4. \A e \in edges : IsEdge(e)
    BY <1>3, RedirectedAreEdges DEF WellFormed
  <1> HIDE DEF edges
  <1>5. WellFormed(linked)
    BY <1>3, <1>4, WellFormedEdges
  <1> HIDE DEF linked
  <1> QED
    BY <1>1, <1>5, RemoveNodeWellFormed

LEMMA ExtractWellFormed ==
  ASSUME NEW g, WellFormed(g), NEW some, NEW parent
  PROVE  WellFormed(Extract(g, some, parent))
  <1> DEFINE links == {NewEdge(parent, id, "contains") : id \in some}
             added == AddNode(g, parent, NewNode("module"))
  <1>1. Extract(g, some, parent) = AddEdges(added, links)
    BY DEF Extract
  <1>2. WellFormed(added) /\ \A e \in links : IsEdge(e)
    BY AddNodeWellFormed, NewNodeIsNode, NewEdgeIsEdge
  <1> HIDE DEF added, links
  <1> QED
    BY <1>1, <1>2, AddEdgesWellFormed

LEMMA DesignWellFormed ==
  ASSUME NEW g, WellFormed(g), NEW c, WellFormed(c.incoming)
  PROVE  \A h \in Design(g, c) : WellFormed(h)
  <1>1. WellFormed(AddNodes(g, c.incoming.nodes))
    BY AddNodesWellFormed DEF WellFormed, IsNodes
  <1>2. WellFormed(AddEdges(AddNodes(g, c.incoming.nodes), c.incoming.edges))
    BY <1>1, AddEdgesWellFormed DEF WellFormed
  <1>3. WellFormed(MergeFeatureNodes(g, c.scope, c.incoming))
    BY MergeFeatureNodesWellFormed
  <1> QED
    BY <1>2, <1>3 DEF Design

\* What a command saves is a graph, if what it loaded was one.
LEMMA OutcomesWellFormed ==
  ASSUME NEW g, WellFormed(g), NEW c \in Commands
  PROVE  \A h \in Outcomes(g, c) : WellFormed(h)
  <1>1. /\ c.op \in Operations
        /\ c.op = "edit-graph" => Len(c.ops) \in Nat
        /\ c.op = "add-feature" => Len(c.specs) \in Nat
        /\ c.op = "design" => WellFormed(c.incoming)
    BY StoreAssumption DEF StoreAssumption
  <1>2. CASE c.op = "task-update"
    BY <1>2, UpdateStatusWellFormed DEF Outcomes, TaskUpdate
  <1>3. CASE c.op = "complete"
    BY <1>3, UpdateStatusWellFormed DEF Outcomes, Complete
  <1>4. CASE c.op = "add-node"
    BY <1>4, AddNodeWellFormed, NewNodeIsNode DEF Outcomes, AddNodeCommand
  <1>5. CASE c.op = "remove-node"
    BY <1>5, RemoveNodeWellFormed DEF Outcomes, RemoveNodeCommand
  <1>6. CASE c.op = "add-edge"
    BY <1>6, AddEdgeWellFormed, NewEdgeIsEdge DEF Outcomes, AddEdgeCommand
  <1>7. CASE c.op = "remove-edge"
    BY <1>7, RemoveEdgesWellFormed DEF Outcomes, RemoveEdgeCommand
  <1>8. CASE c.op = "edit-graph"
    BY <1>1, <1>8, EditGraphWellFormed DEF Outcomes
  <1>9. CASE c.op = "add-feature"
    BY <1>1, <1>9, AddFeatureWellFormed DEF Outcomes, AddFeatureCommand
  <1>10. CASE c.op = "add-task"
    BY <1>10, AddTaskWellFormed DEF Outcomes, AddTaskCommand
  <1>11. CASE c.op = "design"
    BY <1>1, <1>11, DesignWellFormed DEF Outcomes
  <1>12. CASE c.op = "rename"
    BY <1>12, RenameWellFormed DEF Outcomes, RenameCommand
  <1>13. CASE c.op = "merge"
    BY <1>13, MergeWellFormed DEF Outcomes, MergeCommand
  <1>14. CASE c.op = "split"
    BY <1>14, SplitWellFormed DEF Outcomes, SplitCommand
  <1>15. CASE c.op = "extract"
    BY <1>15, ExtractWellFormed DEF Outcomes, ExtractCommand
  <1> QED
    BY <1>1, <1>2, <1>3, <1>4, <1>5, <1>6, <1>7, <1>8, <1>9, <1>10, <1>11, <1>12, <1>13,
       <1>14, <1>15 DEF Operations

-----------------------------------------------------------------------------
(* The types: what is stored, loaded and edited are graphs *)

\* The command of p that is still to be applied is one a user may type.
CommandInv(p) ==
    pc[p] \in Loading \cup {"edit"} =>
        IF cmd[p].op = "restore" THEN WellFormed(cmd[p].graph) ELSE cmd[p] \in Commands

IsHistory(h) == h \in Seq(ToSet(h)) /\ \A g \in ToSet(h) : WellFormed(g)

GraphsInv ==
    /\ WellFormed(yml) /\ WellFormed(db)
    /\ IsHistory(history)
    /\ \A p \in Procs : WellFormed(mem[p]) /\ CommandInv(p)

LEMMA RowsAreNodes == ASSUME NEW nodes, IsNodes(nodes) PROVE IsNodes(Rows(nodes))
  <1>1. ASSUME NEW id \in DOMAIN nodes PROVE IsNode(Column(nodes[id]))
    BY DEF IsNodes, IsNode, Column
  <1> QED
    BY <1>1 DEF IsNodes, Rows

LEMMA BatchWellFormed ==
  ASSUME NEW d, WellFormed(d), NEW old, NEW g, WellFormed(g)
  PROVE  WellFormed(Batch(d, old, g))
  <1> DEFINE late == DOMAIN d.nodes \ old
             rest == Restrict(d.nodes, late)
             rows == Over(Rows(g.nodes), rest)
             edges == {e \in d.edges : Ends(e) \subseteq late \ NodeIds(g)} \cup g.edges
  <1>1. Batch(d, old, g) = [d EXCEPT !.nodes = rows, !.edges = edges]
    BY DEF Batch
  <1>2. IsNodes(rest)
    BY DEF WellFormed, IsNodes, Restrict
  <1> HIDE DEF rest
  <1>3. IsNodes(rows)
    BY <1>2, RowsAreNodes, OverNodes DEF WellFormed
  <1>4. \A e \in edges : IsEdge(e)
    BY DEF WellFormed
  <1> HIDE DEF rows, edges
  <1>5. Batch(d, old, g) = [project |-> d.project, nodes |-> rows, edges |-> edges]
    BY <1>1 DEF WellFormed
  <1> QED
    BY <1>3, <1>4, <1>5, WellFormedGraph

LEMMA ProjectWellFormed ==
  ASSUME NEW g, WellFormed(g), NEW project
  PROVE  WellFormed([g EXCEPT !.project = project])
  <1>1. [g EXCEPT !.project = project] = [project |-> project, nodes |-> g.nodes, edges |-> g.edges]
    BY DEF WellFormed
  <1> QED
    BY <1>1 DEF WellFormed

\* A history with one more snapshot is one, whichever of its snapshots is dropped.
LEMMA SnapshotsAreHistory ==
  ASSUME IsHistory(history), NEW g, WellFormed(g), NEW h \in Snapshots(g)
  PROVE  IsHistory(h)
  <1> DEFINE T == ToSet(history) \cup {g}
  <1>1. history \in Seq(ToSet(history))
    BY DEF IsHistory
  <1>2. history \in Seq(T) /\ g \in T
    BY <1>1
  <1>3. \A x \in T : WellFormed(x)
    BY DEF IsHistory
  <1> HIDE DEF T
  <1>4. Append(history, g) \in Seq(T) /\ Append(history, g) # <<>>
    <2>1. Append(history, g) \in Seq(T) /\ Len(Append(history, g)) = Len(history) + 1
      BY <1>2
    <2>2. Len(history) \in Nat /\ Len(<<>>) = 0
      BY <1>2
    <2>3. Len(Append(history, g)) # Len(<<>>)
      BY <2>1, <2>2
    <2> QED
      BY <2>1, <2>3
  <1>5. Tail(Append(history, g)) \in Seq(T)
    BY <1>4
  <1>6. history # <<>> => Front(history) \in Seq(T)
    BY <1>2 DEF Front
  <1>7. history # <<>> => Append(Front(history), g) \in Seq(T)
    BY <1>2, <1>6
  <1>8. h \in Seq(T)
    BY <1>4, <1>5, <1>7 DEF Snapshots
  <1>9. h \in Seq(ToSet(h)) /\ ToSet(h) \subseteq T
    BY <1>8 DEF ToSet
  <1> QED
    BY <1>3, <1>9 DEF IsHistory

\* What a step makes of the files and of the memory of its own process.
OwnGraphs(p) ==
    WellFormed(yml) /\ WellFormed(db) /\ IsHistory(history) /\ WellFormed(mem[p]) /\ CommandInv(p)

LEMMA LoadGraphs ==
  ASSUME StoreInv, GraphsInv, NEW p \in Procs,
         LoadYaml(p) \/ LoadProject(p) \/ LoadIds(p) \/ LoadNode(p) \/ LoadedNodes(p)
           \/ LoadEdges(p) \/ LoadedEdges(p)
  PROVE  OwnGraphs(p)'
  <1> USE DEF StoreInv, GraphsInv, LocalType, Goto, files
  <1>1. UNCHANGED <<yml, db, history>>
    BY DEF LoadYaml, LoadProject, LoadIds, LoadNode, LoadedNodes, LoadEdges, LoadedEdges
  <1>2. CommandInv(p)'
    BY DEF CommandInv, Loading, LoadFailed, LoadYaml, LoadProject, LoadIds, LoadNode,
           LoadedNodes, LoadEdges, LoadedEdges
  <1>3. CASE mem'[p] = mem[p] \/ mem'[p] = yml
    BY <1>1, <1>2, <1>3 DEF OwnGraphs
  <1>4. CASE mem'[p] = [mem[p] EXCEPT !.project = db.project]
    BY <1>1, <1>2, <1>4, ProjectWellFormed DEF OwnGraphs
  <1>5. ASSUME NEW id \in NodeIds(db),
               mem'[p] = [mem[p] EXCEPT !.nodes = Over([i \in {id} |-> db.nodes[i]], @)]
        PROVE  OwnGraphs(p)'
    <2> DEFINE row == [i \in {id} |-> db.nodes[i]]
               nodes == Over(row, mem[p].nodes)
    <2>1. IsNodes(row)
      BY DEF WellFormed, IsNodes, NodeIds
    <2> HIDE DEF row
    <2>2. IsNodes(nodes)
      BY <2>1, OverNodes DEF WellFormed
    <2>3. mem'[p] = [mem[p] EXCEPT !.nodes = nodes]
      BY <1>5 DEF row
    <2> HIDE DEF nodes
    <2>4. WellFormed(mem'[p])
      BY <2>2, <2>3, WellFormedNodes
    <2> QED
      BY <1>1, <1>2, <2>4 DEF OwnGraphs
  <1>6. ASSUME NEW id, NEW kept \in Dedups(mem[p].edges \cup {e \in db.edges : id \in Ends(e)}),
               mem'[p] = [mem[p] EXCEPT !.edges = kept]
        PROVE  OwnGraphs(p)'
    <2>1. \A e \in kept : IsEdge(e)
      BY DEF WellFormed, Dedups
    <2> QED
      BY <1>1, <1>2, <1>6, <2>1, WellFormedEdges DEF OwnGraphs
  <1>7. CASE LoadYaml(p) \/ LoadIds(p) \/ LoadedNodes(p) \/ LoadedEdges(p)
    BY <1>3, <1>7 DEF LoadYaml, LoadIds, LoadedNodes, LoadedEdges
  <1>8. CASE LoadProject(p)
    BY <1>3, <1>4, <1>8 DEF LoadProject
  <1>9. CASE LoadNode(p)
    BY <1>3, <1>5, <1>9 DEF LoadNode
  <1>10. CASE LoadEdges(p)
    BY <1>6, <1>10 DEF LoadEdges
  <1> QED
    BY <1>7, <1>8, <1>9, <1>10

LEMMA CutsWellFormed ==
  ASSUME NEW g, WellFormed(g), NEW h \in Cuts(g)
  PROVE  WellFormed(h)
  <1>1. g = [project |-> g.project, nodes |-> g.nodes, edges |-> g.edges]
    BY DEF WellFormed
  <1>2. ASSUME NEW some \in SUBSET NodeIds(g),
               h = [g EXCEPT !.nodes = Restrict(@, some), !.edges = {}]
        PROVE  WellFormed(h)
    <2>1. IsNodes(Restrict(g.nodes, some))
      BY DEF WellFormed, IsNodes, Restrict, NodeIds
    <2>2. h = [project |-> g.project, nodes |-> Restrict(g.nodes, some), edges |-> {}]
      BY <1>1, <1>2
    <2> QED
      BY <2>1, <2>2, WellFormedGraph
  <1>3. ASSUME NEW some \in SUBSET g.edges, h = [g EXCEPT !.edges = some]
        PROVE  WellFormed(h)
    <2>1. h = [project |-> g.project, nodes |-> g.nodes, edges |-> some]
      BY <1>1, <1>3
    <2> QED
      BY <2>1, WellFormedGraph DEF WellFormed
  <1> QED
    BY <1>2, <1>3 DEF Cuts

LEMMA EditGraphs ==
  ASSUME StoreInv, GraphsInv, NEW p \in Procs,
         Edit(p) \/ HistoryRestore(p) \/ HistorySave(p) \/ InitProject(p) \/ Crash(p)
           \/ Change(p) \/ Restore(p)
  PROVE  OwnGraphs(p)'
  <1> USE DEF StoreInv, GraphsInv, LocalType, Goto, End, files, local
  <1>1. ASSUME NEW c, Begin(p, c), IF c.op = "restore" THEN WellFormed(c.graph) ELSE c \in Commands
        PROVE  OwnGraphs(p)'
    <2>1. mem'[p] = NewGraph /\ cmd'[p] = c /\ UNCHANGED <<yml, db, history>>
      BY <1>1 DEF Begin
    <2> QED
      BY <1>1, <2>1, NewWellFormed DEF OwnGraphs, CommandInv
  <1>2. CASE Edit(p)
    <2>1. PICK c \in Commands : Begin(p, c)
      BY <1>2 DEF Edit
    <2>2. c.op # "restore"
      BY StoreAssumption DEF StoreAssumption, Operations
    <2> QED
      BY <1>1, <2>1, <2>2
  <1>3. CASE HistoryRestore(p)
    <2>1. PICK v \in DOMAIN history : Begin(p, [op |-> "restore", graph |-> history[v]])
      BY <1>3 DEF HistoryRestore
    <2>2. WellFormed(history[v])
      BY DEF IsHistory, ToSet
    <2> DEFINE c == [op |-> "restore", graph |-> history[v]]
    <2>3. c.op = "restore" /\ c.graph = history[v] /\ Begin(p, c)
      BY <2>1
    <2> HIDE DEF c
    <2> QED
      BY <1>1, <2>2, <2>3
  <1>4. CASE HistorySave(p)
    BY <1>4, SnapshotsAreHistory DEF OwnGraphs, CommandInv, HistorySave
  <1>5. CASE InitProject(p)
    <2>1. WellFormed(yml') /\ UNCHANGED <<db, history, local>>
      BY <1>5, NewWellFormed, ProjectWellFormed DEF InitProject
    <2> QED
      BY <2>1 DEF OwnGraphs, CommandInv
  <1>6. CASE Crash(p)
    <2>1. WellFormed(yml')
      BY <1>6, NewWellFormed, CutsWellFormed DEF Crash
    <2>2. UNCHANGED <<db, history, cmd, mem>> /\ pc'[p] = "idle"
      BY <1>6 DEF Crash
    <2> QED
      BY <2>1, <2>2 DEF OwnGraphs, CommandInv, Loading
  <1>7. CASE Change(p)
    <2>1. cmd[p] \in Commands
      BY <1>7 DEF CommandInv, Change
    <2>2. \A g \in Outcomes(mem[p], cmd[p]) : WellFormed(g)
      BY <2>1, OutcomesWellFormed
    <2>3. WellFormed(mem'[p]) /\ UNCHANGED <<yml, db, history>> /\ pc'[p] \in {"idle", "save"}
      BY <1>7, <2>2 DEF Change
    <2> QED
      BY <2>3 DEF OwnGraphs, CommandInv, Loading
  <1>8. CASE Restore(p)
    <2>1. WellFormed(mem'[p]) /\ UNCHANGED <<yml, db>> /\ pc'[p] = "save"
      BY <1>8 DEF Restore, CommandInv
    <2>2. IsHistory(history')
      BY <1>8, SnapshotsAreHistory DEF Restore
    <2> QED
      BY <2>1, <2>2 DEF OwnGraphs, CommandInv, Loading
  <1> QED
    BY <1>2, <1>3, <1>4, <1>5, <1>6, <1>7, <1>8

LEMMA SaveGraphs ==
  ASSUME StoreInv, GraphsInv, NEW p \in Procs,
         TruncateYaml(p) \/ WriteYaml(p) \/ ReadOldIds(p) \/ Commit(p) \/ SetName(p)
           \/ SetDescription(p)
  PROVE  OwnGraphs(p)'
  <1> USE DEF StoreInv, GraphsInv, LocalType, Goto, End
  <1>1. mem' = mem /\ history' = history /\ pc'[p] \notin Loading \cup {"edit"}
    BY DEF TruncateYaml, WriteYaml, ReadOldIds, Commit, SetName, SetDescription, Loading
  <1>2. WellFormed(yml')
    BY NewWellFormed DEF TruncateYaml, WriteYaml, ReadOldIds, Commit, SetName, SetDescription
  <1>3. CASE Commit(p)
    BY <1>1, <1>2, <1>3, BatchWellFormed DEF OwnGraphs, CommandInv, Commit
  <1>4. CASE SetName(p) \/ SetDescription(p)
    <2>1. \E project : db' = [db EXCEPT !.project = project]
      BY <1>4 DEF SetName, SetDescription
    <2> QED
      BY <1>1, <1>2, <2>1, ProjectWellFormed DEF OwnGraphs, CommandInv
  <1>5. CASE TruncateYaml(p) \/ WriteYaml(p) \/ ReadOldIds(p)
    BY <1>1, <1>2, <1>5, NewWellFormed DEF OwnGraphs, CommandInv, TruncateYaml, WriteYaml,
       ReadOldIds
  <1> QED
    BY <1>3, <1>4, <1>5

LEMMA StepGraphs ==
  ASSUME StoreInv, GraphsInv, NEW p \in Procs, StoreStep(p)
  PROVE  GraphsInv'
  <1>1. OwnGraphs(p)'
    BY LoadGraphs, EditGraphs, SaveGraphs DEF StoreStep
  <1>2. ASSUME NEW q \in Procs \ {p} PROVE WellFormed(mem[q])' /\ CommandInv(q)'
    <2>1. Apart(q)
      BY StepApart DEF StoreInv
    <2> QED
      BY <2>1 DEF GraphsInv, Apart, CommandInv
  <1> QED
    BY <1>1, <1>2 DEF GraphsInv, OwnGraphs

LEMMA StoreInitGraphs == ASSUME StoreInit PROVE GraphsInv
  <1>1. WellFormed(yml)
    BY NewWellFormed, StoreAssumption DEF StoreAssumption, StoreInit
  <1>2. WellFormed(db)
    <2>1. ASSUME NEW g \in Seeds PROVE WellFormed([g EXCEPT !.nodes = Rows(@)])
      BY StoreAssumption, RowsAreNodes, WellFormedNodes DEF StoreAssumption, WellFormed
    <2> QED
      BY <2>1, NewWellFormed DEF StoreInit
  <1>3. IsHistory(history)
    <2>1. ToSet(<<>>) = {} /\ <<>> \in Seq({})
      BY DEF ToSet
    <2>2. IsHistory(<<>>)
      BY <2>1 DEF IsHistory
    <2> QED
      BY <2>2 DEF StoreInit
  <1>4. ASSUME NEW p \in Procs PROVE WellFormed(mem[p]) /\ CommandInv(p)
    BY NewWellFormed DEF StoreInit, CommandInv, Loading
  <1> QED
    BY <1>1, <1>2, <1>3, <1>4 DEF GraphsInv

\* For any number of processes, and whatever they type: graph.yml, graph.db, the
\* snapshots and the memory of every process hold graphs, whose nodes and edges have
\* all their fields.
THEOREM StoreHoldsGraphs == StoreSpec => []GraphsInv
  <1>1. StoreInit => StoreInv /\ GraphsInv
    BY StoreInitInv, StoreInitGraphs
  <1>2. StoreInv /\ GraphsInv /\ [StoreNext]_storeVars => GraphsInv'
    <2>1. ASSUME GraphsInv, UNCHANGED storeVars PROVE GraphsInv'
      BY <2>1 DEF GraphsInv, CommandInv, storeVars, files, local
    <2> QED
      BY <2>1, StepGraphs DEF StoreNext
  <1> QED
    BY <1>1, <1>2, StoreAlways, PTL DEF StoreSpec

-----------------------------------------------------------------------------
(* One process: the snapshots and the migration *)

\* A restore has put a snapshot of what it loaded before it saves.
SnapshotInv(p) ==
    clean[p] /\ cmd[p].op = "restore" /\ pc[p] \in {"save", "commit"} => Snapshotted(p)

\* The labels of a migration in their order.
Migrating == {"parse", "backup", "open", "migrate-name", "migrate-description", "insert",
              "verify"}

\* What a migration has done when it is at a label: it has read graph.yml, has
\* kept a backup, has a new database, has named its project and has put the rest.
MigrationInv(p) ==
    /\ pc[p] \in Migrating => report[p] = None /\ yml_file # "absent"
    /\ pc[p] \in {"parse", "backup", "open"} => ~ db_file
    /\ pc[p] \in Migrating \ {"parse"} => mem[p] = yml
    /\ pc[p] \in Migrating \ {"parse", "backup"} => mem[p] \in backups
    /\ pc[p] \in {"migrate-name", "migrate-description", "insert", "verify"} => db_file
    /\ pc[p] = "migrate-name" => db = NewGraph
    /\ pc[p] = "migrate-description" =>
          db.project = [name |-> mem[p].project.name, description |-> None]
    /\ pc[p] \in {"migrate-description", "insert"} => db.nodes = <<>> /\ db.edges = {}
    /\ pc[p] \in {"insert", "verify"} => db.project.name = mem[p].project.name
    /\ pc[p] = "verify" => db.nodes = Rows(mem[p].nodes) /\ db.edges = mem[p].edges

Inv ==
    /\ StoreInv
    /\ GraphsInv
    /\ DOMAIN report = Procs
    /\ \A p \in Procs : SnapshotInv(p) /\ MigrationInv(p)
    /\ MigratedIsWhole

LEMMA InitInv == Init => Inv
  <1> SUFFICES ASSUME Init PROVE Inv
    OBVIOUS
  <1>1. StoreInv /\ GraphsInv
    BY StoreInitInv, StoreInitGraphs DEF Init
  <1>2. ASSUME NEW p \in Procs PROVE SnapshotInv(p) /\ MigrationInv(p) /\ report[p] = None
    BY DEF Init, StoreInit, SnapshotInv, MigrationInv, Migrating
  <1> QED
    BY <1>1, <1>2 DEF Inv, MigratedIsWhole, None, Init

\* What is loaded is kept whole by the snapshot of it.
LEMMA RestoreSnapshots ==
  ASSUME StoreInv, GraphsInv, NEW p \in Procs, Restore(p), clean[p]
  PROVE  Snapshotted(p)'
  <1> USE DEF StoreInv, GraphsInv, LocalType
  <1>1. base' = base /\ backend' = backend /\ pc[p] = "edit" /\ cmd[p].op = "restore"
    BY DEF Restore, ghosts
  <1>2. mem[p] \in Loads(backend[p], base[p])
    BY <1>1 DEF LoadedInv, Overwrites
  <1>3. SUFFICES ASSUME base[p].nodes # <<>> \/ base[p].edges # {}
                 PROVE  mem[p] \in ToSet(history')
    BY <1>1, <1>2 DEF Snapshotted, SameContent
  <1>4. mem[p].nodes # <<>> \/ mem[p].edges # {}
    <2>1. CASE mem[p] = base[p]
      BY <1>3, <2>1
    <2>2. ASSUME NEW kept \in Dedups(base[p].edges), mem[p] = [base[p] EXCEPT !.edges = kept]
          PROVE  mem[p].nodes # <<>> \/ mem[p].edges # {}
      <3>1. base[p].edges # {} => kept # {}
        BY DEF Dedups
      <3>2. mem[p] = [project |-> mem[p].project, nodes |-> mem[p].nodes, edges |-> mem[p].edges]
        BY DEF WellFormed
      <3>3. mem[p].nodes = base[p].nodes /\ mem[p].edges = kept
        BY <2>2, <3>2
      <3> QED
        BY <1>3, <3>1, <3>3
    <2> QED
      BY <1>2, <2>1, <2>2 DEF Loads
  <1>5. history' \in Snapshots(mem[p])
    BY <1>4 DEF Restore
  <1>6. history \in Seq(ToSet(history) \cup {mem[p]}) /\ Len(history) \in Nat
    BY DEF IsHistory
  <1> DEFINE h == Append(history, mem[p])
  <1>7. Len(h) = Len(history) + 1 /\ h[Len(h)] = mem[p] /\ h \in Seq(ToSet(history) \cup {mem[p]})
    BY <1>6
  <1> HIDE DEF h
  <1>8. mem[p] \in ToSet(h)
    BY <1>6, <1>7 DEF ToSet
  <1>9. Len(h) > MaxHistory => mem[p] \in ToSet(Tail(h))
    <2> SUFFICES ASSUME Len(h) > MaxHistory PROVE mem[p] \in ToSet(Tail(h))
      OBVIOUS
    <2>1. Len(history) \in Nat \ {0}
      BY <1>6, <1>7, StoreAssumption DEF StoreAssumption
    <2>2. Tail(h)[Len(history)] = mem[p] /\ Len(history) \in DOMAIN Tail(h)
      BY <1>7, <2>1
    <2> QED
      BY <2>2 DEF ToSet
  <1>10. history # <<>> => mem[p] \in ToSet(Append(Front(history), mem[p]))
    <2> SUFFICES ASSUME history # <<>> PROVE mem[p] \in ToSet(Append(Front(history), mem[p]))
      OBVIOUS
    <2>1. Front(history) \in Seq(ToSet(history) \cup {mem[p]})
      BY <1>6 DEF Front
    <2> DEFINE f == Front(history)
    <2> HIDE DEF f
    <2>2. Append(f, mem[p])[Len(f) + 1] = mem[p] /\ Len(f) + 1 \in DOMAIN Append(f, mem[p])
      BY <2>1 DEF f
    <2> QED
      BY <2>2 DEF f, ToSet
  <1> QED
    BY <1>5, <1>8, <1>9, <1>10 DEF Snapshots, h

LEMMA StepSnapshot ==
  ASSUME StoreInv, GraphsInv, NEW p \in Procs, SnapshotInv(p), StoreStep(p)
  PROVE  SnapshotInv(p)'
  <1> USE DEF StoreInv, LocalType, Goto, End, files, local, bounds, ghosts
  <1>1. ASSUME pc'[p] \notin {"save", "commit"} PROVE SnapshotInv(p)'
    BY <1>1 DEF SnapshotInv
  <1>2. CASE Restore(p)
    <2>1. clean' = clean
      BY <1>2 DEF Restore
    <2> QED
      BY <1>2, <2>1, RestoreSnapshots DEF SnapshotInv
  <1>3. CASE Change(p)
    BY <1>3 DEF Change, SnapshotInv
  <1>4. CASE ReadOldIds(p)
    <2>1. /\ pc[p] = "save" /\ base' = base /\ clean' = clean /\ cmd' = cmd /\ backend' = backend
          /\ history' = history
      BY <1>4 DEF ReadOldIds
    <2> QED
      BY <2>1 DEF SnapshotInv, Snapshotted
  <1>5. CASE Edit(p) \/ HistoryRestore(p) \/ HistorySave(p) \/ InitProject(p)
    BY <1>1, <1>5 DEF Edit, HistoryRestore, Begin, HistorySave, InitProject
  <1>6. CASE LoadYaml(p) \/ LoadProject(p) \/ LoadIds(p) \/ LoadNode(p) \/ LoadedNodes(p)
             \/ LoadEdges(p) \/ LoadedEdges(p)
    BY <1>1, <1>6 DEF LoadYaml, LoadFailed, LoadProject, LoadIds, LoadNode, LoadedNodes, LoadEdges,
                      LoadedEdges
  <1>7. CASE TruncateYaml(p) \/ WriteYaml(p) \/ Commit(p) \/ SetName(p) \/ SetDescription(p)
             \/ Crash(p)
    BY <1>1, <1>7 DEF TruncateYaml, WriteYaml, Commit, SetName, SetDescription, Crash
  <1> QED
    BY <1>2, <1>3, <1>4, <1>5, <1>6, <1>7 DEF StoreStep

\* The commands are not at a label of the migration.
LEMMA CommandLabels ==
  ASSUME LocalType, NEW p \in Procs, StoreStep(p)
  PROVE  pc'[p] \notin Migrating
  <1> USE DEF LocalType, Goto, End, files, local, Migrating
  <1>1. CASE Edit(p) \/ HistoryRestore(p) \/ HistorySave(p) \/ InitProject(p)
    BY <1>1 DEF Edit, HistoryRestore, Begin, HistorySave, InitProject
  <1>2. CASE LoadYaml(p) \/ LoadProject(p) \/ LoadIds(p) \/ LoadNode(p) \/ LoadedNodes(p)
             \/ LoadEdges(p) \/ LoadedEdges(p)
    BY <1>2 DEF LoadYaml, LoadFailed, LoadProject, LoadIds, LoadNode, LoadedNodes, LoadEdges,
                LoadedEdges
  <1>3. CASE TruncateYaml(p) \/ WriteYaml(p) \/ Commit(p) \/ SetName(p) \/ SetDescription(p)
             \/ Crash(p) \/ Change(p) \/ Restore(p) \/ ReadOldIds(p)
    BY <1>3 DEF TruncateYaml, WriteYaml, Commit, SetName, SetDescription, Crash, Change, Restore,
                ReadOldIds
  <1> QED
    BY <1>1, <1>2, <1>3 DEF StoreStep

LEMMA CommandStep ==
  ASSUME Inv, NEW p \in Procs, Procs = {p}, Command(p)
  PROVE  Inv'
  <1>1. StoreInv' /\ GraphsInv'
    BY StepInv, StepGraphs DEF Inv, Command
  <1>2. SnapshotInv(p)'
    BY StepSnapshot DEF Inv, Command
  <1>3. DOMAIN report' = Procs /\ report'[p] = None
    BY DEF Inv, Command
  <1>4. pc'[p] \notin Migrating
    BY CommandLabels DEF Inv, StoreInv, Command
  <1>5. MigrationInv(p)'
    BY <1>3, <1>4 DEF MigrationInv, Migrating
  <1>6. MigratedIsWhole'
    BY <1>3 DEF MigratedIsWhole, None
  <1> QED
    BY <1>1, <1>2, <1>3, <1>5, <1>6 DEF Inv

\* What a step of the migration leaves alone, and where it leads.
LEMMA MigrationLabels ==
  ASSUME Inv, NEW p \in Procs, Procs = {p}, MigrationStep(p)
  PROVE  /\ pc'[p] \in Migrating \cup {"idle"} /\ LocalType' /\ DOMAIN report' = Procs
         /\ UNCHANGED <<yml_file, yml, history, backend, ids, todo, base, clean>>
  <1> USE DEF Inv, StoreInv, LocalType, Goto, End, Fail, files, bounds, ghosts, migrateVars,
              Migrating
  <1>1. CASE Migrate(p)
    BY <1>1 DEF Migrate
  <1>2. CASE Parse(p) \/ Backup(p)
    BY <1>2 DEF Parse, Backup
  <1>3. CASE OpenTarget(p) \/ MigrateName(p) \/ MigrateDescription(p)
    BY <1>3 DEF OpenTarget, MigrateName, MigrateDescription
  <1>4. CASE Insert(p)
    BY <1>4 DEF Insert
  <1>5. CASE Verify(p)
    BY <1>5 DEF Verify
  <1> QED
    BY <1>1, <1>2, <1>3, <1>4, <1>5 DEF MigrationStep

LEMMA MigrationFiles ==
  ASSUME Inv, NEW p \in Procs, Procs = {p}, MigrationStep(p)
  PROVE  FilesInv'
  <1> USE DEF Inv, StoreInv, files, bounds, ghosts, migrateVars
  <1>1. UNCHANGED <<yml_file, yml>>
    BY MigrationLabels
  <1>2. CASE UNCHANGED <<db_file, db>>
    BY <1>1, <1>2 DEF FilesInv, EdgesHaveEnds
  <1>3. CASE db' = NewGraph
    BY <1>1, <1>3, NewIsGraph DEF FilesInv, EdgesHaveEnds
  <1>4. CASE Parse(p) \/ Backup(p) \/ Verify(p)
    BY <1>2, <1>4 DEF Parse, Backup, Verify
  <1>5. CASE Migrate(p)
    BY <1>2, <1>3, <1>5 DEF Migrate
  <1>6. CASE OpenTarget(p)
    BY <1>3, <1>6 DEF OpenTarget, MigrationInv, FilesInv
  <1>7. ASSUME NEW project, db' = [db EXCEPT !.project = project], db_file, db_file' = db_file
        PROVE  FilesInv'
    <2>1. IsGraph(db') /\ Dangling(db') = Dangling(db)
      BY <1>7 DEF FilesInv, IsGraph, Dangling, NodeIds
    <2> QED
      BY <1>1, <1>7, <2>1 DEF FilesInv, EdgesHaveEnds
  <1>8. CASE MigrateName(p)
    BY <1>7, <1>8 DEF MigrateName, MigrationInv
  <1>9. CASE MigrateDescription(p)
    BY <1>7, <1>9 DEF MigrateDescription, MigrationInv
  <1>10. CASE Insert(p) /\ db' # db
    <2> DEFINE d == Batch(db, {}, mem[p])
    <2>1. db' = d /\ Dangling(d) = {} /\ db_file /\ db_file' = db_file
      BY <1>10 DEF Insert, Refused, MigrationInv
    <2>2. IsGraph(d)
      BY BatchIsGraph DEF FilesInv
    <2> HIDE DEF d
    <2> QED
      BY <1>1, <2>1, <2>2 DEF FilesInv, EdgesHaveEnds
  <1>11. CASE Insert(p) /\ db' = db
    BY <1>2, <1>11 DEF Insert
  <1> QED
    BY <1>4, <1>5, <1>6, <1>8, <1>9, <1>10, <1>11 DEF MigrationStep

LEMMA MigrationGraphs ==
  ASSUME Inv, NEW p \in Procs, Procs = {p}, MigrationStep(p)
  PROVE  GraphsInv'
  <1> USE DEF Inv, StoreInv, GraphsInv, LocalType, files, bounds, ghosts, migrateVars
  <1>1. /\ UNCHANGED <<yml, history>> /\ pc'[p] \in Migrating \cup {"idle"}
        /\ DOMAIN mem' = Procs
    BY MigrationLabels
  <1>2. CommandInv(p)'
    BY <1>1 DEF CommandInv, Loading, Migrating
  <1>3. SUFFICES WellFormed(db') /\ WellFormed(mem'[p])
    BY <1>1, <1>2
  <1>4. CASE Migrate(p)
    BY <1>4, NewWellFormed DEF Migrate
  <1>5. CASE Parse(p)
    BY <1>5 DEF Parse
  <1>6. CASE Backup(p) \/ OpenTarget(p) \/ Verify(p)
    BY <1>6 DEF Backup, OpenTarget, Verify
  <1>7. CASE MigrateName(p) \/ MigrateDescription(p)
    <2>1. mem' = mem /\ \E project : db' = [db EXCEPT !.project = project]
      BY <1>7 DEF MigrateName, MigrateDescription
    <2> QED
      BY <2>1, ProjectWellFormed
  <1>8. CASE Insert(p)
    BY <1>8, BatchWellFormed DEF Insert
  <1> QED
    BY <1>4, <1>5, <1>6, <1>7, <1>8 DEF MigrationStep

\* Putting a graph into an empty database.
LEMMA BatchFills ==
  ASSUME NEW d, IsGraph(d), d.nodes = <<>>, d.edges = {}, NEW g
  PROVE  /\ Batch(d, {}, g).nodes = Rows(g.nodes) /\ Batch(d, {}, g).edges = g.edges
         /\ Batch(d, {}, g).project = d.project
  <1>1. NodeIds(d) = {}
    BY DEF NodeIds
  <1> QED
    BY <1>1, BatchReplaces, BatchIsGraph

LEMMA MigrationProgress ==
  ASSUME Inv, NEW p \in Procs, Procs = {p}, MigrationStep(p)
  PROVE  MigrationInv(p)'
  <1> USE DEF Inv, StoreInv, LocalType, Goto, End, Fail, files, local, bounds, ghosts, migrateVars,
              Migrating, MigrationInv
  <1>1. UNCHANGED <<yml_file, yml>> /\ DOMAIN report' = Procs
    BY MigrationLabels
  <1>2. CASE pc'[p] = "idle"
    BY <1>1, <1>2
  <1>3. CASE Migrate(p) /\ pc'[p] # "idle"
    BY <1>1, <1>3 DEF Migrate
  <1>4. CASE Parse(p) /\ pc'[p] # "idle"
    BY <1>1, <1>4 DEF Parse
  <1>5. CASE Backup(p)
    BY <1>1, <1>5 DEF Backup
  <1>6. CASE OpenTarget(p)
    <2>1. db = NewGraph /\ db' = NewGraph /\ mem' = mem
      BY <1>6 DEF OpenTarget, FilesInv
    <2>2. pc'[p] \in {"insert", "migrate-name"} /\ db_file' /\ backups' = backups
          /\ report' = report
      BY <1>6 DEF OpenTarget
    <2>3. pc'[p] = "insert" => db'.project.name = mem'[p].project.name
      BY <1>6, <2>1 DEF OpenTarget, NewGraph
    <2> QED
      BY <1>1, <1>6, <2>1, <2>2, <2>3 DEF OpenTarget, NewGraph
  <1>7. CASE MigrateName(p)
    <2>1. db' = [NewGraph EXCEPT !.project.name = mem[p].project.name]
      BY <1>7 DEF MigrateName
    <2>2. /\ db'.nodes = <<>> /\ db'.edges = {}
          /\ db'.project = [name |-> mem[p].project.name, description |-> None]
      BY <2>1 DEF NewGraph, NoProject
    <2> QED
      BY <1>1, <1>7, <2>2 DEF MigrateName
  <1>8. CASE MigrateDescription(p)
    <2>1. db' = [db EXCEPT !.project.description = Text(None)]
      BY <1>8 DEF MigrateDescription
    <2>2. /\ db.nodes = <<>> /\ db.edges = {}
          /\ db.project = [name |-> mem[p].project.name, description |-> None]
          /\ db = [project |-> db.project, nodes |-> db.nodes, edges |-> db.edges]
      BY <1>8 DEF MigrateDescription, FilesInv, IsGraph
    <2>3. db'.nodes = <<>> /\ db'.edges = {} /\ db'.project.name = mem[p].project.name
      BY <2>1, <2>2
    <2> QED
      BY <1>1, <1>8, <2>3 DEF MigrateDescription
  <1>9. CASE Insert(p) /\ pc'[p] # "idle"
    <2>1. db' = Batch(db, {}, mem[p]) /\ mem' = mem /\ pc'[p] = "verify"
      BY <1>9 DEF Insert
    <2>2. IsGraph(db) /\ db.nodes = <<>> /\ db.edges = {}
          /\ db.project.name = mem[p].project.name
      BY <1>9 DEF Insert, FilesInv
    <2>3. /\ db'.nodes = Rows(mem[p].nodes) /\ db'.edges = mem[p].edges
          /\ db'.project.name = mem[p].project.name
      BY <2>1, <2>2, BatchFills
    <2> QED
      BY <1>1, <1>9, <2>1, <2>3 DEF Insert
  <1>10. CASE Verify(p)
    BY <1>2, <1>10 DEF Verify
  <1> QED
    BY <1>2, <1>3, <1>4, <1>5, <1>6, <1>7, <1>8, <1>9, <1>10 DEF MigrationStep

\* A row whose type is the type of its node is its node.
LEMMA VerifiedIsSame ==
  ASSUME NEW g, WellFormed(g), NEW d, d.nodes = Rows(g.nodes), Verified(g, d)
  PROVE  d.nodes = g.nodes
  <1>1. ASSUME NEW id \in DOMAIN g.nodes PROVE Column(g.nodes[id]) = g.nodes[id]
    <2> DEFINE n == g.nodes[id]
    <2>1. n = [type |-> n.type, status |-> n.status, source |-> n.source]
      BY DEF WellFormed, IsNodes, IsNode
    <2>2. d.nodes[id] = Column(n) /\ d.nodes[id].type = n.type
      BY DEF Verified, Rows, NodeIds
    <2> DEFINE t == IF n.type = None THEN "unknown" ELSE n.type
    <2>3. Column(n) = [n EXCEPT !.type = t]
      BY DEF Column
    <2> HIDE DEF n, t
    <2>4. Column(n) = [type |-> t, status |-> n.status, source |-> n.source]
      BY <2>1, <2>3
    <2>5. t = n.type
      BY <2>2, <2>4
    <2> QED
      BY <2>1, <2>4, <2>5 DEF n
  <1>2. Rows(g.nodes) = [id \in DOMAIN g.nodes |-> g.nodes[id]]
    BY <1>1 DEF Rows
  <1>3. g.nodes = [id \in DOMAIN g.nodes |-> g.nodes[id]]
    BY DEF WellFormed, IsNodes
  <1> QED
    BY <1>2, <1>3, Zenon

LEMMA MigrationSuccess ==
  ASSUME Inv, NEW p \in Procs, Procs = {p}, MigrationStep(p)
  PROVE  MigratedIsWhole'
  <1> USE DEF Inv, StoreInv, LocalType
  <1>1. UNCHANGED <<yml_file, yml>> /\ DOMAIN report' = Procs
    BY MigrationLabels
  <1>2. CASE report'[p] # "success"
    BY <1>2 DEF MigratedIsWhole
  <1>3. ASSUME Verify(p), Verified(mem[p], db)
        PROVE  MigratedIsWhole'
    <2>1. /\ mem[p] = yml /\ yml \in backups /\ db.nodes = Rows(yml.nodes) /\ db.edges = yml.edges
          /\ db.project.name = yml.project.name
      BY <1>3 DEF Verify, MigrationInv, Migrating
    <2>2. db.nodes = yml.nodes
      BY <1>3, <2>1, VerifiedIsSame DEF GraphsInv
    <2>3. db' = db /\ backups' = backups
      BY <1>3 DEF Verify, files
    <2> QED
      BY <1>1, <2>1, <2>2, <2>3 DEF MigratedIsWhole, SameContent
  <1>4. ASSUME report'[p] = "success"
        PROVE  Verify(p) /\ Verified(mem[p], db)
    BY <1>1, <1>4 DEF MigrationStep, Migrate, Parse, Backup, OpenTarget, MigrateName,
       MigrateDescription, Insert, Verify, Fail, End, migrateVars, MigrationInv, Migrating, None
  <1> QED
    BY <1>1, <1>2, <1>3, <1>4 DEF MigratedIsWhole

LEMMA MigrationKeeps ==
  ASSUME Inv, NEW p \in Procs, Procs = {p}, MigrationStep(p)
  PROVE  Inv'
  <1> USE DEF Inv
  <1>1. /\ pc'[p] \in Migrating \cup {"idle"} /\ LocalType' /\ DOMAIN report' = Procs
        /\ UNCHANGED <<yml_file, yml, history, backend, ids, todo, base, clean>>
    BY MigrationLabels
  <1>2. BackendInv(p)' /\ LoadedInv(p)' /\ SnapshotInv(p)'
    BY <1>1 DEF BackendInv, LoadedInv, SnapshotInv, Migrating, Loading, StoreInv
  <1>3. StoreInv'
    BY <1>1, <1>2, MigrationFiles DEF StoreInv
  <1> QED
    BY <1>1, <1>2, <1>3, MigrationGraphs, MigrationProgress, MigrationSuccess

LEMMA Stutter == ASSUME Inv, UNCHANGED vars PROVE Inv'
  <1> USE DEF Inv, vars, migrateVars
  <1>1. StoreInv'
    BY StoreStutter
  <1>2. GraphsInv'
    BY DEF GraphsInv, CommandInv, storeVars, files, local
  <1>3. \A p \in Procs : SnapshotInv(p)' /\ MigrationInv(p)'
    BY DEF SnapshotInv, Snapshotted, MigrationInv, storeVars, files, local, ghosts
  <1>4. MigratedIsWhole'
    BY DEF MigratedIsWhole, storeVars, files
  <1> QED
    BY <1>1, <1>2, <1>3, <1>4

LEMMA Always == Spec => []Inv
  <1>1. Inv /\ [Next]_vars => Inv'
    <2>1. PICK p \in Procs : Procs = {p}
      BY AloneAssumption DEF AloneAssumption
    <2> QED
      BY <2>1, CommandStep, MigrationKeeps, Stutter DEF Next
  <1> QED
    BY <1>1, InitInv, PTL DEF Spec

\* EdgesHaveEnds with migrations between the commands.
THEOREM MigrationEdgesHaveEnds == Spec => []EdgesHaveEnds
  <1>1. Inv => EdgesHaveEnds
    BY DEF Inv, StoreInv, FilesInv
  <1> QED
    BY <1>1, Always, PTL

\* MigratedIsWhole for every graph.yml and whatever was done and interrupted before:
\* a migration that reports success has put all of it into graph.db.
THEOREM MigrationIsWhole == Spec => []MigratedIsWhole
  <1>1. Inv => MigratedIsWhole
    BY DEF Inv
  <1> QED
    BY <1>1, Always, PTL

\* RestoreKeepsWhatItReplaces for every graph and every MAX_HISTORY_ENTRIES: the
\* snapshot of what a restore is to overwrite is there when it overwrites it.
THEOREM RestoreKeepsASnapshot == Spec => RestoreKeepsWhatItReplaces
  <1> DEFINE A == \A p \in Procs :
               /\ cmd[p].op = "restore" /\ clean[p]
               /\ \/ pc[p] = "save" /\ pc'[p] = "write"
                  \/ pc[p] = "commit" /\ pc'[p] # "commit"
               => Snapshotted(p)
  <1>1. Inv /\ [Next]_vars => [A]_storeVars
    BY DEF Inv, SnapshotInv
  <1> QED
    BY <1>1, Always, PTL DEF Spec, RestoreKeepsWhatItReplaces

====
