---- MODULE GraphStore ----
(***************************************************************************)
(* The store of the graph: .gid/graph.yml, .gid/graph.db and the snapshots *)
(* in .gid/history, and the commands that load it, change it and save it   *)
(* whole (storage/mod.rs, storage/sqlite.rs, parser.rs, history.rs).       *)
(*                                                                         *)
(* A step is one SQL statement or transaction, or one effect on a file.    *)
(* Nothing locks the store between a load and a save.                      *)
(***************************************************************************)
EXTENDS GraphCommands

CONSTANTS
    Seeds,        \* the graphs an earlier use of the program may have left
    Procs,        \* processes that run commands, one at a time each
    Commands,     \* the editing commands a user may type
    Explicit,     \* the backends a user may ask for with --backend
    Restores,     \* whether history save, history restore and init are typed
    MaxHistory,   \* MAX_HISTORY_ENTRIES
    MaxCommands,  \* bound on the commands typed
    MaxCrashes    \* bound on the processes killed

\* A graph as the program has it in memory.
IsNode(n) == n = [type |-> n.type, status |-> n.status, source |-> n.source]
IsEdge(e) == e = [from |-> e.from, to |-> e.to, relation |-> e.relation, source |-> e.source]
IsNodes(nodes) ==
    /\ nodes = [id \in DOMAIN nodes |-> nodes[id]]
    /\ \A id \in DOMAIN nodes : IsNode(nodes[id])
WellFormed(g) ==
    /\ g = [project |-> g.project, nodes |-> g.nodes, edges |-> g.edges]
    /\ IsNodes(g.nodes)
    /\ \A e \in g.edges : IsEdge(e)

ASSUME StoreAssumption ==
    /\ \A g \in Seeds : WellFormed(g)
    /\ \A c \in Commands :
          /\ c.op \in Operations
          /\ c.op = "edit-graph" => Len(c.ops) \in Nat
          /\ c.op = "add-feature" => Len(c.specs) \in Nat
          /\ c.op = "design" => WellFormed(c.incoming)
    /\ MaxHistory \in Nat \ {0}
    /\ Explicit \subseteq {"yaml", "sqlite"}
    /\ Restores \in BOOLEAN

VARIABLES
    yml_file,  \* "absent", "torn" (cut where it does not parse) or "there"
    yml,       \* the graph that graph.yml parses to
    db_file,   \* whether graph.db is there
    db,        \* the graph in graph.db
    history,   \* the snapshots, oldest first
    pc, cmd, backend,
    mem,       \* the graph in the memory of a process
    ids,       \* the ids a process has read
    todo,      \* those it still has to ask for
    typed, crashes,
    base,      \* history variable: what the store held when the command began
    clean      \* history variable: no other process has written since

files == <<yml_file, yml, db_file, db, history>>
local == <<pc, cmd, backend, mem, ids, todo>>
bounds == <<typed, crashes>>
ghosts == <<base, clean>>
storeVars == <<files, local, bounds, ghosts>>

\* node_type is NOT NULL: a node without a type gets "unknown".
Column(node) == [node EXCEPT !.type = IF @ = None THEN "unknown" ELSE @]
Rows(nodes) == [id \in DOMAIN nodes |-> Column(nodes[id])]

\* Mutant of Refused: the check really is off in the transaction.
RefusesNothing(d) == FALSE

\* What the constraint refuses, and with it the whole transaction.
Refused(d) == Dangling(d) # {}

StoreInit ==
    /\ yml_file \in {"absent", "there"}
    /\ db_file \in BOOLEAN
    /\ yml_file = "there" \/ db_file
    /\ yml \in IF yml_file = "there" THEN Seeds ELSE {NewGraph}
    /\ db \in IF db_file
              THEN {[g EXCEPT !.nodes = Rows(@)] : g \in {g \in Seeds : Dangling(g) = {}}}
              ELSE {NewGraph}
    /\ history = <<>>
    /\ pc = [p \in Procs |-> "idle"]
    /\ cmd = [p \in Procs |-> [op |-> None]]
    /\ backend = [p \in Procs |-> "sqlite"]
    /\ mem = [p \in Procs |-> NewGraph]
    /\ ids = [p \in Procs |-> {}]
    /\ todo = [p \in Procs |-> {}]
    /\ typed = 0
    /\ crashes = 0
    /\ base = [p \in Procs |-> NewGraph]
    /\ clean = [p \in Procs |-> TRUE]

-----------------------------------------------------------------------------
(* What a backend holds, and what writing to it does to the other processes *)

Stored(b) == IF b = "sqlite" THEN db ELSE yml

\* Another process of the same store is no longer undisturbed.
Disturb(p) == clean' = [q \in Procs |-> clean[q] /\ q = p]

Goto(p, label) == pc' = [pc EXCEPT ![p] = label]

\* graph.db wins over graph.yml; a new project is SQLite.
DetectBackend == IF db_file \/ yml_file = "absent" THEN "sqlite" ELSE "yaml"

\* The transaction of a save over rows: the ids in old are deleted, the nodes
\* of g put (INSERT OR REPLACE) and its edges added.  Deleting and replacing a
\* row cascades to its edges; PRAGMA foreign_keys = OFF does nothing inside a
\* transaction.
Batch(d, old, g) ==
    LET late == DOMAIN d.nodes \ old
    IN [d EXCEPT !.nodes = Over(Rows(g.nodes), Restrict(@, late)),
                 !.edges = {e \in @ : Ends(e) \subseteq late \ NodeIds(g)} \cup g.edges]

-----------------------------------------------------------------------------
(* Typing a command *)

\* A graph file has to be there; --backend overrides what is detected.
Begin(p, c) ==
    /\ pc[p] = "idle"
    /\ typed < MaxCommands
    /\ typed' = typed + 1
    /\ yml_file # "absent" \/ db_file
    /\ \E b \in {DetectBackend} \cup Explicit :
          /\ backend' = [backend EXCEPT ![p] = b]
          /\ base' = [base EXCEPT ![p] =
                        IF b = "yaml" /\ yml_file = "torn" THEN NewGraph ELSE Stored(b)]
          /\ cmd' = [cmd EXCEPT ![p] = c]
          /\ mem' = [mem EXCEPT ![p] = NewGraph]
          /\ ids' = [ids EXCEPT ![p] = {}]
          /\ todo' = [todo EXCEPT ![p] = {}]
          /\ clean' = [clean EXCEPT ![p] = TRUE]
          \* Overwriting needs no load.
          /\ Goto(p, IF c.op = "design" /\ ~ c.merge THEN "edit" ELSE "load")
    /\ UNCHANGED <<files, crashes>>

Edit(p) == \E c \in Commands : Begin(p, c)

\* gid history restore: reads the snapshot first.
HistoryRestore(p) ==
    /\ Restores
    /\ \E v \in DOMAIN history : Begin(p, [op |-> "restore", graph |-> history[v]])

End(p) == Goto(p, "idle")

-----------------------------------------------------------------------------
(* load_graph_auto *)

\* restore() takes no snapshot of a graph that does not load.
LoadFailed(p) == Goto(p, IF cmd[p].op = "restore" THEN "edit" ELSE "idle")

LoadYaml(p) ==
    /\ pc[p] = "load"
    /\ backend[p] = "yaml"
    /\ \/ /\ yml_file = "absent"
          /\ Goto(p, "edit")
          /\ UNCHANGED mem
       \/ /\ yml_file = "torn"
          /\ LoadFailed(p)
          /\ UNCHANGED mem
       \/ /\ yml_file = "there"
          /\ mem' = [mem EXCEPT ![p] = yml]
          /\ Goto(p, "edit")
    /\ UNCHANGED <<files, cmd, backend, ids, todo, bounds, ghosts>>

\* load_graph_from_sqlite opens the database and reads the project ...
LoadProject(p) ==
    /\ pc[p] = "load"
    /\ backend[p] = "sqlite"
    /\ IF db_file
       THEN /\ mem' = [mem EXCEPT ![p].project = db.project]
            /\ Goto(p, "ids")
       ELSE /\ Goto(p, "edit")
            /\ UNCHANGED mem
    /\ UNCHANGED <<files, cmd, backend, ids, todo, bounds, ghosts>>

\* ... then the ids ...
LoadIds(p) ==
    /\ pc[p] = "ids"
    /\ ids' = [ids EXCEPT ![p] = NodeIds(db)]
    /\ todo' = [todo EXCEPT ![p] = NodeIds(db)]
    /\ Goto(p, "nodes")
    /\ UNCHANGED <<files, cmd, backend, mem, bounds, ghosts>>

\* ... then the node of each id, if it is still there ...
LoadNode(p) ==
    /\ pc[p] = "nodes"
    /\ \E id \in todo[p] :
          /\ mem' = IF id \in NodeIds(db)
                    THEN [mem EXCEPT ![p].nodes = Over([i \in {id} |-> db.nodes[i]], @)]
                    ELSE mem
          /\ todo' = [todo EXCEPT ![p] = @ \ {id}]
    /\ UNCHANGED <<files, pc, cmd, backend, ids, bounds, ghosts>>

LoadedNodes(p) ==
    /\ pc[p] = "nodes"
    /\ todo[p] = {}
    /\ todo' = [todo EXCEPT ![p] = ids[p]]
    /\ Goto(p, "edges")
    /\ UNCHANGED <<files, cmd, backend, mem, ids, bounds, ghosts>>

\* Mutant of LoadEdges: one id is asked for its edges.
LoadEdgesOfOne(p) ==
    /\ pc[p] = "edges"
    /\ \E id \in todo[p] :
          /\ \E kept \in Dedups(mem[p].edges \cup {e \in db.edges : id \in Ends(e)}) :
                /\ mem[p].edges \subseteq kept
                /\ mem' = [mem EXCEPT ![p].edges = kept]
          /\ todo' = [todo EXCEPT ![p] = {}]
    /\ UNCHANGED <<files, pc, cmd, backend, ids, bounds, ghosts>>

\* ... then the edges from and to each id, the first of each (from, to, relation).
LoadEdges(p) ==
    /\ pc[p] = "edges"
    /\ \E id \in todo[p] :
          /\ \E kept \in Dedups(mem[p].edges \cup {e \in db.edges : id \in Ends(e)}) :
                /\ mem[p].edges \subseteq kept
                /\ mem' = [mem EXCEPT ![p].edges = kept]
          /\ todo' = [todo EXCEPT ![p] = @ \ {id}]
    /\ UNCHANGED <<files, pc, cmd, backend, ids, bounds, ghosts>>

LoadedEdges(p) ==
    /\ pc[p] = "edges"
    /\ todo[p] = {}
    /\ Goto(p, "edit")
    /\ UNCHANGED <<files, cmd, backend, mem, ids, todo, bounds, ghosts>>

-----------------------------------------------------------------------------
(* The edit, in memory *)

Change(p) ==
    /\ pc[p] = "edit"
    /\ cmd[p].op # "restore"
    /\ LET results == Outcomes(mem[p], cmd[p])
       IN \/ /\ results = {}
             /\ End(p)
             /\ UNCHANGED mem
          \/ /\ \E g \in results : mem' = [mem EXCEPT ![p] = g]
             /\ Goto(p, "save")
    /\ UNCHANGED <<files, cmd, backend, ids, todo, bounds, ghosts>>

-----------------------------------------------------------------------------
(* History: a snapshot is named by the second; only the newest are kept *)

\* Mutant of Snapshots: the newest are pruned.
SnapshotsKeepOldest(g) ==
    {LET h == Append(history, g)
     IN IF Len(h) > MaxHistory THEN Front(h) ELSE h}

\* A snapshot of the same second as the newest overwrites it.
Snapshots(g) ==
    LET kept(h) == IF Len(h) > MaxHistory THEN Tail(h) ELSE h
    IN {kept(Append(history, g))}
       \cup IF history # <<>> THEN {Append(Front(history), g)} ELSE {}

HistorySave(p) ==
    /\ Restores
    /\ pc[p] = "idle"
    /\ typed < MaxCommands
    /\ typed' = typed + 1
    /\ yml_file = "there"
    /\ history' \in Snapshots(yml)
    /\ UNCHANGED <<yml_file, yml, db_file, db, local, crashes, ghosts>>

\* restore() replaces what it loaded, which it keeps if there is anything in it.
Restore(p) ==
    /\ pc[p] = "edit"
    /\ cmd[p].op = "restore"
    /\ history' \in IF mem[p].nodes # <<>> \/ mem[p].edges # {}
                    THEN Snapshots(mem[p]) ELSE {history}
    /\ mem' = [mem EXCEPT ![p] = cmd[p].graph]
    /\ Goto(p, "save")
    /\ UNCHANGED <<yml_file, yml, db_file, db, cmd, backend, ids, todo, bounds, ghosts>>

-----------------------------------------------------------------------------
(* save_graph_auto *)

\* fs::write truncates the file, and an empty file parses to an empty graph ...
TruncateYaml(p) ==
    /\ pc[p] = "save"
    /\ backend[p] = "yaml"
    /\ yml_file' = "there"
    /\ yml' = NewGraph
    /\ Goto(p, "write")
    /\ Disturb(p)
    /\ UNCHANGED <<db_file, db, history, cmd, backend, mem, ids, todo, bounds, base>>

\* ... and writes it.
WriteYaml(p) ==
    /\ pc[p] = "write"
    /\ yml_file' = "there"
    /\ yml' = mem[p]
    /\ End(p)
    /\ Disturb(p)
    /\ UNCHANGED <<db_file, db, history, cmd, backend, mem, ids, todo, bounds, base>>

\* save_graph_to_sqlite opens the database, which creates it, and asks for the
\* ids outside of the transaction.
ReadOldIds(p) ==
    /\ pc[p] = "save"
    /\ backend[p] = "sqlite"
    /\ db_file' = TRUE
    /\ db' = IF db_file THEN db ELSE NewGraph
    /\ ids' = [ids EXCEPT ![p] = NodeIds(db')]
    /\ Goto(p, "commit")
    /\ UNCHANGED <<yml_file, yml, history, cmd, backend, mem, todo, bounds, ghosts>>

Commit(p) ==
    /\ pc[p] = "commit"
    /\ LET d == Batch(db, ids[p], mem[p])
       IN IF Refused(d)
          THEN /\ End(p)
               /\ UNCHANGED <<db, clean>>
          ELSE /\ db' = d
               /\ Disturb(p)
               /\ Goto(p, IF mem[p].project = NoProject THEN "idle" ELSE "name")
    /\ UNCHANGED <<yml_file, yml, db_file, history, cmd, backend, mem, ids, todo,
                   bounds, base>>

\* No description is saved as the empty one.
Text(description) == IF description = None THEN "" ELSE description

\* set_project_meta: two statements, each its own transaction.
SetName(p) ==
    /\ pc[p] = "name"
    /\ db' = [db EXCEPT !.project.name = mem[p].project.name]
    /\ Goto(p, "description")
    /\ Disturb(p)
    /\ UNCHANGED <<yml_file, yml, db_file, history, cmd, backend, mem, ids, todo,
                   bounds, base>>

SetDescription(p) ==
    /\ pc[p] = "description"
    /\ db' = [db EXCEPT !.project.description = Text(mem[p].project.description)]
    /\ End(p)
    /\ Disturb(p)
    /\ UNCHANGED <<yml_file, yml, db_file, history, cmd, backend, mem, ids, todo,
                   bounds, base>>

-----------------------------------------------------------------------------

\* gid init writes graph.yml, whatever backend the project has.
InitProject(p) ==
    /\ Restores
    /\ pc[p] = "idle"
    /\ yml_file = "absent"
    /\ typed < MaxCommands
    /\ typed' = typed + 1
    /\ yml_file' = "there"
    /\ yml' = [NewGraph EXCEPT !.project = [name |-> "p", description |-> "d"]]
    /\ Disturb(p)
    /\ UNCHANGED <<db_file, db, history, local, crashes, base>>

\* What a beginning of the file of g parses to, if it does: some of the nodes,
\* or all of them and some of the edges.
Cuts(g) ==
    {[g EXCEPT !.nodes = Restrict(@, some), !.edges = {}] : some \in SUBSET NodeIds(g)}
    \cup {[g EXCEPT !.edges = some] : some \in SUBSET g.edges}

\* The process is killed.  In the middle of the write the file is left empty, or
\* with a beginning of what was to be written.
Crash(p) ==
    /\ pc[p] # "idle"
    /\ crashes < MaxCrashes
    /\ crashes' = crashes + 1
    /\ End(p)
    /\ \/ UNCHANGED <<yml_file, yml, clean>>
       \/ /\ pc[p] = "write"
          /\ \/ yml_file' = "torn" /\ yml' = NewGraph
             \/ yml_file' = "there" /\ yml' \in Cuts(mem[p])
          /\ Disturb(p)
    /\ UNCHANGED <<db_file, db, history, cmd, backend, mem, ids, todo, typed, base>>

StoreStep(p) ==
    \/ Edit(p) \/ HistoryRestore(p) \/ HistorySave(p) \/ InitProject(p)
    \/ LoadYaml(p)
    \/ LoadProject(p) \/ LoadIds(p) \/ LoadNode(p) \/ LoadedNodes(p)
    \/ LoadEdges(p) \/ LoadedEdges(p)
    \/ Change(p) \/ Restore(p)
    \/ TruncateYaml(p) \/ WriteYaml(p)
    \/ ReadOldIds(p) \/ Commit(p) \/ SetName(p) \/ SetDescription(p)
    \/ Crash(p)

StoreNext == \E p \in Procs : StoreStep(p)

StoreSpec == StoreInit /\ [][StoreNext]_storeVars

-----------------------------------------------------------------------------
(* Properties *)

\* No edge in graph.db refers to a node that is not there, whatever a command
\* saves and whoever else saves between its statements (GUARD-2 of the
\* requirements; save_graph_to_sqlite believes it has turned the check off).
EdgesHaveEnds == Dangling(db) = {}

\* What a load that nobody disturbs returns of g: of the edges of graph.db with
\* the same ends and relation, one.
Loads(b, g) ==
    IF b = "sqlite" THEN {[g EXCEPT !.edges = kept] : kept \in Dedups(g.edges)} ELSE {g}

\* What a command may make of what the store held when it began.
Whole(p) ==
    IF cmd[p].op = "restore" THEN {cmd[p].graph}
    ELSE UNION {Outcomes(g, cmd[p]) : g \in Loads(backend[p], base[p])}

SameContent(g, h) == g.nodes = h.nodes /\ g.edges = h.edges

\* A save by p that nobody disturbed and that is not killed.
WholeEdit(p) ==
    clean[p] =>
        /\ pc[p] = "commit" /\ pc'[p] # "commit" /\ db' # db
             => \E g \in Whole(p) : db'.nodes = Rows(g.nodes) /\ db'.edges = g.edges
        /\ pc[p] = "write" /\ pc'[p] = "idle" /\ ~ Crash(p)
             => yml_file' = "there" /\ \E g \in Whole(p) : SameContent(yml', g)

\* A write of graph.db or graph.yml by a process nobody disturbed is exactly
\* the command applied to what a load gave when the command began: between the
\* load, the edit and the save nothing is added or left over, and nothing lost but
\* the second of two edges of graph.db with the same ends and relation.  After a
\* kill in the write, what a load gives is what the cut file parses to: the
\* command is whole, the graph it is applied to need not be the one before.
OnlyWholeEdits == [][\A p \in Procs : WholeEdit(p)]_storeVars

\* What the restore of p is to overwrite is among the snapshots.
Snapshotted(p) ==
    base[p].nodes # <<>> \/ base[p].edges # {} =>
        \E g \in ToSet(history), h \in Loads(backend[p], base[p]) : SameContent(g, h)

\* When a restore overwrites the graph, what it overwrites is among the
\* snapshots, also after crashes and with the oldest snapshots pruned.
RestoreKeepsWhatItReplaces ==
    [][\A p \in Procs :
         /\ cmd[p].op = "restore" /\ clean[p]
         /\ \/ pc[p] = "save" /\ pc'[p] = "write"
            \/ pc[p] = "commit" /\ pc'[p] # "commit"
         => Snapshotted(p)]_storeVars

====
