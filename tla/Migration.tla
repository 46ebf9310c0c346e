---- MODULE Migration ----
(***************************************************************************)
(* gid migrate: graph.yml into graph.db (storage/migration.rs and          *)
(* cmd_migrate in main.rs), beside the commands of GraphStore.  Nodes and  *)
(* edges go in in one transaction; removing the old database, creating the *)
(* new one and naming its project come before it, each on its own.         *)
(***************************************************************************)
EXTENDS GraphStore

\* A migration beside the open connection of another process, which would keep
\* the database file that the migration removes, is not modelled.
ASSUME AloneAssumption == \E p \in Procs : Procs = {p}

VARIABLES
    backups,   \* what .gid/backups holds
    report,    \* how the last migration of a process ended: None, "failed", "success"
    shown      \* history variable: what a load returned before it

migrateVars == <<backups, report, shown>>
vars == <<storeVars, migrateVars>>

KnownNodeTypes ==
    {"task", "file", "component", "feature", "layer", "code", "module",
     "class", "function", "method", "trait", "enum", "struct", "interface",
     "test", "config", "doc", "legacy"}

KnownRelations ==
    {"depends_on", "blocks", "subtask_of", "relates_to", "implements",
     "contains", "tests_for", "calls", "imports", "defined_in", "belongs_to",
     "maps_to", "overrides", "inherits", "documents", "extends", "specifies",
     "used_by"}

\* What refuses a migration that validates.  Dangling edges, self loops and
\* repeated ids are warnings.
ValidationErrors(g) ==
    ({g.nodes[id].type : id \in NodeIds(g)} \ (KnownNodeTypes \cup {None}))
    \cup ({e.relation : e \in g.edges} \ KnownRelations)

\* What the next command loads.
Loaded == Stored(DetectBackend)

Init ==
    /\ StoreInit
    /\ backups = {}
    /\ report = [p \in Procs |-> None]
    /\ shown = NewGraph

Fail(p) == End(p) /\ report' = [report EXCEPT ![p] = "failed"]

-----------------------------------------------------------------------------

\* Without --force the database must not be there; with it, it is removed before
\* anything is read.
Migrate(p) ==
    /\ pc[p] = "idle"
    /\ typed < MaxCommands
    /\ typed' = typed + 1
    /\ shown' = Loaded
    /\ \E force, validate \in BOOLEAN :
          /\ cmd' = [cmd EXCEPT ![p] = [op |-> "migrate", validate |-> validate]]
          /\ IF yml_file = "absent" \/ (db_file /\ ~ force)
             THEN /\ Fail(p)
                  /\ UNCHANGED <<db_file, db>>
             ELSE /\ db_file' = FALSE
                  /\ db' = NewGraph
                  /\ Goto(p, "parse")
                  /\ report' = [report EXCEPT ![p] = None]
    /\ UNCHANGED <<yml_file, yml, history, backend, mem, ids, todo, crashes,
                   ghosts, backups>>

Parse(p) ==
    /\ pc[p] = "parse"
    /\ \/ /\ yml_file = "torn"
          /\ Fail(p)
          /\ UNCHANGED mem
       \/ /\ yml_file = "there"
          /\ mem' = [mem EXCEPT ![p] = yml]
          /\ IF cmd[p].validate /\ ValidationErrors(yml) # {}
             THEN Fail(p)
             ELSE Goto(p, "backup") /\ UNCHANGED report
    /\ UNCHANGED <<files, cmd, backend, ids, todo, bounds, ghosts, backups, shown>>

Backup(p) ==
    /\ pc[p] = "backup"
    /\ backups' = backups \cup {mem[p]}
    /\ Goto(p, "open")
    /\ UNCHANGED <<files, cmd, backend, mem, ids, todo, bounds, ghosts, report,
                   shown>>

\* Creates the database.
OpenTarget(p) ==
    /\ pc[p] = "open"
    /\ db_file' = TRUE
    /\ Goto(p, IF mem[p].project = NoProject THEN "insert" ELSE "migrate-name")
    /\ UNCHANGED <<yml_file, yml, db, history, cmd, backend, mem, ids, todo,
                   bounds, ghosts, migrateVars>>

\* The name, and an empty description whatever the YAML says.
MigrateName(p) ==
    /\ pc[p] = "migrate-name"
    /\ db' = [db EXCEPT !.project.name = mem[p].project.name]
    /\ Goto(p, "migrate-description")
    /\ UNCHANGED <<yml_file, yml, db_file, history, cmd, backend, mem, ids, todo,
                   bounds, ghosts, migrateVars>>

MigrateDescription(p) ==
    /\ pc[p] = "migrate-description"
    /\ db' = [db EXCEPT !.project.description = Text(None)]
    /\ Goto(p, "insert")
    /\ UNCHANGED <<yml_file, yml, db_file, history, cmd, backend, mem, ids, todo,
                   bounds, ghosts, migrateVars>>

Insert(p) ==
    /\ pc[p] = "insert"
    /\ LET d == Batch(db, {}, mem[p])
       IN IF Refused(d)
          THEN Fail(p) /\ UNCHANGED db
          ELSE Goto(p, "verify") /\ db' = d /\ UNCHANGED report
    /\ UNCHANGED <<yml_file, yml, db_file, history, cmd, backend, mem, ids, todo,
                   bounds, ghosts, backups, shown>>

\* Mutant of Verified: the types are not compared.
CountsVerified(g, d) ==
    /\ Cardinality(NodeIds(d)) = Cardinality(NodeIds(g))
    /\ Cardinality(d.edges) = Cardinality(g.edges)

\* The counts, and then each node's fields and each edge (of at most twenty).
Verified(g, d) ==
    /\ Cardinality(NodeIds(d)) = Cardinality(NodeIds(g))
    /\ Cardinality(d.edges) = Cardinality(g.edges)
    /\ \A id \in NodeIds(g) :
          /\ id \in NodeIds(d)
          /\ d.nodes[id].type = g.nodes[id].type
          /\ d.nodes[id].status = g.nodes[id].status
    /\ \A e \in g.edges : \E f \in d.edges : SameEdge(e, f)

\* A database that fails the verification stays.
Verify(p) ==
    /\ pc[p] = "verify"
    /\ IF Verified(mem[p], db)
       THEN End(p) /\ report' = [report EXCEPT ![p] = "success"]
       ELSE Fail(p)
    /\ UNCHANGED <<files, cmd, backend, mem, ids, todo, bounds, ghosts, backups, shown>>

-----------------------------------------------------------------------------

MigrationStep(p) ==
    \/ Migrate(p) \/ Parse(p) \/ Backup(p) \/ OpenTarget(p) \/ MigrateName(p)
    \/ MigrateDescription(p) \/ Insert(p) \/ Verify(p)

\* A later command forgets the report.
Command(p) ==
    /\ StoreStep(p)
    /\ report' = [report EXCEPT ![p] = None]
    /\ UNCHANGED <<backups, shown>>

Next == \E p \in Procs : Command(p) \/ MigrationStep(p)

Spec == Init /\ [][Next]_vars

-----------------------------------------------------------------------------
(* Properties *)

\* A migration that reports success has put every node and every edge that
\* graph.yml parses to into graph.db, has named its project and has a backup of it; the
\* nodes keep their status, source and type (GUARD-3, but for the description).
\* A graph.yml cut by a killed save and still parsable is migrated as it parses.
MigratedIsWhole ==
    \A p \in Procs : report[p] = "success" =>
        /\ SameContent(db, yml)
        /\ db.project.name = yml.project.name
        /\ yml \in backups

\* "Insert | Backed up | Rolled back (tx) | Automatic - no user action", and
\* "Untouched" for a failed parse or validation: a migration that fails leaves
\* what the next command loads as it was.
FailedMigrationChangesNothing ==
    \A p \in Procs : report[p] = "failed" => SameContent(Loaded, shown)

====
