---- MODULE CodeSync ----
(***************************************************************************)
(* Keeping the code layer of the graph up to date: gid watch (watch.rs and *)
(* cmd_watch), gid extract (cmd_extract), and beside them a developer who  *)
(* changes files and a user whose commands change the project layer.       *)
(*                                                                         *)
(* The store is graph.yml or graph.db.  Its statements are in GraphStore;  *)
(* here graph.db is loaded and saved in one step each, and graph.yml is    *)
(* truncated and then written.  extract-meta.json remembers which contents *)
(* the last extraction saw.                                                *)
(***************************************************************************)
EXTENDS CodeGraph

CONSTANTS
    Contents,     \* file -> the contents it may have
    Tasks,        \* the tasks there may be
    Backends,     \* the backends a project may have
    FirstDisks,   \* the files there may be at first
    FirstTasks,   \* the tasks there are at first
    NoSemantify,  \* gid watch --no-semantify
    MaxEvents,    \* bound on what happens: a change of a file counts one; a
                  \* command, an extraction by hand or a kill counts two
    MaxCrashes    \* bound on the processes killed

Syncs == {"watch", "extract"}
Procs == Syncs \cup {"user"}

VARIABLES
    disk,      \* the source files and their contents
    meta_file, \* whether extract-meta.json is there and whole
    meta,      \* the contents it remembers
    backend,
    torn,      \* graph.yml is empty, or cut where it does not parse
    store,     \* the graph in the store
    pc,
    seen,      \* the metadata, then the files, that a sync has read
    prior,     \* the code graph it starts from, NoCode if there is none
    code,      \* the code graph it has extracted
    mem,       \* the graph in the memory of a process
    watching,  \* whether the watcher gets events
    event,     \* whether it has events to read
    happened, crashes,
    entered,   \* history variable: the tasks and links that commands have saved
    overlapped,\* history variable: a write, or a sync, came in the middle of other work
    missed     \* history variable: a file changed before the watcher got events

sync == <<seen, prior, code>>
files == <<disk, meta_file, meta>>
bounds == <<happened, crashes>>
watcher == <<watching, event>>
vars == <<files, backend, torn, store, pc, sync, mem, watcher, bounds,
          entered, overlapped, missed>>

Init ==
    /\ disk \in FirstDisks
    /\ meta_file = FALSE
    /\ meta = <<>>
    /\ backend \in Backends
    /\ torn = FALSE
    /\ store = [EmptyGraph EXCEPT !.tasks = FirstTasks]
    /\ pc = [p \in Procs |-> "off"]
    /\ seen = [p \in Syncs |-> <<>>]
    /\ prior = [p \in Syncs |-> NoCode]
    /\ code = [p \in Syncs |-> NoCode]
    /\ mem = [p \in Procs |-> EmptyGraph]
    /\ watching = FALSE
    /\ event = FALSE
    /\ happened = 0
    /\ crashes = 0
    /\ entered = [tasks |-> store.tasks, links |-> {}]
    /\ overlapped = FALSE
    /\ missed = FALSE

Goto(p, label) == pc' = [pc EXCEPT ![p] = label]
Happens(n) == happened + n <= MaxEvents /\ happened' = happened + n
Busy(p) == pc[p] \notin {"off", "waiting"}

\* Anyone else in the middle of something works with an old store from now on.
NoteOverlap(p) == overlapped' = (overlapped \/ \E q \in Procs \ {p} : Busy(q))

-----------------------------------------------------------------------------
(* The developer *)

Change ==
    /\ Happens(1)
    /\ \E f \in Files :
          \/ \E c \in Contents[f] : disk' = (f :> c) @@ disk
          \/ disk' = Restrict(disk, DOMAIN disk \ {f})
    /\ disk' # disk
    /\ event' = watching
    /\ missed' = (missed \/ (~ watching /\ pc["watch"] \notin {"off", "read", "walk"}))
    /\ UNCHANGED <<meta_file, meta, backend, torn, store, pc, sync, mem, watching,
                   crashes, entered, overlapped>>

-----------------------------------------------------------------------------
(* extract_incremental: metadata, graph.yml, files, metadata *)

\* The metadata and the code layer of graph.yml, never of graph.db; what is
\* missing, unreadable or without code, and --force, mean a full rebuild.
Read(p, force) ==
    /\ pc[p] = "read"
    /\ LET full == force \/ ~ meta_file \/ backend = "sqlite" \/ torn
                     \/ store.code.nodes = {}
       IN /\ seen' = [seen EXCEPT ![p] = IF full THEN <<>> ELSE meta]
          /\ prior' = [prior EXCEPT ![p] = IF full THEN NoCode ELSE store.code]
    /\ Goto(p, "walk")
    /\ overlapped' = (overlapped \/ \E q \in Syncs \ {p} : Busy(q))
    /\ UNCHANGED <<files, backend, torn, store, code, mem, watcher, bounds,
                   entered, missed>>

\* With no file changed the watcher is done and extract goes on with the code
\* it found in graph.yml.
Unchanged(p) ==
    /\ Goto(p, IF p = "watch" THEN "synced" ELSE "load")
    /\ code' = [code EXCEPT ![p] = IF p = "watch" THEN NoCode ELSE prior[p]]
    /\ seen' = [seen EXCEPT ![p] = <<>>]
    /\ prior' = [prior EXCEPT ![p] = NoCode]

\* The files are read, and the changed ones parsed.
Walk(p) ==
    /\ pc[p] = "walk"
    /\ IF prior[p] # NoCode /\ disk = seen[p]
       THEN Unchanged(p)
       ELSE /\ Goto(p, "meta")
            /\ seen' = [seen EXCEPT ![p] = disk]
            /\ UNCHANGED prior
            /\ code' = [code EXCEPT ![p] = IF prior[p] = NoCode THEN FullRebuild(disk)
                                           ELSE Incremental(prior[p], disk, seen[p])]
    /\ UNCHANGED <<files, backend, torn, store, mem, watcher, bounds,
                   entered, overlapped, missed>>

\* The watcher leaves the graph alone when a rebuild found no file at all.
SaveMeta(p) ==
    /\ pc[p] = "meta"
    /\ meta_file' = TRUE
    /\ meta' = seen[p]
    /\ Goto(p, IF p = "watch" /\ prior[p] = NoCode /\ seen[p] = <<>>
               THEN "synced" ELSE "load")
    /\ seen' = [seen EXCEPT ![p] = <<>>]
    /\ prior' = [prior EXCEPT ![p] = NoCode]
    /\ NoteOverlap(p)
    /\ UNCHANGED <<disk, backend, torn, store, code, mem, watcher, bounds,
                   entered, missed>>

-----------------------------------------------------------------------------
(* Merging the code layer into the store *)

\* A graph that does not load is taken for an empty one.
Load(p) ==
    /\ pc[p] = "load"
    /\ Goto(p, "save")
    /\ LET merged == MergeCodeLayer(IF torn THEN EmptyGraph ELSE store, code[p])
       IN mem' = [mem EXCEPT ![p] = IF p = "watch" /\ ~ NoSemantify
                                    THEN GenerateBridges(merged) ELSE merged]
    /\ code' = [code EXCEPT ![p] = NoCode]
    /\ prior' = [prior EXCEPT ![p] = NoCode]
    /\ UNCHANGED <<files, backend, torn, store, seen, watcher, bounds,
                   entered, overlapped, missed>>

\* extract saves once more, with the bridges, unless told not to.
Semantify(p) ==
    /\ pc[p] = "semantify"
    /\ \/ Goto(p, "off") /\ mem' = [mem EXCEPT ![p] = EmptyGraph]
       \/ Goto(p, "resave") /\ mem' = [mem EXCEPT ![p] = GenerateBridges(@)]
    /\ UNCHANGED <<files, backend, torn, store, sync, watcher, bounds,
                   entered, overlapped, missed>>

\* The foreign keys of graph.db refuse a link to code that is gone.
Refused(g) == backend = "sqlite" /\ \E l \in g.links : l[2] \notin g.code.nodes

Truncate(p) ==
    /\ pc[p] \in {"save", "resave"}
    /\ backend = "yaml"
    /\ torn' = TRUE
    /\ Goto(p, IF pc[p] = "save" THEN "write" ELSE "rewrite")
    /\ NoteOverlap(p)
    /\ UNCHANGED <<files, backend, store, sync, mem, watcher, bounds, entered, missed>>

Save(p) ==
    /\ IF backend = "yaml" THEN pc[p] \in {"write", "rewrite"}
       ELSE pc[p] \in {"save", "resave"}
    /\ torn' = FALSE
    /\ LET again == pc[p] \in {"save", "write"} /\ p = "extract" /\ ~ Refused(mem[p])
       IN /\ Goto(p, IF again THEN "semantify" ELSE IF p = "watch" THEN "synced" ELSE "off")
          /\ mem' = IF again THEN mem ELSE [mem EXCEPT ![p] = EmptyGraph]
    /\ store' = IF Refused(mem[p]) THEN store ELSE mem[p]
    /\ entered' = IF p = "user" /\ ~ Refused(mem[p])
                  THEN [tasks |-> mem[p].tasks, links |-> mem[p].links]
                  ELSE entered
    /\ NoteOverlap(p)
    /\ UNCHANGED <<files, backend, sync, watcher, bounds, missed>>

-----------------------------------------------------------------------------
(* gid watch: a sync, then the events, and a sync after each burst of them *)

StartWatch ==
    /\ pc["watch"] = "off"
    /\ Goto("watch", "read")
    /\ UNCHANGED <<files, backend, torn, store, sync, mem, watcher, bounds,
                   entered, overlapped, missed>>

\* Mutant of Synced: the events that came meanwhile are drained after the sync.
SyncedDrains ==
    /\ pc["watch"] = "synced"
    /\ watching' = TRUE
    /\ event' = FALSE
    /\ Goto("watch", "waiting")
    /\ UNCHANGED <<files, backend, torn, store, sync, mem, bounds,
                   entered, overlapped, missed>>

\* After the first sync the watcher is set up; the outcome of a sync, even a
\* failure, is only printed.
Synced ==
    /\ pc["watch"] = "synced"
    /\ watching' = TRUE
    /\ Goto("watch", "waiting")
    /\ UNCHANGED <<files, backend, torn, store, sync, mem, event, bounds,
                   entered, overlapped, missed>>

\* The first event, the debounce, and the drain of the others.
Wake ==
    /\ pc["watch"] = "waiting"
    /\ event
    /\ event' = FALSE
    /\ Goto("watch", "read")
    /\ UNCHANGED <<files, backend, torn, store, sync, mem, watching, bounds,
                   entered, overlapped, missed>>

StartExtract ==
    /\ pc["extract"] = "off"
    /\ Happens(2)
    /\ Goto("extract", "read")
    /\ UNCHANGED <<files, backend, torn, store, sync, mem, watcher, crashes,
                   entered, overlapped, missed>>

-----------------------------------------------------------------------------
(* A command that adds a task, or links one to a node of the code layer *)

\* An empty graph.yml is an empty graph to it.
UserLoad ==
    /\ pc["user"] = "off"
    /\ Happens(2)
    /\ LET g == IF torn THEN EmptyGraph ELSE store
       IN \/ \E t \in Tasks \ g.tasks :
                mem' = [mem EXCEPT !["user"] = [g EXCEPT !.tasks = @ \cup {t}]]
          \/ \E t \in g.tasks, x \in g.code.nodes :
                mem' = [mem EXCEPT !["user"] = [g EXCEPT !.links = @ \cup {<<t, x>>}]]
    /\ Goto("user", "save")
    /\ UNCHANGED <<files, backend, torn, store, sync, watcher, crashes,
                   entered, overlapped, missed>>

-----------------------------------------------------------------------------

\* What a beginning of the graph.yml of g parses to, if it does: some of the nodes,
\* or all of them and some of the edges; what comes of one file, and the edges of a
\* kind, are taken to be cut off together.
Cuts(g) ==
    LET codes == {CodeGraph({x \in g.code.nodes : x[2] \in named}, {}) :
                     named \in SUBSET {x[2] : x \in g.code.nodes}}
    IN {[tasks |-> some, links |-> {}, bridges |-> {}, code |-> kept] :
           some \in SUBSET g.tasks, kept \in codes}
       \cup {[g EXCEPT !.links = links, !.code.edges = edges, !.bridges = bridges] :
                links \in {{}, g.links}, edges \in {{}, g.code.edges},
                bridges \in {{}, g.bridges}}

\* A process is killed; a kill in the middle of writing extract-meta.json
\* leaves one that cannot be read, one in the middle of writing graph.yml an empty
\* or cut one.
Crash(p) ==
    /\ Busy(p) \/ pc[p] = "waiting"
    /\ Happens(2)
    /\ crashes < MaxCrashes
    /\ crashes' = crashes + 1
    /\ meta_file' \in IF pc[p] = "meta" THEN {meta_file, FALSE} ELSE {meta_file}
    /\ \/ UNCHANGED <<torn, store>>
       \/ pc[p] \in {"write", "rewrite"} /\ torn' = FALSE /\ store' \in Cuts(mem[p])
    /\ Goto(p, "off")
    /\ mem' = [mem EXCEPT ![p] = EmptyGraph]
    /\ IF p = "user" THEN UNCHANGED <<sync, watcher>>
       ELSE /\ seen' = [seen EXCEPT ![p] = <<>>]
            /\ prior' = [prior EXCEPT ![p] = NoCode]
            /\ code' = [code EXCEPT ![p] = NoCode]
            /\ watching' = (watching /\ p # "watch")
            /\ event' = (event /\ p # "watch")
    /\ UNCHANGED <<disk, meta, backend, entered, overlapped, missed>>

Sync(p) ==
    \/ Read(p, FALSE)
    \/ p = "extract" /\ Read(p, TRUE)
    \/ Walk(p) \/ SaveMeta(p) \/ Load(p) \/ Semantify(p)

Write(p) == Truncate(p) \/ Save(p)

WatchStep == Sync("watch") \/ Write("watch") \/ Synced \/ Wake

Next ==
    \/ Change
    \/ StartWatch \/ WatchStep
    \/ StartExtract \/ Sync("extract") \/ Write("extract")
    \/ UserLoad \/ Write("user")
    \/ \E p \in Procs : Crash(p)

\* The watcher goes on; nobody has to start anything, change a file or crash,
\* and a command or an extraction by hand may hang.
Spec == Init /\ [][Next]_vars /\ WF_vars(WatchStep)

-----------------------------------------------------------------------------
(* Properties *)

Quiet == \A p \in Procs : ~ Busy(p)
CodeIn(g) == {x \in g.code.nodes : x[1] # "module"}

\* Every task and link that a command has saved is in the store, however many
\* extractions have replaced the code layer since, as long as nobody saves in
\* the middle of somebody else's work (GUARD-1 of the unified graph's
\* requirements); in graph.db also after crashes.
TasksStay ==
    (~ torn /\ ~ overlapped /\ (backend = "yaml" => crashes = 0)) =>
        store.tasks = entered.tasks /\ store.links = entered.links

\* Whatever happens, no code edge and no bridge in the store has an end that is
\* not there.
NoDanglingCode ==
    /\ Within(store.code.edges, store.code.nodes) = store.code.edges
    /\ store.bridges \subseteq store.tasks \X store.code.nodes

\* What extract-meta.json says was extracted is what graph.yml holds, so that a
\* later run which finds no file changed has nothing to do: through additions,
\* changes and deletions, incremental or not, by the watcher or by hand.
MetadataTellsTheTruth ==
    (backend = "yaml" /\ Quiet /\ meta_file /\ ~ overlapped /\ crashes = 0) =>
        CodeIn(store) = EntitiesOf(meta)

\* graph.db cannot be saved while a task links to code that is gone.
Wedged == \E l \in store.links : l[2] \notin Modules(disk) \cup EntitiesOf(disk)

\* Once the files no longer change, a watcher brings the code layer up to date
\* with them and leaves it so, unless it is killed, another process works at
\* the same time as a sync, or a file changed between the first sync and the
\* registration for events.
WatchCatchesUp ==
    [](crashes = 0 /\ ~ overlapped /\ ~ missed) =>
        <>[](\/ pc["watch"] = "off"
             \/ CodeIn(store) = EntitiesOf(disk)
             \/ DOMAIN disk = {}
             \/ backend = "sqlite" /\ Wedged)

\* When all are done, the tasks a project had before are still there: only a command
\* removes a task, and none here does (GUARD-1).
ExtractKeepsTasks == Quiet => FirstTasks \subseteq store.tasks

====
