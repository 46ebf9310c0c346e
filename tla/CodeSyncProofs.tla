---- MODULE CodeSyncProofs ----
(***************************************************************************)
(* Theorems about keeping the code layer up to date (CodeSync), for any    *)
(* files, contents, tasks and bounds: what an incremental extraction       *)
(* leaves in the graph, and the safety of the watcher, an extraction by    *)
(* hand, a user's commands and a developer beside each other.              *)
(***************************************************************************)
EXTENDS CodeSync, TLAPS

-----------------------------------------------------------------------------
(* What is in the files is in the code graph *)

\* What comes from a file; only modules come from none.
FromFiles(nodes) == {x \in nodes : x[1] # "module"}

IsCode(c) == c = CodeGraph(c.nodes, c.edges)

IsGraph(g) ==
    /\ g = [tasks |-> g.tasks, links |-> g.links, code |-> g.code, bridges |-> g.bridges]
    /\ IsCode(g.code)

LEMMA EntityFile ==
  ASSUME NEW f, NEW c, NEW x \in Entities(f, c)
  PROVE  x[1] \in {"file", "func", "class"} /\ x[2] = f
  <1>1. CASE x = File(f)
    BY <1>1 DEF File
  <1>2. ASSUME NEW n, x = Func(f, n) PROVE x[1] \in {"file", "func", "class"} /\ x[2] = f
    BY <1>2 DEF Func
  <1>3. ASSUME NEW t, x = Class(f, t) PROVE x[1] \in {"file", "func", "class"} /\ x[2] = f
    BY <1>3 DEF Class
  <1> QED
    BY <1>1, <1>2, <1>3 DEF Entities

LEMMA EntitiesFromFiles ==
  ASSUME NEW some
  PROVE  FromFiles(EntitiesOf(some)) = EntitiesOf(some)
  BY EntityFile DEF FromFiles, EntitiesOf

LEMMA NothingInNoFile == EntitiesOf(<<>>) = {}
  BY DEF EntitiesOf

\* A full extraction has what is in the files.
LEMMA FullRebuildTrue ==
  ASSUME NEW now
  PROVE  IsCode(FullRebuild(now)) /\ FromFiles(FullRebuild(now).nodes) = EntitiesOf(now)
  <1>1. FullRebuild(now).nodes = Modules(now) \cup EntitiesOf(now)
    BY DEF FullRebuild, CodeGraph
  <1>2. FromFiles(Modules(now)) = {}
    <2>1. ASSUME NEW p PROVE Module(p)[1] = "module"
      BY DEF Module
    <2> QED
      BY <2>1 DEF FromFiles, Modules
  <1>3. FromFiles(EntitiesOf(now)) = EntitiesOf(now)
    BY EntitiesFromFiles
  <1>4. IsCode(FullRebuild(now))
    BY DEF IsCode, FullRebuild, CodeGraph
  <1> QED
    BY <1>1, <1>2, <1>3, <1>4 DEF FromFiles


LEMMA IncrementalIsCode ==
  ASSUME NEW old, NEW now, NEW was
  PROVE  LET delta == Delta(now, was)
             parsed == Restrict(now, delta.added \cup delta.modified)
             nodes == (old.nodes \ Stale(delta, was)) \cup EntitiesOf(parsed)
         IN /\ IsCode(Incremental(old, now, was))
            /\ Incremental(old, now, was).nodes
                 = {x \in nodes : x[1] = "file" => x[2] \in DOMAIN now}
  <1> DEFINE delta == Delta(now, was)
             parsed == Restrict(now, delta.added \cup delta.modified)
             nodes == (old.nodes \ Stale(delta, was)) \cup EntitiesOf(parsed)
  <1>1. \E edges : Incremental(old, now, was) = WithoutPhantoms(CodeGraph(nodes, edges), now)
    BY Zenon DEF Incremental
  <1> HIDE DEF nodes
  <1>2. ASSUME NEW some, NEW edges
        PROVE  IsCode(CodeGraph(some, edges)) /\ CodeGraph(some, edges).nodes = some
    BY DEF CodeGraph, IsCode
  <1>3. ASSUME NEW edges
        PROVE  /\ IsCode(WithoutPhantoms(CodeGraph(nodes, edges), now))
               /\ WithoutPhantoms(CodeGraph(nodes, edges), now).nodes
                    = {x \in nodes : x[1] = "file" => x[2] \in DOMAIN now}
    BY <1>2 DEF WithoutPhantoms
  <1>4. /\ IsCode(Incremental(old, now, was))
        /\ Incremental(old, now, was).nodes
             = {x \in nodes : x[1] = "file" => x[2] \in DOMAIN now}
    BY <1>1, <1>3
  <1> QED
    BY <1>4 DEF nodes

\* An incremental extraction too, if the graph it starts from has what is in the
\* files that the metadata remembers.
LEMMA IncrementalTrue ==
  ASSUME NEW old, NEW now, NEW was, FromFiles(old.nodes) = EntitiesOf(was)
  PROVE  /\ IsCode(Incremental(old, now, was))
         /\ FromFiles(Incremental(old, now, was).nodes) = EntitiesOf(now)
  <1> DEFINE delta == Delta(now, was)
             kept == old.nodes \ Stale(delta, was)
             parsed == Restrict(now, delta.added \cup delta.modified)
             nodes == kept \cup EntitiesOf(parsed)
             new == Incremental(old, now, was)
             there == {x \in nodes : x[1] = "file" => x[2] \in DOMAIN now}
  <1>1. /\ delta.added = DOMAIN now \ DOMAIN was
        /\ delta.modified = {f \in DOMAIN now \cap DOMAIN was : now[f] # was[f]}
        /\ delta.deleted = DOMAIN was \ DOMAIN now
    BY DEF Delta
  <1>2. IsCode(new) /\ new.nodes = there
    BY IncrementalIsCode
  <1> HIDE DEF delta, new
  <1>3. ASSUME NEW x \in EntitiesOf(now) PROVE x \in FromFiles(there)
    <2>1. PICK f \in DOMAIN now : x \in Entities(f, now[f])
      BY DEF EntitiesOf
    <2>2. x[1] \in {"file", "func", "class"} /\ x[2] = f
      BY <2>1, EntityFile
    <2>3. CASE f \in delta.added \cup delta.modified
      <3>1. f \in DOMAIN parsed /\ parsed[f] = now[f]
        BY <2>3 DEF Restrict
      <3>2. x \in EntitiesOf(parsed)
        BY <2>1, <3>1 DEF EntitiesOf
      <3> QED
        BY <2>2, <3>2 DEF FromFiles
    <2>4. CASE f \notin delta.added \cup delta.modified
      <3>1. f \in DOMAIN was /\ was[f] = now[f]
        BY <1>1, <2>4
      <3>2. x \in EntitiesOf(was)
        BY <2>1, <3>1 DEF EntitiesOf
      <3>3. x \in old.nodes
        BY <3>2 DEF FromFiles
      <3>4. x \notin Stale(delta, was)
        <4> SUFFICES ASSUME x \in Stale(delta, was) PROVE FALSE
          OBVIOUS
        <4>1. PICK h \in delta.modified \cup delta.deleted : x \in {File(h)} \cup Entities(h, was[h])
          BY DEF Stale
        <4>2. File(h)[2] = h
          BY DEF File
        <4>3. x[2] = h
          BY <4>1, <4>2, EntityFile
        <4> QED
          BY <1>1, <2>2, <2>4, <3>1, <4>3
      <3> QED
        BY <2>2, <3>3, <3>4 DEF FromFiles
    <2> QED
      BY <2>3, <2>4
  <1>4. ASSUME NEW x \in FromFiles(there) PROVE x \in EntitiesOf(now)
    <2>1. CASE x \in EntitiesOf(parsed)
      <3>1. PICK f \in DOMAIN parsed : x \in Entities(f, parsed[f])
        BY <2>1 DEF EntitiesOf
      <3>2. f \in DOMAIN now /\ parsed[f] = now[f]
        BY <1>1, <3>1 DEF Restrict
      <3> QED
        BY <3>1, <3>2 DEF EntitiesOf
    <2>2. CASE x \in kept
      <3>1. x \in EntitiesOf(was)
        BY <2>2 DEF FromFiles
      <3>2. PICK f \in DOMAIN was : x \in Entities(f, was[f])
        BY <3>1 DEF EntitiesOf
      <3>3. f \notin delta.modified \cup delta.deleted
        BY <2>2, <3>2 DEF Stale
      <3>4. f \in DOMAIN now /\ now[f] = was[f]
        BY <1>1, <3>2, <3>3
      <3> QED
        BY <3>2, <3>4 DEF EntitiesOf
    <2> QED
      BY <2>1, <2>2 DEF FromFiles
  <1> QED
    BY <1>2, <1>3, <1>4 DEF new


\* Whatever changed between two extractions: the second, incremental, has of the
\* files exactly what a full rebuild has.
THEOREM IncrementalIsFull ==
  ASSUME NEW old, NEW now, NEW was, FromFiles(old.nodes) = EntitiesOf(was)
  PROVE  FromFiles(Incremental(old, now, was).nodes) = FromFiles(FullRebuild(now).nodes)
  BY IncrementalTrue, FullRebuildTrue

-----------------------------------------------------------------------------
(* The inductive invariant *)

Writing == {"write", "rewrite"}
Holding == {"save", "write", "semantify", "resave", "rewrite"}
Idle == {"off", "waiting"}

TypeInv ==
    /\ DOMAIN pc = Procs /\ DOMAIN mem = Procs
    /\ DOMAIN seen = Syncs /\ DOMAIN prior = Syncs /\ DOMAIN code = Syncs
    /\ pc["user"] \in {"off", "save", "write"}
    /\ crashes \in Nat
    /\ torn => backend = "yaml"
    /\ backend # "yaml" => \A p \in Procs : pc[p] \notin Writing

\* No edge and no bridge has an end that is not there.
Sound(g) ==
    /\ Within(g.code.edges, g.code.nodes) = g.code.edges
    /\ g.bridges \subseteq g.tasks \X g.code.nodes

GraphsInv ==
    /\ IsGraph(store) /\ Sound(store)
    /\ \A p \in Procs : IsGraph(mem[p]) /\ Sound(mem[p])
    /\ \A p \in Syncs : IsCode(prior[p]) /\ IsCode(code[p])

Undisturbed == ~ overlapped /\ (backend = "yaml" => crashes = 0)

HasEntered(g) == g.tasks = entered.tasks /\ g.links = entered.links

\* The store and every sync that holds a graph have what was entered; one that
\* loaded a truncated graph.yml has not, but then its writer is still there.
Entered ==
    /\ HasEntered(store)
    /\ torn => \E q \in Procs : pc[q] \in Writing
    /\ \A p \in Syncs : pc[p] \in Holding =>
          HasEntered(mem[p]) \/ \E q \in Procs \ {p} : pc[q] \in Writing

TasksInv == Undisturbed => Entered

Calm == backend = "yaml" /\ ~ overlapped /\ crashes = 0

Agrees(c) == FromFiles(c.nodes) = EntitiesOf(meta)

\* Where a sync is between reading the metadata and saving the graph.
SyncInv(p) ==
    /\ pc[p] = "walk" /\ prior[p] # NoCode =>
          meta_file /\ seen[p] = meta /\ prior[p] = store.code
    /\ pc[p] \in {"walk", "meta"} /\ prior[p] = NoCode /\ p = "watch" =>
          store.code.nodes = {} \/ pc["user"] = "write"
    /\ pc[p] = "meta" => FromFiles(code[p].nodes) = EntitiesOf(seen[p])
    /\ pc[p] = "load" => meta_file /\ Agrees(code[p])
    /\ pc[p] \in Holding => meta_file /\ Agrees(mem[p].code)

\* A command that took a truncated graph.yml for an empty graph has its writer beside it.
InStep ==
    /\ \A p, q \in Syncs : p # q =>
          pc[p] \in Idle \cup {"read"} \/ pc[q] \in Idle \cup {"read"}
    /\ pc["user"] # "off" =>
          mem["user"].code = store.code \/ \E q \in Syncs : pc[q] \in Writing
    /\ torn => \E q \in Procs : pc[q] \in Writing
    /\ ~ meta_file => store.code.nodes = {}
    /\ meta_file => \/ Agrees(store.code)
                    \/ \E p \in Syncs : pc[p] \in {"load", "save", "write"}
    /\ \A p \in Syncs : SyncInv(p)

MetaInv == Calm => InStep

Inv == TypeInv /\ GraphsInv /\ TasksInv /\ MetaInv

-----------------------------------------------------------------------------
(* The types *)

LEMMA InitInv == Init => Inv
  <1> SUFFICES ASSUME Init PROVE Inv
    OBVIOUS
  <1>1. IsCode(NoCode) /\ IsGraph(EmptyGraph) /\ Sound(EmptyGraph)
    BY DEF IsCode, NoCode, CodeGraph, IsGraph, EmptyGraph, Sound, Within
  <1>2. IsGraph(store) /\ Sound(store) /\ store.tasks = FirstTasks /\ store.links = {}
        /\ store.code = NoCode
    BY <1>1 DEF Init, EmptyGraph, IsGraph, Sound
  <1>3. TypeInv
    BY DEF Init, TypeInv, Writing, Procs, Syncs
  <1>4. GraphsInv
    BY <1>1, <1>2 DEF Init, GraphsInv
  <1>5. TasksInv
    BY <1>2 DEF Init, TasksInv, Entered, HasEntered, Holding, Procs
  <1>6. MetaInv
    BY <1>2 DEF Init, MetaInv, InStep, Idle, SyncInv, Holding, NoCode, CodeGraph, Procs, Syncs
  <1> QED
    BY <1>3, <1>4, <1>5, <1>6 DEF Inv

LEMMA StepType == TypeInv /\ [Next]_vars => TypeInv'
  <1> SUFFICES ASSUME TypeInv, [Next]_vars PROVE TypeInv'
    OBVIOUS
  <1> USE DEF TypeInv, Goto, Happens, Procs, Syncs, Writing, files, sync, bounds, watcher
  <1>1. CASE UNCHANGED vars
    BY <1>1 DEF vars
  <1>2. CASE Change
    BY <1>2 DEF Change
  <1>3. CASE StartWatch
    BY <1>3 DEF StartWatch
  <1>4. CASE Synced \/ Wake
    BY <1>4 DEF Synced, Wake
  <1>5. CASE StartExtract
    BY <1>5 DEF StartExtract
  <1>6. CASE UserLoad
    BY <1>6 DEF UserLoad
  <1>7. ASSUME NEW p \in Procs, Crash(p) PROVE TypeInv'
    BY <1>7 DEF Crash
  <1>8. ASSUME NEW p \in Syncs, Sync(p) PROVE TypeInv'
    <2>1. ASSUME NEW force, Read(p, force) PROVE TypeInv'
      BY <1>8, <2>1 DEF Read
    <2>2. CASE Walk(p)
      BY <1>8, <2>2 DEF Walk, Unchanged
    <2>3. CASE SaveMeta(p)
      BY <1>8, <2>3 DEF SaveMeta
    <2>4. CASE Load(p)
      BY <1>8, <2>4 DEF Load
    <2>5. CASE Semantify(p)
      BY <1>8, <2>5 DEF Semantify
    <2> QED
      BY <1>8, <2>1, <2>2, <2>3, <2>4, <2>5 DEF Sync
  <1>9. ASSUME NEW p \in Procs, Write(p) PROVE TypeInv'
    <2>1. CASE Truncate(p)
      BY <1>9, <2>1 DEF Truncate
    <2>2. CASE Save(p)
      BY <1>9, <2>2 DEF Save
    <2> QED
      BY <1>9, <2>1, <2>2 DEF Write
  <1> QED
    BY <1>1, <1>2, <1>3, <1>4, <1>5, <1>6, <1>7, <1>8, <1>9 DEF Next, WatchStep

-----------------------------------------------------------------------------
(* Graphs *)

LEMMA EmptyIsGraph ==
  IsCode(NoCode) /\ IsGraph(EmptyGraph) /\ Sound(EmptyGraph)
  BY DEF IsCode, NoCode, CodeGraph, IsGraph, EmptyGraph, Sound, Within

\* A merge leaves the tasks and links and the nodes of the new layer.
LEMMA MergeIsSound ==
  ASSUME NEW g, IsGraph(g), NEW c, IsCode(c)
  PROVE  /\ IsGraph(MergeCodeLayer(g, c)) /\ Sound(MergeCodeLayer(g, c))
         /\ MergeCodeLayer(g, c).tasks = g.tasks /\ MergeCodeLayer(g, c).links = g.links
         /\ MergeCodeLayer(g, c).code.nodes = c.nodes
  <1> DEFINE pruned == CodeGraph(c.nodes, Within(c.edges, c.nodes))
  <1>1. Pruned(c) = pruned
    BY DEF Pruned, IsCode, CodeGraph
  <1>2. pruned.nodes = c.nodes /\ Within(pruned.edges, pruned.nodes) = pruned.edges
        /\ IsCode(pruned)
    BY DEF Within, CodeGraph, IsCode
  <1> HIDE DEF pruned
  <1>3. MergeCodeLayer(g, c) = [g EXCEPT !.code = pruned, !.bridges = {}]
    BY <1>1 DEF MergeCodeLayer
  <1>4. MergeCodeLayer(g, c)
          = [tasks |-> g.tasks, links |-> g.links, code |-> pruned, bridges |-> {}]
    BY <1>3 DEF IsGraph
  <1> QED
    BY <1>2, <1>4 DEF IsGraph, Sound

LEMMA BridgesAreSound ==
  ASSUME NEW g, IsGraph(g), Sound(g)
  PROVE  /\ IsGraph(GenerateBridges(g)) /\ Sound(GenerateBridges(g))
         /\ GenerateBridges(g).tasks = g.tasks /\ GenerateBridges(g).links = g.links
         /\ GenerateBridges(g).code = g.code
  <1> DEFINE bridges == UNION {{<<t, x>> : x \in {x \in g.code.nodes : x[2] \in Named[t]}} :
                                  t \in g.tasks}
  <1>1. bridges \subseteq g.tasks \X g.code.nodes
    OBVIOUS
  <1>2. GenerateBridges(g) = [g EXCEPT !.bridges = bridges]
    BY DEF GenerateBridges
  <1> HIDE DEF bridges
  <1>3. GenerateBridges(g)
          = [tasks |-> g.tasks, links |-> g.links, code |-> g.code, bridges |-> bridges]
    BY <1>2 DEF IsGraph
  <1> QED
    BY <1>1, <1>3 DEF IsGraph, Sound

\* What a command adds.
LEMMA EnteredIsSound ==
  ASSUME NEW g, IsGraph(g), Sound(g), NEW h,
         \/ \E t : h = [g EXCEPT !.tasks = @ \cup {t}]
         \/ \E l : h = [g EXCEPT !.links = @ \cup {l}]
  PROVE  IsGraph(h) /\ Sound(h) /\ h.code = g.code
  <1>1. g = [tasks |-> g.tasks, links |-> g.links, code |-> g.code, bridges |-> g.bridges]
    BY DEF IsGraph
  <1>2. ASSUME NEW t, h = [g EXCEPT !.tasks = @ \cup {t}]
        PROVE  IsGraph(h) /\ Sound(h) /\ h.code = g.code
    <2>1. h = [tasks |-> g.tasks \cup {t}, links |-> g.links, code |-> g.code,
               bridges |-> g.bridges]
      BY <1>1, <1>2
    <2> QED
      BY <2>1 DEF IsGraph, Sound
  <1>3. ASSUME NEW l, h = [g EXCEPT !.links = @ \cup {l}]
        PROVE  IsGraph(h) /\ Sound(h) /\ h.code = g.code
    <2>1. h = [tasks |-> g.tasks, links |-> g.links \cup {l}, code |-> g.code,
               bridges |-> g.bridges]
      BY <1>1, <1>3
    <2> QED
      BY <2>1 DEF IsGraph, Sound
  <1> QED
    BY <1>2, <1>3

\* What is left of a graph.yml that was cut.
LEMMA CutIsSound ==
  ASSUME NEW g, IsGraph(g), Sound(g), NEW h \in Cuts(g)
  PROVE  IsGraph(h) /\ Sound(h)
  <1>1. ASSUME NEW tasks, NEW nodes,
               h = [tasks |-> tasks, links |-> {}, bridges |-> {},
                    code |-> CodeGraph(nodes, {})]
        PROVE  IsGraph(h) /\ Sound(h)
    BY <1>1 DEF IsGraph, Sound, IsCode, CodeGraph, Within
  <1>2. ASSUME NEW links, NEW edges \in {{}, g.code.edges}, NEW bridges \in {{}, g.bridges},
               h = [g EXCEPT !.links = links, !.code.edges = edges, !.bridges = bridges]
        PROVE  IsGraph(h) /\ Sound(h)
    <2>1. g = [tasks |-> g.tasks, links |-> g.links, code |-> g.code, bridges |-> g.bridges]
          /\ g.code = [nodes |-> g.code.nodes, edges |-> g.code.edges]
      BY DEF IsGraph, IsCode, CodeGraph
    <2>2. h = [tasks |-> g.tasks, links |-> links, bridges |-> bridges,
               code |-> [nodes |-> g.code.nodes, edges |-> edges]]
      BY <1>2, <2>1
    <2>3. IsGraph(h)
      BY <2>2 DEF IsGraph, IsCode, CodeGraph
    <2>4. Within(edges, g.code.nodes) = edges
      BY DEF Sound, Within
    <2>5. bridges \subseteq g.tasks \X g.code.nodes
      BY DEF Sound
    <2> QED
      BY <2>2, <2>3, <2>4, <2>5 DEF Sound
  <1> DEFINE codes == {CodeGraph({x \in g.code.nodes : x[2] \in named}, {}) :
                          named \in SUBSET {x[2] : x \in g.code.nodes}}
             nodesCut == {[tasks |-> some, links |-> {}, bridges |-> {}, code |-> kept] :
                             some \in SUBSET g.tasks, kept \in codes}
             edgesCut == {[g EXCEPT !.links = links, !.code.edges = edges,
                                    !.bridges = bridges] :
                             links \in {{}, g.links}, edges \in {{}, g.code.edges},
                             bridges \in {{}, g.bridges}}
  <1>3. CASE h \in nodesCut
    <2> HIDE DEF codes
    <2>1. PICK some \in SUBSET g.tasks, kept \in codes :
            h = [tasks |-> some, links |-> {}, bridges |-> {}, code |-> kept]
      BY <1>3
    <2>2. \E nodes : kept = CodeGraph(nodes, {})
      BY DEF codes
    <2> QED
      BY <1>1, <2>1, <2>2
  <1>4. CASE h \in edgesCut
    <2>1. PICK links \in {{}, g.links}, edges \in {{}, g.code.edges}, bridges \in {{}, g.bridges} :
            h = [g EXCEPT !.links = links, !.code.edges = edges, !.bridges = bridges]
      BY <1>4
    <2> QED
      BY <1>2, <2>1
  <1>5. Cuts(g) = nodesCut \cup edgesCut
    BY DEF Cuts
  <1> HIDE DEF codes, nodesCut, edgesCut
  <1> QED
    BY <1>3, <1>4, <1>5

LEMMA StepGraphs == TypeInv /\ GraphsInv /\ [Next]_vars => GraphsInv'
  <1> SUFFICES ASSUME TypeInv, GraphsInv, [Next]_vars PROVE GraphsInv'
    OBVIOUS
  <1> USE DEF TypeInv, GraphsInv, files, sync, bounds, watcher
  <1>1. CASE UNCHANGED <<store, mem, prior, code>>
    BY <1>1
  <1>2. CASE UNCHANGED vars \/ Change \/ StartWatch \/ Synced \/ Wake \/ StartExtract
    BY <1>1, <1>2 DEF vars, Change, StartWatch, Synced, Wake, StartExtract
  <1>3. CASE UserLoad
    <2>1. PICK h : /\ mem' = [mem EXCEPT !["user"] = h]
                   /\ \E g \in {EmptyGraph, store} :
                         \/ \E t : h = [g EXCEPT !.tasks = @ \cup {t}]
                         \/ \E l : h = [g EXCEPT !.links = @ \cup {l}]
      BY <1>3 DEF UserLoad
    <2>2. IsGraph(h) /\ Sound(h)
      BY <2>1, EnteredIsSound, EmptyIsGraph
    <2>3. UNCHANGED <<store, prior, code>>
      BY <1>3 DEF UserLoad
    <2> QED
      BY <2>1, <2>2, <2>3
  <1>4. ASSUME NEW p \in Procs, Crash(p) PROVE GraphsInv'
    <2>1. IsGraph(store') /\ Sound(store')
      BY <1>4, CutIsSound DEF Crash
    <2>2. ASSUME NEW q \in Procs PROVE IsGraph(mem'[q]) /\ Sound(mem'[q])
      BY <1>4, EmptyIsGraph DEF Crash
    <2>3. ASSUME NEW q \in Syncs PROVE IsCode(prior'[q]) /\ IsCode(code'[q])
      BY <1>4, EmptyIsGraph DEF Crash
    <2> QED
      BY <2>1, <2>2, <2>3
  <1>5. ASSUME NEW p \in Syncs, Sync(p) PROVE GraphsInv'
    <2>1. ASSUME NEW force, Read(p, force) PROVE GraphsInv'
      <3>1. IsCode(prior'[p])
        BY <1>5, <2>1, EmptyIsGraph DEF Read, IsGraph
      <3> QED
        BY <2>1, <3>1 DEF Read
    <2>2. CASE Walk(p)
      <3>1. IsCode(FullRebuild(disk)) /\ IsCode(Incremental(prior[p], disk, seen[p]))
        BY FullRebuildTrue, IncrementalIsCode
      <3>2. IsCode(prior'[p]) /\ IsCode(code'[p])
        BY <1>5, <2>2, <3>1, EmptyIsGraph DEF Walk, Unchanged
      <3> QED
        BY <2>2, <3>2 DEF Walk, Unchanged
    <2>3. CASE SaveMeta(p)
      BY <2>3, EmptyIsGraph DEF SaveMeta
    <2>4. CASE Load(p)
      <3> DEFINE merged == MergeCodeLayer(IF torn THEN EmptyGraph ELSE store, code[p])
      <3>1. IsGraph(merged) /\ Sound(merged)
        BY <1>5, EmptyIsGraph, MergeIsSound
      <3>2. p \in Procs
        BY <1>5 DEF Procs
      <3>3. mem' = [mem EXCEPT ![p] = IF p = "watch" /\ ~ NoSemantify
                                      THEN GenerateBridges(merged) ELSE merged]
        BY <2>4 DEF Load
      <3> HIDE DEF merged
      <3>4. IsGraph(mem'[p]) /\ Sound(mem'[p])
        BY <3>1, <3>2, <3>3, BridgesAreSound
      <3>5. store' = store /\ code' = [code EXCEPT ![p] = NoCode]
            /\ prior' = [prior EXCEPT ![p] = NoCode]
        BY <2>4 DEF Load
      <3> QED
        BY <3>3, <3>4, <3>5, EmptyIsGraph
    <2>5. CASE Semantify(p)
      <3>1. p \in Procs
        BY <1>5 DEF Procs
      <3>2. IsGraph(mem'[p]) /\ Sound(mem'[p])
        BY <2>5, <3>1, EmptyIsGraph, BridgesAreSound DEF Semantify
      <3> QED
        BY <2>5, <3>1, <3>2 DEF Semantify
    <2> QED
      BY <1>5, <2>1, <2>2, <2>3, <2>4, <2>5 DEF Sync
  <1>6. ASSUME NEW p \in Procs, Write(p) PROVE GraphsInv'
    <2>1. CASE Truncate(p)
      BY <1>1, <2>1 DEF Truncate
    <2>2. CASE Save(p)
      BY <1>6, <2>2, EmptyIsGraph DEF Save
    <2> QED
      BY <1>6, <2>1, <2>2 DEF Write
  <1> QED
    BY <1>2, <1>3, <1>4, <1>5, <1>6 DEF Next, WatchStep, Procs, Syncs

-----------------------------------------------------------------------------
(* Tasks *)

\* Nobody else is in the middle of something when p writes unnoticed.
LEMMA NobodyElse ==
  ASSUME NEW p, NoteOverlap(p), ~ overlapped'
  PROVE  ~ overlapped /\ \A q \in Procs \ {p} : pc[q] \in Idle
  BY DEF NoteOverlap, Busy, Idle

\* What an undisturbed step had before it.
LEMMA StillCalm ==
  ASSUME TypeInv, [Next]_vars
  PROVE  /\ Undisturbed' => Undisturbed
         /\ Calm' => Calm
         /\ \A p \in Procs : Crash(p) => ~ Calm' /\ (Undisturbed' => backend # "yaml")
  <1>1. ASSUME NEW p \in Procs, Crash(p)
        PROVE  ~ Calm' /\ (Undisturbed' => backend # "yaml" /\ Undisturbed)
    BY <1>1 DEF Crash, TypeInv, Undisturbed, Calm
  <1>2. ASSUME overlapped => overlapped', backend' = backend, crashes' = crashes
        PROVE  (Undisturbed' => Undisturbed) /\ (Calm' => Calm)
    <2>1. backend' = backend /\ crashes' = crashes
      BY <1>2, Zenon
    <2>2. ~ overlapped' => ~ overlapped
      BY <1>2, Zenon
    <2>3. (backend' = "yaml" => crashes' = 0) => (backend = "yaml" => crashes = 0)
      BY <2>1
    <2>4. Undisturbed' => Undisturbed
      BY <2>2, <2>3, Zenon DEF Undisturbed
    <2>5. backend' = "yaml" /\ crashes' = 0 => backend = "yaml" /\ crashes = 0
      BY <2>1
    <2>6. Calm' => Calm
      BY <2>2, <2>5, Zenon DEF Calm
    <2> QED
      BY <2>4, <2>6
  <1> USE DEF files, sync, bounds, watcher
  <1>3. ASSUME UNCHANGED vars \/ Change \/ StartWatch \/ Synced \/ Wake \/ StartExtract
               \/ UserLoad
        PROVE  (Undisturbed' => Undisturbed) /\ (Calm' => Calm)
    <2>1. backend' = backend /\ crashes' = crashes /\ overlapped' = overlapped
      <3>1. CASE UNCHANGED vars
        BY <3>1 DEF vars
      <3>2. CASE Change
        BY <3>2 DEF Change
      <3>3. CASE StartWatch \/ Synced \/ Wake \/ StartExtract \/ UserLoad
        BY <3>3 DEF StartWatch, Synced, Wake, StartExtract, UserLoad
      <3> QED
        BY <1>3, <3>1, <3>2, <3>3
    <2>2. overlapped => overlapped'
      BY <2>1, Zenon
    <2> QED
      BY <1>2, <2>1, <2>2, Zenon
  <1>4. ASSUME NEW p \in Syncs, Sync(p) PROVE (Undisturbed' => Undisturbed) /\ (Calm' => Calm)
    BY <1>2, <1>4 DEF Sync, Read, Walk, SaveMeta, NoteOverlap, Load, Semantify
  <1>5. ASSUME NEW p \in Procs, Write(p) PROVE (Undisturbed' => Undisturbed) /\ (Calm' => Calm)
    BY <1>2, <1>5 DEF Write, Truncate, Save, NoteOverlap
  <1> QED
    BY <1>1, <1>3, <1>4, <1>5 DEF Next, WatchStep, Procs, Syncs

\* A step that neither takes nor gives a graph.
LEMMA TasksApart ==
  ASSUME TypeInv, Entered, UNCHANGED <<store, torn, entered, mem>>,
         NEW p \in Procs, pc[p] \notin Writing, NEW label, pc' = [pc EXCEPT ![p] = label],
         label \notin Holding
  PROVE  Entered'
  BY DEF TypeInv, Entered, HasEntered, Writing, Holding

LEMMA TasksLoad ==
  ASSUME TypeInv, GraphsInv, Entered, NEW p \in Syncs, Load(p)
  PROVE  Entered'
  <1> USE DEF TypeInv, Procs
  <1> DEFINE g == IF torn THEN EmptyGraph ELSE store
             merged == MergeCodeLayer(g, code[p])
  <1>1. IsGraph(merged) /\ Sound(merged) /\ merged.tasks = g.tasks /\ merged.links = g.links
    BY EmptyIsGraph, MergeIsSound DEF GraphsInv
  <1>2. mem' = [mem EXCEPT ![p] = IF p = "watch" /\ ~ NoSemantify
                                  THEN GenerateBridges(merged) ELSE merged]
        /\ UNCHANGED <<store, torn, entered>> /\ pc' = [pc EXCEPT ![p] = "save"]
        /\ pc[p] = "load"
    BY DEF Load, Goto
  <1> HIDE DEF merged
  <1>3. mem'[p].tasks = g.tasks /\ mem'[p].links = g.links
    BY <1>1, <1>2, BridgesAreSound
  <1>4. ~ torn => HasEntered(mem[p])'
    BY <1>2, <1>3 DEF Entered, HasEntered
  <1>5. torn => \E q \in Procs \ {p} : pc'[q] \in Writing
    BY <1>2 DEF Entered, Writing
  <1>6. \A q \in Syncs \ {p} : mem'[q] = mem[q] /\ pc'[q] = pc[q]
    BY <1>2
  <1>7. \A q \in Procs : pc[q] \in Writing => q # p /\ pc'[q] \in Writing
    BY <1>2 DEF Writing
  <1> QED
    BY <1>2, <1>4, <1>5, <1>6, <1>7 DEF Entered, HasEntered

LEMMA TasksSemantify ==
  ASSUME TypeInv, GraphsInv, Entered, NEW p \in Syncs, Semantify(p)
  PROVE  Entered'
  <1> USE DEF TypeInv, Procs
  <1>1. pc[p] = "semantify" /\ pc'[p] \in {"off", "resave"} /\ UNCHANGED <<store, torn, entered>>
        /\ \A q \in Procs \ {p} : pc'[q] = pc[q] /\ mem'[q] = mem[q]
    BY DEF Semantify, Goto
  <1>2. pc'[p] = "resave" => mem'[p] = GenerateBridges(mem[p])
    BY DEF Semantify, Goto
  <1>3. GenerateBridges(mem[p]).tasks = mem[p].tasks /\ GenerateBridges(mem[p]).links = mem[p].links
    BY BridgesAreSound DEF GraphsInv
  <1>4. \A q \in Procs : pc[q] \in Writing => q # p /\ pc'[q] \in Writing
    BY <1>1 DEF Writing
  <1>5. ASSUME pc'[p] \in Holding
        PROVE  HasEntered(mem[p])' \/ \E q \in Procs \ {p} : pc'[q] \in Writing
    BY <1>1, <1>2, <1>3, <1>4, <1>5 DEF Entered, HasEntered, Holding
  <1> QED
    BY <1>1, <1>4, <1>5 DEF Entered, HasEntered

LEMMA TasksTruncate ==
  ASSUME TypeInv, Entered, NEW p \in Procs, Truncate(p), ~ overlapped'
  PROVE  Entered'
  <1> USE DEF TypeInv, Procs
  <1>1. pc[p] \in Holding /\ pc'[p] \in Writing /\ UNCHANGED <<store, entered, mem>>
        /\ \A q \in Procs \ {p} : pc'[q] = pc[q] /\ pc[q] \in Idle
    BY NobodyElse DEF Truncate, Goto, Holding, Writing
  <1>2. \A q \in Procs \ {p} : pc[q] \notin Holding \cup Writing
    BY <1>1 DEF Idle, Holding, Writing
  <1> QED
    BY <1>1, <1>2 DEF Entered, HasEntered

LEMMA TasksSave ==
  ASSUME TypeInv, Entered, NEW p \in Procs, Save(p), ~ overlapped'
  PROVE  Entered'
  <1> USE DEF TypeInv, Procs
  <1>1. pc[p] \in Holding /\ torn' = FALSE
        /\ \A q \in Procs \ {p} : pc'[q] = pc[q] /\ pc[q] \in Idle
    BY NobodyElse DEF Save, Goto, Holding
  <1>2. \A q \in Procs \ {p} : pc[q] \notin Holding \cup Writing /\ pc'[q] \notin Holding \cup Writing
    BY <1>1 DEF Idle, Holding, Writing
  <1>3. HasEntered(store)'
    <2>1. CASE p = "user" \/ Refused(mem[p])
      BY <2>1 DEF Save, Entered, HasEntered
    <2>2. CASE p \in Syncs
      BY <1>1, <1>2, <2>2 DEF Save, Entered, HasEntered, Syncs
    <2> QED
      BY <2>1, <2>2
  <1>4. ASSUME p \in Syncs, pc'[p] \in Holding PROVE HasEntered(mem[p])'
    <2>1. mem' = mem /\ entered' = entered
      BY <1>4 DEF Save, Goto, Holding, Syncs
    <2> QED
      BY <1>1, <1>2, <1>4, <2>1 DEF Entered, HasEntered
  <1> QED
    BY <1>1, <1>2, <1>3, <1>4 DEF Entered

LEMMA StepTasks == TypeInv /\ GraphsInv /\ TasksInv /\ [Next]_vars => TasksInv'
  <1> SUFFICES ASSUME TypeInv, GraphsInv, TasksInv, [Next]_vars, Undisturbed'
               PROVE  Entered'
    BY DEF TasksInv
  <1>1. Entered /\ ~ overlapped' /\ \A p \in Procs : Crash(p) => backend # "yaml"
    BY StillCalm DEF TasksInv, Undisturbed
  <1> USE DEF TypeInv, Goto, files, sync, bounds, watcher
  <1>2. CASE UNCHANGED vars \/ Change
    BY <1>1, <1>2 DEF vars, Change, Entered, HasEntered
  <1>3. CASE StartWatch \/ Synced \/ Wake
    <2>1. \E label : pc' = [pc EXCEPT !["watch"] = label] /\ label \notin Holding
      BY <1>3 DEF StartWatch, Synced, Wake, Holding
    <2> QED
      BY <1>1, <1>3, <2>1, TasksApart DEF StartWatch, Synced, Wake, Writing, Procs, Syncs
  <1>4. CASE StartExtract
    BY <1>1, <1>4, TasksApart DEF StartExtract, Writing, Holding, Procs, Syncs
  <1>5. CASE UserLoad
    <2>1. /\ UNCHANGED <<store, torn, entered>> /\ pc' = [pc EXCEPT !["user"] = "save"]
          /\ pc["user"] = "off" /\ \A q \in Syncs : mem'[q] = mem[q]
      BY <1>5 DEF UserLoad, Procs, Syncs
    <2>2. \A q \in Procs : pc[q] \in Writing => pc'[q] \in Writing
      BY <2>1 DEF Writing
    <2>3. \A q \in Syncs : pc'[q] = pc[q]
      BY <2>1 DEF Syncs
    <2> QED
      BY <1>1, <2>1, <2>2, <2>3 DEF Entered, HasEntered
  <1>6. ASSUME NEW p \in Procs, Crash(p) PROVE Entered'
    <2>1. backend # "yaml" /\ UNCHANGED <<store, torn, entered>> /\ pc'[p] = "off"
          /\ \A q \in Procs \ {p} : pc'[q] = pc[q] /\ mem'[q] = mem[q]
      BY <1>1, <1>6 DEF Crash, Writing
    <2> QED
      BY <1>1, <2>1 DEF Entered, HasEntered, Holding, Procs
  <1>7. ASSUME NEW p \in Syncs, Sync(p) PROVE Entered'
    <2>1. CASE Load(p) \/ Semantify(p)
      BY <1>1, <1>7, <2>1, TasksLoad, TasksSemantify
    <2>2. ASSUME NEW force, Read(p, force) PROVE Entered'
      BY <1>1, <1>7, <2>2, TasksApart DEF Read, Writing, Holding, Procs
    <2>3. CASE Walk(p) \/ SaveMeta(p)
      <3>1. PICK label : pc' = [pc EXCEPT ![p] = label] /\ label \in {"meta", "load", "synced"}
        <4>1. CASE Walk(p)
          <5>1. CASE Unchanged(p)
            BY <5>1 DEF Unchanged
          <5>2. CASE pc' = [pc EXCEPT ![p] = "meta"]
            BY <5>2
          <5> QED
            BY <4>1, <5>1, <5>2 DEF Walk
        <4>2. CASE SaveMeta(p)
          BY <4>2 DEF SaveMeta
        <4> QED
          BY <2>3, <4>1, <4>2
      <3>2. label \notin Holding
        BY <3>1 DEF Holding
      <3>3. p \in Procs /\ pc[p] \notin Writing /\ UNCHANGED <<store, torn, entered, mem>>
        BY <1>7, <2>3 DEF Walk, SaveMeta, Writing, Procs
      <3> QED
        BY <1>1, <3>1, <3>2, <3>3, TasksApart
    <2> QED
      BY <1>7, <2>1, <2>2, <2>3 DEF Sync
  <1>8. ASSUME NEW p \in Procs, Write(p) PROVE Entered'
    BY <1>1, <1>8, TasksTruncate, TasksSave DEF Write
  <1> QED
    BY <1>2, <1>3, <1>4, <1>5, <1>6, <1>7, <1>8 DEF Next, WatchStep, Procs, Syncs

-----------------------------------------------------------------------------
(* Metadata *)

\* A sync that starts, is done or waits.
LEMMA MetaApart ==
  ASSUME TypeInv, InStep, UNCHANGED <<store, torn, meta_file, meta, mem, seen, prior, code>>,
         NEW p \in Syncs, pc[p] \in {"off", "synced", "waiting"},
         NEW label \in {"read", "waiting"}, pc' = [pc EXCEPT ![p] = label]
  PROVE  InStep'
  <1> USE DEF TypeInv, Procs
  <1>1. pc'[p] = label /\ \A q \in Procs \ {p} : pc'[q] = pc[q]
    OBVIOUS
  <1>2. ASSUME NEW q \in Syncs PROVE SyncInv(q)'
    BY <1>1, <1>2 DEF InStep, SyncInv, Agrees, Holding
  <1>3. \A q \in Procs : pc[q] \in Writing => pc'[q] \in Writing
    BY <1>1 DEF Writing
  <1>4. meta_file => Agrees(store.code) \/ \E q \in Syncs : pc'[q] \in {"load", "save", "write"}
    BY <1>1 DEF InStep
  <1> QED
    BY <1>1, <1>2, <1>3, <1>4 DEF InStep, Agrees, Idle, Syncs

LEMMA MetaUserLoad ==
  ASSUME TypeInv, GraphsInv, InStep, UserLoad
  PROVE  InStep'
  <1> USE DEF TypeInv, Procs, Syncs, files, sync
  <1> DEFINE g == IF torn THEN EmptyGraph ELSE store
  <1>1. PICK h : /\ mem' = [mem EXCEPT !["user"] = h]
                 /\ \/ \E t : h = [g EXCEPT !.tasks = @ \cup {t}]
                    \/ \E l : h = [g EXCEPT !.links = @ \cup {l}]
    BY DEF UserLoad
  <1>2. /\ UNCHANGED <<store, torn, meta_file, meta, seen, prior, code>>
        /\ pc' = [pc EXCEPT !["user"] = "save"] /\ pc["user"] = "off"
    BY DEF UserLoad, Goto
  <1>3. h.code = store.code \/ \E q \in Syncs : pc'[q] \in Writing
    <2>1. CASE torn
      BY <1>2, <2>1 DEF InStep, Writing
    <2>2. CASE ~ torn
      BY <1>1, <2>2, EnteredIsSound DEF GraphsInv
    <2> QED
      BY <2>1, <2>2
  <1>4. \A q \in Syncs : pc'[q] = pc[q] /\ mem'[q] = mem[q]
    BY <1>1, <1>2
  <1>5. ASSUME NEW q \in Syncs PROVE SyncInv(q)'
    BY <1>2, <1>4, <1>5 DEF InStep, SyncInv, Agrees
  <1>6. \A q \in Procs : pc[q] \in Writing => pc'[q] \in Writing
    BY <1>2 DEF Writing
  <1> QED
    BY <1>1, <1>2, <1>3, <1>4, <1>5, <1>6 DEF InStep, Agrees

\* What was read is what the metadata and graph.yml say; a watcher that rebuilds
\* found no code, or a graph.yml that a command is writing.
LEMMA MetaRead ==
  ASSUME TypeInv, InStep, Calm, ~ overlapped', NEW p \in Syncs, NEW force,
         Read(p, force), p = "watch" => ~ force
  PROVE  InStep'
  <1> USE DEF TypeInv, Procs, Syncs, files
  <1>1. pc[p] = "read" /\ pc' = [pc EXCEPT ![p] = "walk"]
        /\ UNCHANGED <<store, torn, meta_file, meta, mem, code>>
    BY DEF Read, Goto
  <1>2. \A q \in Syncs \ {p} : pc[q] \in Idle /\ pc'[q] = pc[q]
    BY <1>1 DEF Read, Busy, Idle
  <1>3. torn => pc["user"] = "write"
    BY <1>1, <1>2 DEF InStep, Idle, Writing
  <1>4. prior'[p] # NoCode => meta_file /\ seen'[p] = meta /\ prior'[p] = store.code
    BY DEF Read
  <1>5. prior'[p] = NoCode /\ p = "watch" => store.code.nodes = {} \/ pc["user"] = "write"
    BY <1>3 DEF Read, Calm, InStep, NoCode, CodeGraph
  <1>6. SyncInv(p)'
    BY <1>1, <1>4, <1>5 DEF SyncInv, Holding
  <1>7. ASSUME NEW q \in Syncs \ {p} PROVE SyncInv(q)'
    BY <1>2, <1>7 DEF SyncInv, Holding, Idle
  <1>8. \A q \in Procs : pc[q] \in Writing => pc'[q] \in Writing
    BY <1>1 DEF Writing
  <1>9. meta_file => Agrees(store.code)
    BY <1>1, <1>2 DEF InStep, Idle
  <1> QED
    BY <1>1, <1>2, <1>6, <1>7, <1>8, <1>9 DEF InStep, Agrees

\* The other sync has nothing yet when one has read the metadata.
LEMMA Alone ==
  ASSUME TypeInv, InStep, NEW p \in Syncs, pc[p] \notin Idle \cup {"read"}
  PROVE  \A q \in Syncs \ {p} : pc[q] \in Idle \cup {"read"}
  BY DEF InStep

LEMMA MetaWalk ==
  ASSUME TypeInv, InStep, NEW p \in Syncs, Walk(p)
  PROVE  InStep'
  <1> USE DEF TypeInv, Procs, Syncs, files
  <1>1. pc[p] = "walk" /\ UNCHANGED <<store, torn, meta_file, meta, mem>>
    BY DEF Walk
  <1>2. \A q \in Syncs \ {p} : pc[q] \in Idle \cup {"read"}
    BY <1>1, Alone DEF Idle
  <1>3. meta_file => Agrees(store.code)
    BY <1>1, <1>2 DEF InStep, Idle
  <1>4. prior[p] # NoCode => meta_file /\ seen[p] = meta /\ prior[p] = store.code
    BY <1>1 DEF InStep, SyncInv
  <1>5. CASE prior[p] # NoCode /\ disk = seen[p]
    <2>1. /\ pc' = [pc EXCEPT ![p] = IF p = "watch" THEN "synced" ELSE "load"]
          /\ code' = [code EXCEPT ![p] = IF p = "watch" THEN NoCode ELSE prior[p]]
      BY <1>5 DEF Walk, Unchanged, Goto
    <2>2. \A q \in Procs \ {p} : pc'[q] = pc[q]
      BY <2>1
    <2>3. SyncInv(p)'
      BY <1>1, <1>3, <1>4, <1>5, <2>1 DEF SyncInv, Holding, Agrees
    <2>4. ASSUME NEW q \in Syncs \ {p} PROVE SyncInv(q)'
      BY <1>2, <2>2, <2>4 DEF SyncInv, Holding, Idle
    <2>5. \A q \in Procs : pc[q] \in Writing => pc'[q] \in Writing
      BY <1>1, <2>2 DEF Writing
    <2> QED
      BY <1>1, <1>2, <1>3, <2>2, <2>3, <2>4, <2>5 DEF InStep, Agrees
  <1>6. CASE ~ (prior[p] # NoCode /\ disk = seen[p])
    <2>1. /\ pc' = [pc EXCEPT ![p] = "meta"] /\ prior' = prior
          /\ seen' = [seen EXCEPT ![p] = disk]
          /\ code' = [code EXCEPT ![p] = IF prior[p] = NoCode THEN FullRebuild(disk)
                                         ELSE Incremental(prior[p], disk, seen[p])]
      BY <1>6 DEF Walk, Goto
    <2>2. \A q \in Procs \ {p} : pc'[q] = pc[q]
      BY <2>1
    <2>3. FromFiles(code'[p].nodes) = EntitiesOf(disk)
      <3>1. CASE prior[p] = NoCode
        BY <2>1, <3>1, FullRebuildTrue
      <3>2. CASE prior[p] # NoCode
        <4>1. FromFiles(prior[p].nodes) = EntitiesOf(seen[p])
          BY <1>3, <1>4, <3>2 DEF Agrees
        <4>2. FromFiles(Incremental(prior[p], disk, seen[p]).nodes) = EntitiesOf(disk)
          BY <4>1, IncrementalTrue
        <4> QED
          BY <2>1, <3>2, <4>2
      <3> QED
        BY <3>1, <3>2
    <2>4. prior[p] = NoCode /\ p = "watch" => store.code.nodes = {} \/ pc["user"] = "write"
      BY <1>1 DEF InStep, SyncInv
    <2>5. SyncInv(p)'
      BY <1>1, <2>1, <2>2, <2>3, <2>4 DEF SyncInv, Holding
    <2>6. ASSUME NEW q \in Syncs \ {p} PROVE SyncInv(q)'
      BY <1>2, <2>2, <2>6 DEF SyncInv, Holding, Idle
    <2>7. \A q \in Procs : pc[q] \in Writing => pc'[q] \in Writing
      BY <1>1, <2>2 DEF Writing
    <2> QED
      BY <1>1, <1>2, <1>3, <2>2, <2>5, <2>6, <2>7 DEF InStep, Agrees
  <1> QED
    BY <1>5, <1>6

\* When nobody else works, the metadata that are written and the graph to be
\* saved are of the same files.
LEMMA MetaSaveMeta ==
  ASSUME TypeInv, InStep, ~ overlapped', NEW p \in Syncs, SaveMeta(p)
  PROVE  InStep'
  <1> USE DEF TypeInv, Procs, Syncs, files
  <1>1. pc[p] = "meta" /\ UNCHANGED <<store, torn, mem, code>>
        /\ meta_file' = TRUE /\ meta' = seen[p]
    BY DEF SaveMeta
  <1>2. \A q \in Procs \ {p} : pc[q] \in Idle
    BY NobodyElse DEF SaveMeta
  <1>3. pc' = [pc EXCEPT ![p] = IF p = "watch" /\ prior[p] = NoCode /\ seen[p] = <<>>
                                THEN "synced" ELSE "load"]
    BY DEF SaveMeta, Goto
  <1>4. \A q \in Procs \ {p} : pc'[q] = pc[q]
    BY <1>3
  <1>5. FromFiles(code[p].nodes) = EntitiesOf(seen[p])
    BY <1>1 DEF InStep, SyncInv
  <1>6. SyncInv(p)'
    BY <1>1, <1>3, <1>5 DEF SyncInv, Agrees, Holding
  <1>7. ASSUME NEW q \in Syncs \ {p} PROVE SyncInv(q)'
    BY <1>2, <1>4, <1>7 DEF SyncInv, Holding, Idle
  <1>8. CASE pc'[p] = "load"
    BY <1>1, <1>2, <1>4, <1>6, <1>7, <1>8 DEF InStep, Idle, Writing
  <1>9. CASE pc'[p] = "synced"
    <2>1. p = "watch" /\ prior[p] = NoCode /\ seen[p] = <<>>
      BY <1>3, <1>9
    <2>2. store.code.nodes = {}
      BY <1>1, <1>2, <2>1 DEF InStep, SyncInv, Idle
    <2>3. Agrees(store.code)'
      BY <1>1, <2>1, <2>2, NothingInNoFile DEF Agrees, FromFiles
    <2> QED
      BY <1>1, <1>2, <1>4, <1>6, <1>7, <2>3 DEF InStep, Idle, Writing
  <1> QED
    BY <1>3, <1>8, <1>9

LEMMA MetaLoad ==
  ASSUME TypeInv, GraphsInv, InStep, NEW p \in Syncs, Load(p)
  PROVE  InStep'
  <1> USE DEF TypeInv, Procs, Syncs, files
  <1> DEFINE merged == MergeCodeLayer(IF torn THEN EmptyGraph ELSE store, code[p])
  <1>1. /\ pc[p] = "load" /\ UNCHANGED <<store, torn, meta_file, meta>>
        /\ pc' = [pc EXCEPT ![p] = "save"]
        /\ mem' = [mem EXCEPT ![p] = IF p = "watch" /\ ~ NoSemantify
                                     THEN GenerateBridges(merged) ELSE merged]
    BY DEF Load, Goto
  <1>2. IsGraph(merged) /\ Sound(merged) /\ merged.code.nodes = code[p].nodes
    BY EmptyIsGraph, MergeIsSound DEF GraphsInv
  <1> HIDE DEF merged
  <1>3. mem'[p].code.nodes = code[p].nodes
    BY <1>1, <1>2, BridgesAreSound
  <1>4. \A q \in Syncs \ {p} : pc[q] \in Idle \cup {"read"}
    BY <1>1, Alone DEF Idle
  <1>5. \A q \in Procs \ {p} : pc'[q] = pc[q] /\ mem'[q] = mem[q]
    BY <1>1
  <1>6. meta_file /\ Agrees(code[p])
    BY <1>1 DEF InStep, SyncInv
  <1>7. SyncInv(p)'
    BY <1>1, <1>3, <1>6 DEF SyncInv, Agrees, Holding
  <1>8. ASSUME NEW q \in Syncs \ {p} PROVE SyncInv(q)'
    BY <1>4, <1>5, <1>8 DEF SyncInv, Holding, Idle
  <1>9. \A q \in Procs : pc[q] \in Writing => pc'[q] \in Writing
    BY <1>1, <1>5 DEF Writing
  <1>10. pc'[p] = "save"
    BY <1>1
  <1> QED
    BY <1>1, <1>4, <1>5, <1>6, <1>7, <1>8, <1>9, <1>10 DEF InStep, Agrees

LEMMA MetaSemantify ==
  ASSUME TypeInv, GraphsInv, InStep, NEW p \in Syncs, Semantify(p)
  PROVE  InStep'
  <1> USE DEF TypeInv, Procs, Syncs, files
  <1>1. /\ pc[p] = "semantify" /\ UNCHANGED <<store, torn, meta_file, meta>>
        /\ pc'[p] \in {"off", "resave"}
        /\ \A q \in Procs \ {p} : pc'[q] = pc[q] /\ mem'[q] = mem[q]
    BY DEF Semantify, Goto
  <1>2. pc'[p] = "resave" => mem'[p] = GenerateBridges(mem[p])
    BY DEF Semantify, Goto
  <1>3. GenerateBridges(mem[p]).code = mem[p].code
    BY BridgesAreSound DEF GraphsInv
  <1>4. \A q \in Syncs \ {p} : pc[q] \in Idle \cup {"read"}
    BY <1>1, Alone DEF Idle
  <1>5. meta_file /\ Agrees(mem[p].code)
    BY <1>1 DEF InStep, SyncInv, Holding
  <1>6. SyncInv(p)'
    BY <1>1, <1>2, <1>3, <1>5 DEF SyncInv, Agrees, Holding
  <1>7. ASSUME NEW q \in Syncs \ {p} PROVE SyncInv(q)'
    BY <1>1, <1>4, <1>7 DEF SyncInv, Holding, Idle
  <1>8. \A q \in Procs : pc[q] \in Writing => pc'[q] \in Writing
    BY <1>1 DEF Writing
  <1>9. Agrees(store.code)
    BY <1>1, <1>4, <1>5 DEF InStep, Idle
  <1> QED
    BY <1>1, <1>4, <1>5, <1>6, <1>7, <1>8, <1>9 DEF InStep, Agrees

LEMMA MetaTruncate ==
  ASSUME TypeInv, InStep, ~ overlapped', NEW p \in Procs, Truncate(p)
  PROVE  InStep'
  <1> USE DEF TypeInv, Procs, Syncs, files, sync
  <1>1. /\ UNCHANGED <<store, meta_file, meta, mem>>
        /\ \/ pc[p] = "save" /\ pc'[p] = "write"
           \/ pc[p] = "resave" /\ pc'[p] = "rewrite"
        /\ \A q \in Procs \ {p} : pc'[q] = pc[q] /\ pc[q] \in Idle
    <2>1. \A q \in Procs \ {p} : pc[q] \in Idle
      BY NobodyElse DEF Truncate
    <2>2. /\ pc[p] \in {"save", "resave"}
          /\ pc' = [pc EXCEPT ![p] = IF pc[p] = "save" THEN "write" ELSE "rewrite"]
      BY DEF Truncate, Goto
    <2>3. UNCHANGED <<store, meta_file, meta, mem>>
      BY DEF Truncate
    <2> QED
      BY <2>1, <2>2, <2>3
  <1>2. ASSUME NEW q \in Syncs PROVE SyncInv(q)'
    <2>1. CASE q = p
      BY <1>1, <2>1 DEF InStep, SyncInv, Holding, Agrees
    <2>2. CASE q # p
      BY <1>1, <2>2 DEF SyncInv, Holding, Idle
    <2> QED
      BY <2>1, <2>2
  <1>3. pc'[p] \in Writing
    BY <1>1 DEF Writing
  <1>4. \A q, r \in Syncs : q # r => pc'[q] \in Idle \cup {"read"} \/ pc'[r] \in Idle \cup {"read"}
    BY <1>1
  <1>5. meta_file => Agrees(store.code) \/ \E q \in Syncs : pc'[q] \in {"load", "save", "write"}
    BY <1>1 DEF InStep, Idle
  <1>6. pc["user"] # "off" \/ pc'["user"] = "off"
    BY <1>1
  <1> QED
    BY <1>1, <1>2, <1>3, <1>4, <1>5, <1>6 DEF InStep, Agrees

\* A sync saves what it extracted, a command the code it loaded.
LEMMA MetaSave ==
  ASSUME TypeInv, InStep, Calm, ~ overlapped', NEW p \in Procs, Save(p)
  PROVE  InStep'
  <1> USE DEF TypeInv, Procs, Syncs, files, sync
  <1>1. /\ UNCHANGED <<meta_file, meta>> /\ torn' = FALSE /\ store' = mem[p]
        /\ pc[p] \in Writing
        /\ \A q \in Procs \ {p} : pc'[q] = pc[q] /\ pc[q] \in Idle
    BY NobodyElse DEF Save, Goto, Calm, Refused, Writing
  <1>2. pc'[p] = "semantify" => mem'[p] = mem[p]
    BY <1>1 DEF Save, Goto
  <1>3. pc'[p] \in {"semantify", "synced", "off"} /\ (p = "user" => pc'[p] = "off")
    BY <1>1 DEF Save, Goto, Calm, Refused
  <1>4. ASSUME NEW q \in Syncs, q # p PROVE SyncInv(q)'
    BY <1>1, <1>4 DEF SyncInv, Holding, Idle
  <1>5. pc'["user"] = "off"
    BY <1>1, <1>3 DEF Idle
  <1>6. \A q, r \in Syncs : q # r => pc'[q] \in Idle \cup {"read"} \/ pc'[r] \in Idle \cup {"read"}
    BY <1>1
  <1>7. CASE p = "user"
    <2>1. store'.code = store.code
      BY <1>1, <1>7 DEF InStep, Writing, Idle
    <2>2. meta_file => Agrees(store.code)
      BY <1>1, <1>7 DEF InStep, Idle
    <2> QED
      BY <1>1, <1>4, <1>5, <1>6, <1>7, <2>1, <2>2 DEF InStep, Agrees
  <1>8. CASE p \in Syncs
    <2>1. meta_file /\ Agrees(mem[p].code)
      BY <1>1, <1>8 DEF InStep, SyncInv, Holding, Writing
    <2>2. SyncInv(p)'
      BY <1>1, <1>2, <1>3, <2>1 DEF SyncInv, Agrees, Holding
    <2> QED
      BY <1>1, <1>4, <1>5, <1>6, <2>1, <2>2 DEF InStep, Agrees
  <1> QED
    BY <1>7, <1>8

LEMMA StepMeta == TypeInv /\ GraphsInv /\ MetaInv /\ [Next]_vars => MetaInv'
  <1> SUFFICES ASSUME TypeInv, GraphsInv, MetaInv, [Next]_vars, Calm'
               PROVE  InStep'
    BY DEF MetaInv
  <1>1. Calm /\ InStep /\ ~ overlapped' /\ \A p \in Procs : ~ Crash(p)
    BY StillCalm DEF MetaInv, Calm
  <1> USE DEF files, sync, bounds, watcher
  <1>2. CASE UNCHANGED vars \/ Change
    <2>1. UNCHANGED <<store, torn, meta_file, meta, mem, seen, prior, code, pc>>
      BY <1>2 DEF vars, Change
    <2> QED
      BY <1>1, <2>1 DEF InStep, SyncInv, Agrees
  <1>3. CASE StartWatch \/ Synced \/ Wake
    <2>1. PICK label \in {"read", "waiting"} : pc' = [pc EXCEPT !["watch"] = label]
      BY <1>3 DEF StartWatch, Synced, Wake, Goto
    <2>2. pc["watch"] \in {"off", "synced", "waiting"}
          /\ UNCHANGED <<store, torn, meta_file, meta, mem, seen, prior, code>>
      BY <1>3 DEF StartWatch, Synced, Wake
    <2> QED
      BY <1>1, <2>1, <2>2, MetaApart DEF Syncs
  <1>4. CASE StartExtract
    <2>1. pc["extract"] = "off" /\ pc' = [pc EXCEPT !["extract"] = "read"]
          /\ UNCHANGED <<store, torn, meta_file, meta, mem, seen, prior, code>>
      BY <1>4 DEF StartExtract, Goto
    <2> QED
      BY <1>1, <2>1, MetaApart DEF Syncs
  <1>5. CASE UserLoad
    BY <1>1, <1>5, MetaUserLoad
  <1>6. ASSUME NEW p \in Syncs, Sync(p) PROVE InStep'
    <2>1. ASSUME NEW force, Read(p, force), p = "watch" => ~ force PROVE InStep'
      BY <1>1, <2>1, MetaRead
    <2>2. Read(p, FALSE) \/ (p = "extract" /\ Read(p, TRUE)) \/ Walk(p) \/ SaveMeta(p)
          \/ Load(p) \/ Semantify(p)
      BY <1>6 DEF Sync
    <2> QED
      BY <1>1, <2>1, <2>2, MetaWalk, MetaSaveMeta, MetaLoad, MetaSemantify
  <1>7. ASSUME NEW p \in Procs, Write(p) PROVE InStep'
    BY <1>1, <1>7, MetaTruncate, MetaSave DEF Write
  <1> QED
    BY <1>1, <1>2, <1>3, <1>4, <1>5, <1>6, <1>7 DEF Next, WatchStep, Procs, Syncs

-----------------------------------------------------------------------------
(* The theorems *)

LEMMA Always == Spec => []Inv
  <1>1. Inv /\ [Next]_vars => Inv'
    BY StepType, StepGraphs, StepTasks, StepMeta DEF Inv
  <1> QED
    BY <1>1, InitInv, PTL DEF Spec

\* Whatever is changed, extracted, synced, saved or killed: no code edge and no
\* bridge in the store has an end that is not there (unify.rs).
THEOREM CodeNeverDangles == Spec => []NoDanglingCode
  <1>1. Inv => NoDanglingCode
    BY DEF Inv, GraphsInv, Sound, NoDanglingCode
  <1> QED
    BY <1>1, Always, PTL

\* However many extractions replace the code layer, every task and link that a
\* command has saved is in the store, as long as nobody saves in the middle of
\* somebody else's work.
THEOREM SyncKeepsTasks == Spec => []TasksStay
  <1>1. TasksInv => TasksStay
    BY DEF TasksInv, Undisturbed, Entered, HasEntered, TasksStay
  <1> QED
    BY <1>1, Always, PTL DEF Inv

\* What extract-meta.json says was extracted is what graph.yml holds when all
\* are done.
THEOREM MetadataIsTrue == Spec => []MetadataTellsTheTruth
  <1>1. MetaInv => MetadataTellsTheTruth
    <2> SUFFICES ASSUME MetaInv, backend = "yaml", Quiet, meta_file, ~ overlapped, crashes = 0
                 PROVE  CodeIn(store) = EntitiesOf(meta)
      BY DEF MetadataTellsTheTruth
    <2>1. InStep
      BY DEF MetaInv, Calm
    <2>2. \A p \in Syncs : pc[p] \notin {"load", "save", "write"}
      BY DEF Quiet, Busy, Procs
    <2> QED
      BY <2>1, <2>2 DEF InStep, Agrees, FromFiles, CodeIn
  <1> QED
    BY <1>1, Always, PTL DEF Inv

====
