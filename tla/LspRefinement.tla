---- MODULE LspRefinement ----
(***************************************************************************)
(* gid extract --lsp: CodeGraph::refine_with_lsp (code_graph/build.rs) in  *)
(* several processes of one project, and the daemon (lsp_daemon.rs) that   *)
(* is to keep the language servers for the next of them: a thread of the   *)
(* process that found none, reached over a Unix socket, which serves one   *)
(* connection at a time and dies with its process.                         *)
(***************************************************************************)
EXTENDS LspClient, FiniteSets

CONSTANTS
    Extractions, \* number of them, each a process
    Languages,   \* sequence of the languages with a server, in the order tried
    FirstGraph,  \* sequence of the extracted edges
    Functions,   \* the nodes that are functions or methods
    Traits,      \* the nodes that are traits or interfaces
    None,
    MaxVersion,  \* bound on the changes of the files
    MaxLate      \* bound on the answers nobody waits for any longer

\* The languages with a server are distinct (detect_available).
ASSUME LspAssumption ==
    /\ Extractions \in Nat
    /\ IsFiniteSet(Nodes)
    /\ Functions \subseteq Nodes
    /\ Traits \subseteq Nodes
    /\ Languages \in Seq(ToSet(Languages)) /\ IsInjective(Languages)
    /\ FirstGraph \in Seq(ToSet(FirstGraph))
    /\ None \notin Nodes
    /\ None \notin (1 .. Extractions) \X ToSet(Languages)

VARIABLES
    version,  \* of the files
    socket,   \* the daemon that bound lsp-daemon.sock, or None: no file
    daemon,   \* [up, servers, serving, backlog] of each daemon
    conn,     \* [to, open, sent, answers] of each connection
    pc, at,   \* at: the language of a process
    graph, read, calls,
    pass, todo, learnt,
    own,      \* the LspClient of a process, or None: it asks a daemon
    late,
    tardy,    \* history variable: an answer on this connection was given up
    cut       \* history variable: <<language, index>> of each edge removed

files == <<version, socket>>
daemons == <<daemon, conn>>
work == <<graph, read, calls, pass, todo, learnt, own>>
bounds == <<late, tardy, cut>>
vars == <<files, daemons, pc, at, work, bounds>>

\* In the order they start.
Procs == 1 .. Extractions

\* A process starts at most one daemon, and has one connection, a language.
Keys == Procs \X ToSet(Languages)

NoServer == [NewClient EXCEPT !.next = 0]
Off == [up |-> "off", servers |-> [l \in ToSet(Languages) |-> NoServer],
        serving |-> None, backlog |-> <<>>]
Closed == [to |-> None, open |-> FALSE, sent |-> <<>>, answers |-> <<>>]

Init ==
    /\ version = 0
    /\ socket = None
    /\ daemon = [d \in Keys |-> Off]
    /\ conn = [k \in Keys |-> Closed]
    /\ pc = [p \in Procs |-> "new"]
    /\ at = [p \in Procs |-> 1]
    /\ graph = [p \in Procs |-> FirstGraph]
    /\ read = [p \in Procs |-> 0]
    /\ calls = [p \in Procs |-> {}]
    /\ pass = [p \in Procs |-> "open"]
    /\ todo = [p \in Procs |-> <<>>]
    /\ learnt = [p \in Procs |-> {}]
    /\ own = [p \in Procs |-> None]
    /\ late = 0
    /\ tardy = [p \in Procs |-> FALSE]
    /\ cut = [p \in Procs |-> {}]

Goto(p, label) == pc' = [pc EXCEPT ![p] = label]

Language(p) == Languages[at[p]]
Key(p) == <<p, Language(p)>>

-----------------------------------------------------------------------------
(* The passes over the edges and nodes of a language *)

CallEdges(g) == {i \in DOMAIN g : g[i].relation = "calls"}

\* The indices of the call edges are collected once, before the first language;
\* only their bound and the caller's language are looked at again.
Mine(p, g) ==
    {i \in calls[p] : i <= Len(g) /\ FileOf[g[i].from] = Language(p)}

Question(kind, about, i) == [kind |-> kind, about |-> about, at |-> i]

\* The elements of a sequence at the positions in I.
Chosen(s, I) ==
    LET before[n \in 0 .. Len(s)] ==
          IF n = 0 THEN <<>>
          ELSE IF n \in I THEN Append(before[n - 1], s[n]) ELSE before[n - 1]
    IN before[Len(s)]

\* An edge that is sure already, or whose call is not found, is not asked about.
Unsure(g, indices) == {i \in indices : ~ g[i].sure /\ g[i].site # None}

TraitMethods(g) ==
    {f \in Functions : \E i \in DOMAIN g :
        g[i].from = f /\ g[i].relation = "defined_in" /\ g[i].to \in Traits}

Questions(p, stage, g) ==
    LET here == {f \in Functions : FileOf[f] = Language(p)}
    IN CASE stage = "open" -> <<Question("open", Language(p), 0)>>
         [] stage = "definition" ->
              LET indices == Chosen([i \in DOMAIN g |-> i], Unsure(g, Mine(p, g)))
              IN [j \in DOMAIN indices |->
                    Question(stage, g[indices[j]].site, indices[j])]
         [] stage = "references" ->
              LET asked == SetToSeq(here)
              IN [j \in DOMAIN asked |-> Question(stage, asked[j], 0)]
         [] stage = "implementations" ->
              LET asked == SetToSeq(here \cap TraitMethods(g))
              IN [j \in DOMAIN asked |-> Question(stage, asked[j], 0)]

Following(stage) ==
    CASE stage = "open" -> "definition"
      [] stage = "definition" -> "references"
      [] stage = "references" -> "implementations"
      [] stage = "implementations" -> "shutdown"

\* The node each location is taken for: a search of one table.
Picks(locations) ==
    {pick \in [locations -> Nodes \cup {None}] : \A l \in locations :
        IF ClosestNodes(l) = {} THEN pick[l] = None ELSE pick[l] \in ClosestNodes(l)}

Found(p) == UNION {e.answer.found : e \in learnt[p]}

Removed(g, indices) == Chosen(g, DOMAIN g \ indices)

\* A call is led to the node of its definition, stays where that is no node of
\* the graph, and goes where there is no definition in the project.
Nowhere(p) == {e.question.at : e \in {e \in learnt[p] : e.answer.found = {}}}

Redefined(p, g, pick) ==
    LET leads(i) == {l \in Found(p) : \E e \in learnt[p] :
                        e.question.at = i /\ l \in e.answer.found /\ pick[l] # None}
        updated == [i \in DOMAIN g |->
            IF leads(i) = {} THEN g[i]
            ELSE [g[i] EXCEPT !.to = pick[CHOOSE l \in leads(i) : TRUE], !.sure = TRUE]]
    IN Removed(updated, Nowhere(p))

Edge(from, to, relation) ==
    [from |-> from, to |-> to, relation |-> relation, site |-> None, sure |-> TRUE]

\* Whoever is found, but for the node itself, gets an edge to it.
Enriched(p, g, pick, relation, eligible) ==
    LET others(e) == {l \in e.answer.found : pick[l] \in eligible \ {e.question.about}}
        pairs == UNION {{<<pick[l], e.question.about>> : l \in others(e)} : e \in learnt[p]}
        new == {r \in pairs : ~ \E i \in DOMAIN g :
                   g[i].relation = relation /\ g[i].from = r[1] /\ g[i].to = r[2]}
    IN g \o SetToSeq({Edge(r[1], r[2], relation) : r \in new})

\* The graphs a pass may leave.
Applied(p) ==
    LET g == graph[p]
    IN CASE pass[p] = "open" -> {g}
         [] pass[p] = "definition" -> {Redefined(p, g, pick) : pick \in Picks(Found(p))}
         [] pass[p] = "references" ->
              {Enriched(p, g, pick, "calls", Functions) : pick \in Picks(Found(p))}
         [] pass[p] = "implementations" ->
              {Enriched(p, g, pick, "implements", Nodes) : pick \in Picks(Found(p))}

-----------------------------------------------------------------------------
(* refine_with_lsp *)

Enter(p, stage, g) ==
    /\ pass' = [pass EXCEPT ![p] = stage]
    /\ todo' = [todo EXCEPT ![p] = IF stage = "shutdown" THEN <<>> ELSE Questions(p, stage, g)]
    /\ learnt' = [learnt EXCEPT ![p] = {}]
    /\ Goto(p, IF stage = "shutdown" THEN stage ELSE "ask")

\* The files as they are by then.
Extract(p) ==
    /\ pc[p] = "new"
    /\ \A q \in 1 .. p - 1 : pc[q] # "new"
    /\ version' \in IF p = 1 THEN {version} ELSE version .. MaxVersion
    /\ read' = [read EXCEPT ![p] = version']
    /\ calls' = [calls EXCEPT ![p] = CallEdges(FirstGraph)]
    /\ Goto(p, "language")
    /\ UNCHANGED <<socket, daemons, at, graph, pass, todo, learnt, own, bounds>>

NextLanguage(p) == at' = [at EXCEPT ![p] = @ + 1] /\ Goto(p, "language")

TryLanguage(p) ==
    /\ pc[p] = "language"
    /\ at[p] <= Len(Languages)
    /\ IF Mine(p, graph[p]) = {}
       THEN NextLanguage(p)
       ELSE Goto(p, "provider") /\ UNCHANGED at
    /\ UNCHANGED <<files, daemons, work, bounds>>

Alive(d) == d # None /\ daemon[d].up = "up"

\* is_daemon_running: is the file there, does it answer; if not, whatever is
\* there by then is removed.
IsDaemonRunning(p, exists, connect, remove, yes, no) ==
    \/ /\ pc[p] = exists
       /\ Goto(p, IF socket = None THEN no ELSE connect)
       /\ UNCHANGED socket
    \/ /\ pc[p] = connect
       /\ Goto(p, IF Alive(socket) THEN yes ELSE remove)
       /\ UNCHANGED socket
    \/ /\ pc[p] = remove
       /\ Goto(p, no)
       /\ socket' = None

FindDaemon(p) ==
    /\ IsDaemonRunning(p, "provider", "probe", "unlink", "connect", "ensure")
    /\ UNCHANGED <<version, daemons, at, work, bounds>>

Connect(p) ==
    /\ pc[p] = "connect"
    /\ IF Alive(socket)
       THEN /\ conn' = [conn EXCEPT ![Key(p)] = [Closed EXCEPT !.to = socket, !.open = TRUE]]
            /\ daemon' = [daemon EXCEPT ![socket].backlog = Append(@, Key(p))]
            /\ own' = [own EXCEPT ![p] = None]
            /\ tardy' = [tardy EXCEPT ![p] = FALSE]
            /\ Enter(p, "open", graph[p])
       ELSE /\ Goto(p, "start")
            /\ UNCHANGED <<daemons, own, tardy, pass, todo, learnt>>
    /\ UNCHANGED <<files, at, graph, read, calls, late, cut>>

\* ensure_daemon looks again, and then starts a thread of this process.  That it
\* fails is ignored.
LookAgain(p) ==
    /\ IsDaemonRunning(p, "ensure", "probe again", "unlink again", "start", "spawn")
    /\ UNCHANGED <<version, daemons, at, work, bounds>>

EnsureDaemon(p) ==
    /\ pc[p] = "spawn"
    /\ daemon' = [daemon EXCEPT ![Key(p)].up = "starting"]
    /\ Goto(p, "start")
    /\ UNCHANGED <<files, conn, at, work, bounds>>

\* A server of this process's own; if it does not start, so for the language.
StartServer(p) ==
    /\ pc[p] = "start"
    /\ \/ /\ own' = [own EXCEPT ![p] = NewClient]
          /\ Enter(p, "open", graph[p])
          /\ UNCHANGED at
       \/ /\ NextLanguage(p)
          /\ UNCHANGED <<own, pass, todo, learnt>>
    /\ UNCHANGED <<files, daemons, graph, read, calls, bounds>>

Asked(p) == Head(todo[p])
Learn(p, answer) == learnt' = [learnt EXCEPT ![p] = @ \cup {[question |-> Asked(p), answer |-> answer]}]
Proceed(p) == todo' = [todo EXCEPT ![p] = Tail(@)]

\* The server's answer to a question of c, read or, after 30 s, given up.
\* wait_until_ready has waited for the indexing, or stopped waiting.
AskOpen(p) ==
    /\ Asked(p).kind = "open"
    /\ \E c \in Progressed(OpenFile(own[p], read[p])) : own' = [own EXCEPT ![p] = c]
    /\ UNCHANGED <<learnt, late>>

AskServer(p) ==
    /\ Asked(p).kind # "open"
    /\ \E c \in Progressed(own[p]) :
          LET r == Requested(c, Asked(p))
          IN \/ /\ own' = [own EXCEPT ![p] = Answered(r)]
                /\ Learn(p, Answer(r))
                /\ UNCHANGED late
             \/ /\ late < MaxLate
                /\ late' = late + 1
                /\ own' = [own EXCEPT ![p] = r]
                /\ UNCHANGED learnt

Ask(p) ==
    /\ pc[p] = "ask"
    /\ todo[p] # <<>>
    /\ own[p] # None
    /\ AskOpen(p) \/ AskServer(p)
    /\ Proceed(p)
    /\ UNCHANGED <<files, daemons, pc, at, graph, read, calls, pass, tardy, cut>>

\* Mutant of Lost: an end of file is no answer, and is waited past.
NeverLost(p) == FALSE

\* The daemon, or only the connection, is gone: every question fails.
Lost(p) == conn[Key(p)].to = None

Request(p) == [question |-> Asked(p), version |-> read[p]]

\* DaemonLspClient::send_recv
Send(p) ==
    /\ pc[p] = "ask"
    /\ todo[p] # <<>>
    /\ own[p] = None
    /\ IF Lost(p)
       THEN Proceed(p) /\ UNCHANGED <<pc, conn>>
       ELSE /\ conn' = [conn EXCEPT ![Key(p)].sent = Append(@, Request(p))]
            /\ Goto(p, "reply")
            /\ UNCHANGED todo
    /\ UNCHANGED <<files, daemon, at, graph, read, calls, pass, learnt, own, bounds>>

\* The next line, whatever was asked first; one of another kind is an error.
Receive(p) ==
    /\ pc[p] = "reply"
    /\ conn[Key(p)].answers # <<>>
    /\ LET a == Head(conn[Key(p)].answers)
       IN IF a.kind = Asked(p).kind /\ a.kind # "open"
          THEN Learn(p, a.answer)
          ELSE UNCHANGED learnt
    /\ conn' = [conn EXCEPT ![Key(p)].answers = Tail(@)]
    /\ Proceed(p)
    /\ Goto(p, "ask")
    /\ UNCHANGED <<files, daemon, at, graph, read, calls, pass, own, bounds>>

NoAnswer(p) == pc[p] = "reply" /\ conn[Key(p)].answers = <<>>

EndOfFile(p) ==
    /\ NoAnswer(p)
    /\ Lost(p)
    /\ Proceed(p)
    /\ Goto(p, "ask")
    /\ UNCHANGED <<files, daemons, at, graph, read, calls, pass, learnt, own, bounds>>

\* After 120 s, of a server that is starting or while another is served.
GiveUp(p) ==
    /\ NoAnswer(p)
    /\ ~ Lost(p)
    /\ late < MaxLate
    /\ late' = late + 1
    /\ tardy' = [tardy EXCEPT ![p] = TRUE]
    /\ Proceed(p)
    /\ Goto(p, "ask")
    /\ UNCHANGED <<files, daemons, at, graph, read, calls, pass, learnt, own, cut>>

EndPass(p) ==
    /\ pc[p] = "ask"
    /\ todo[p] = <<>>
    /\ \E g \in Applied(p) :
          /\ graph' = [graph EXCEPT ![p] = g]
          /\ Enter(p, Following(pass[p]), g)
    /\ cut' = [cut EXCEPT ![p] = @ \cup
                 IF pass[p] = "definition" THEN {at[p]} \X Nowhere(p) ELSE {}]
    /\ UNCHANGED <<files, daemons, at, read, calls, own, late, tardy>>

\* A server of its own is stopped; a daemon's stays.
Shutdown(p) ==
    /\ pc[p] = "shutdown"
    /\ NextLanguage(p)
    /\ own' = [own EXCEPT ![p] = None]
    /\ conn' = [conn EXCEPT ![Key(p)].open = FALSE]
    /\ UNCHANGED <<files, daemon, graph, read, calls, pass, todo, learnt, bounds>>

\* The connections to the daemons in D are lost.
Severed(D) == [k \in Keys |-> IF conn[k].to \in D THEN [conn[k] EXCEPT !.to = None] ELSE conn[k]]

\* The end of the process is the end of its daemons; their socket stays.
Exit(p) ==
    /\ pc[p] = "language"
    /\ at[p] > Len(Languages)
    /\ Goto(p, "gone")
    /\ daemon' = [d \in Keys |-> IF d[1] = p THEN Off ELSE daemon[d]]
    /\ conn' = Severed({d \in Keys : d[1] = p})
    /\ UNCHANGED <<files, at, work, bounds>>

-----------------------------------------------------------------------------
(* LspDaemon::run, handle_connection and handle_request *)

\* Whatever socket is there is removed first.
Bind(d) ==
    /\ daemon[d].up = "starting"
    /\ daemon' = [daemon EXCEPT ![d].up = "up"]
    /\ socket' = d
    /\ UNCHANGED <<version, conn, pc, at, work, bounds>>

Accept(d) ==
    /\ daemon[d].up = "up"
    /\ daemon[d].serving = None
    /\ daemon[d].backlog # <<>>
    /\ daemon' = [daemon EXCEPT ![d].serving = Head(daemon[d].backlog),
                                ![d].backlog = Tail(@)]
    /\ UNCHANGED <<files, conn, pc, at, work, bounds>>

\* The answers a request of connection k may get, and the servers after it; the
\* daemon's own wait for a server may end in vain, too.
Handled(d, k, request) ==
    LET l == k[2]
        c == daemon[d].servers[l]
        outcome(c2, reply, n) ==
            [servers |-> [daemon[d].servers EXCEPT ![l] = c2], reply |-> reply, late |-> n]
        failed(c2, n) == outcome(c2, [kind |-> "error"], n)
    IN IF request.question.kind = "open"
       THEN {outcome(OpenFile(IF c = NoServer THEN NewClient ELSE c, request.version),
                     [kind |-> "open"], 0)}
            \cup (IF c = NoServer THEN {failed(c, 0)} ELSE {})
       ELSE IF c = NoServer THEN {failed(c, 0)}
       ELSE UNION {LET r == Requested(p, request.question)
                   IN {outcome(Answered(r), [kind |-> request.question.kind,
                                             answer |-> Answer(r)], 0),
                       failed(r, 1)} : p \in Progressed(c)}

\* Its answer is written, or there is nobody to write it to.
Handle(d) ==
    /\ daemon[d].up = "up"
    /\ daemon[d].serving # None
    /\ LET k == daemon[d].serving
       IN /\ conn[k].sent # <<>>
          /\ \E h \in Handled(d, k, Head(conn[k].sent)) :
                /\ late + h.late <= MaxLate
                /\ late' = late + h.late
                /\ daemon' = [daemon EXCEPT
                     ![d].servers = h.servers,
                     ![d].serving = IF conn[k].open THEN k ELSE None]
                /\ conn' = [conn EXCEPT
                     ![k].sent = Tail(@),
                     ![k].answers = IF conn[k].open THEN Append(@, h.reply) ELSE @]
    /\ UNCHANGED <<files, pc, at, work, tardy, cut>>

HangUp(d) ==
    /\ daemon[d].up = "up"
    /\ daemon[d].serving # None
    /\ conn[daemon[d].serving].sent = <<>>
    /\ ~ conn[daemon[d].serving].open
    /\ daemon' = [daemon EXCEPT ![d].serving = None]
    /\ UNCHANGED <<files, conn, pc, at, work, bounds>>

\* The servers are idle for an hour, or there are none for five minutes.  The
\* socket that is there is removed, whoever bound it.
IdleExit(d) ==
    /\ daemon[d].up = "up"
    /\ daemon[d].serving = None
    /\ daemon' = [daemon EXCEPT ![d] = Off]
    /\ socket' = None
    /\ conn' = Severed({d})
    /\ UNCHANGED <<version, pc, at, work, bounds>>

-----------------------------------------------------------------------------

ProcStep(p) ==
    \/ TryLanguage(p) \/ FindDaemon(p) \/ Connect(p) \/ LookAgain(p) \/ EnsureDaemon(p)
    \/ StartServer(p)
    \/ Ask(p) \/ Send(p) \/ Receive(p) \/ EndOfFile(p) \/ GiveUp(p)
    \/ EndPass(p) \/ Shutdown(p) \/ Exit(p)

DaemonStep(d) == Bind(d) \/ Accept(d) \/ Handle(d) \/ HangUp(d) \/ IdleExit(d)

Next ==
    \/ \E p \in Procs : Extract(p) \/ ProcStep(p)
    \/ \E d \in Keys : DaemonStep(d)

\* Processes and daemons run; an extraction need not be started.
Fairness ==
    /\ \A p \in Procs : WF_vars(ProcStep(p))
    /\ \A d \in Keys : WF_vars(DaemonStep(d))

Spec == Init /\ [][Next]_vars /\ Fairness

-----------------------------------------------------------------------------
(* Properties *)

\* The answers an extraction works with are those to its own questions, and, of
\* a server of its own, from the contents it extracted; only on a connection on
\* which an answer was given up may a daemon's answers be to earlier questions.
OwnAnswers ==
    \A p \in Procs : tardy[p] \/ \A e \in learnt[p] :
        /\ e.answer.question = e.question
        /\ own[p] # None => e.answer.version = read[p]

\* "Refine call edges using LSP servers": an edge that is no call stays in the
\* graph as it was extracted, whatever the servers answer or fail to answer ...
Kept(p, i) == FirstGraph[i].relation # "calls" => FirstGraph[i] \in ToSet(graph[p])

\* ... unless it is behind an edge that was removed for an earlier language: the
\* indices that were collected are not those of the same edges from there on.
OnlyCallsRefined ==
    \A p \in Procs : \A i \in DOMAIN FirstGraph :
        Kept(p, i) \/ \E c \in cut[p] : c[1] < at[p] /\ c[2] < i

\* What the comment says of every edge, in a configuration of its own.
NoOtherEdgeTouched == \A p \in Procs : \A i \in DOMAIN FirstGraph : Kept(p, i)

\* The extractions that have started end, whichever servers and daemons fail, are
\* slow or go away with the process of another.
ExtractsEnd == []<>(\A p \in Procs : pc[p] \in {"new", "gone"})

====
