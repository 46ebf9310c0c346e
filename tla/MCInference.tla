---------------------------- MODULE MCInference ----------------------------
(***************************************************************************)
(* Four files, two in one directory and one each in two others, with two   *)
(* functions; a task of the user's, and none, one or all of the code edges *)
(* that make a cluster, a hub, or a symbol in common; or one file, or none *)
(* until --source extracts them.                                           *)
(***************************************************************************)
EXTENDS Inference

FileIds == {"f1", "f2", "f3", "f4"}
DirOf == [f1 |-> <<"src", "net">>, f2 |-> <<"src", "net">>, f3 |-> <<"src", "ui">>, f4 |-> <<"docs">>]
WordsOf == [parse_packet |-> {"parse", "packet"}, packet_parser |-> {"packet", "parser"}]
SlugOf == [Login |-> "infer:feature:login", Pages |-> "infer:feature:pages"]

Code(type, title, file) ==
    [type |-> type, status |-> "done", source |-> "extract", title |-> title, file |-> file, size |-> 0]
CodeEdge(from, to, relation) == [NewEdge(from, to, relation) EXCEPT !.source = "extract"]

CodeNodesOf(files) ==
    [id \in files \cup {"m1", "m3"} |->
       CASE id = "m1" -> Code("function", "parse_packet", "f1")
         [] id = "m3" -> Code("function", "packet_parser", "f3")
         [] OTHER -> Code("file", id, None)]

DefinedIn == {CodeEdge("m1", "f1", "defined_in"), CodeEdge("m3", "f3", "defined_in")}
Calls == {CodeEdge("m1", "m3", "calls"), CodeEdge("f1", "f3", "imports")}
Hub == {CodeEdge("f1", "f2", "imports"), CodeEdge("m1", "f2", "uses"), CodeEdge("f3", "f2", "imports")}

Task == [type |-> "task", status |-> "todo", source |-> None, title |-> "t", file |-> "f1", size |-> 0]
WithTask(code, edges) == [NewGraph EXCEPT !.nodes = ("t" :> Task) @@ code, !.edges = edges]

Code4 == [NewGraph EXCEPT !.nodes = CodeNodesOf(FileIds), !.edges = DefinedIn \cup Calls]
Starts == {WithTask(CodeNodesOf(FileIds), DefinedIn \cup e) : e \in {{}, Calls \cup Hub}}
          \cup {WithTask(<<>>, {}), WithTask("f4" :> Code("file", "f4", None), {})}

Call(hierarchical, minSize, maxSize, level) ==
    [hierarchical |-> hierarchical, minSize |-> minSize, maxSize |-> maxSize, level |-> level,
     source |-> TRUE]
OptionsOf == {Call(FALSE, 2, 15, "all"), Call(FALSE, 3, 2, "component"), Call(TRUE, 2, 1, "all")}
AgainOf == {Call(FALSE, 5, 15, "component")}
ImportsOf == {<<"f4", "f1">>}
NoTypes == [id \in {} |-> None]
=============================================================================
