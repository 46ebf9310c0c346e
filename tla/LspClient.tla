---- MODULE LspClient ----
(***************************************************************************)
(* A client of one language server over its standard input and output      *)
(* (lsp_client.rs): requests are numbered, and an answer that comes after  *)
(* its request was given up is skipped by its number.                      *)
(*                                                                         *)
(* The server is external.  It answers the requests in their order, from   *)
(* the contents it has open, and finds nothing before it has indexed the   *)
(* project.  There is one file of each language.                           *)
(***************************************************************************)
EXTENDS Integers, SequencesExt

CONSTANTS
    Nodes,        \* of the graph: what its files define
    FileOf,       \* node -> file (its language, as there is one of each)
    LineOf,       \* node -> the line it starts on, from 1
    NoVersion,    \* of a file that is not open
    Located(_, _) \* contents, question -> sequence of the locations that answer it

\* A line the server names is counted from 0.
Location(file, line) == [file |-> file, line |-> line]

\* Of a library, or of the language itself.
Outside == Location("outside", 0)

\* get_definition: the first location, if it is inside the project.
FirstInside(locations) ==
    IF locations = <<>> \/ Head(locations) = Outside THEN {} ELSE {Head(locations)}

\* parse_locations: all of them that are inside.
AllInside(locations) == ToSet(locations) \ {Outside}

\* start: the process and the initialize handshake.
NewClient == [next |-> 1, answers |-> <<>>, opened |-> NoVersion, indexed |-> FALSE]

\* A file that is open is not opened again, whatever its contents are now.
OpenFile(c, version) == IF c.opened # NoVersion THEN c ELSE [c EXCEPT !.opened = version]

\* What the server answers: about the question, from the contents it has.
Reply(c, question) ==
    [id |-> c.next, question |-> question, version |-> c.opened,
     found |-> IF ~ c.indexed \/ c.opened = NoVersion THEN {}
               ELSE IF question.kind = "definition" THEN FirstInside(Located(c.opened, question))
               ELSE AllInside(Located(c.opened, question))]

\* send_request; the answer is on its way.
Requested(c, question) ==
    [c EXCEPT !.next = @ + 1, !.answers = Append(@, Reply(c, question))]

\* Mutant of Answer: the numbers are not compared.
AnswerFirst(c) == Head(c.answers)

\* read_response: it reads until the answer with the number of the last request.
Position(c) == CHOOSE i \in DOMAIN c.answers : c.answers[i].id = c.next - 1
Answer(c) == c.answers[Position(c)]
Answered(c) == [c EXCEPT !.answers = SubSeq(@, Position(c) + 1, Len(@))]

\* The server may have ended by now all of the work it has announced.
Progressed(c) == {c, [c EXCEPT !.indexed = TRUE]}

\* build_definition_target_index: the nodes by their line, counted from 1 where
\* the server counts from 0.
DefinitionTargets(file) == {n \in Nodes : FileOf[n] = file}

Distance(a, b) == IF a > b THEN a - b ELSE b - a

\* find_closest_node: no more than five lines away; of two as close, either.
ClosestNodes(location) ==
    LET near == {n \in DefinitionTargets(location.file) :
                    Distance(LineOf[n], location.line) <= 5}
    IN {n \in near : \A m \in near :
          Distance(LineOf[n], location.line) <= Distance(LineOf[m], location.line)}

====
