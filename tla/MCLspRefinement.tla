---- MODULE MCLspRefinement ----
(* A Rust file with a trait method and a function that call each other, and a  *)
(* Python file with a class; an edit moves a function by some lines.           *)
EXTENDS LspRefinement

RustOnly == <<"rust">>
TwoLanguages == <<"rust", "python">>

RustNodes == {"T", "f", "g"}
BothNodes == RustNodes \cup {"C", "m"}
MCFunctions == {"f", "g"}
BothFunctions == {"f", "g", "m"}
MCTraits == {"T"}

MCFileOf == [n \in BothNodes |-> IF n \in RustNodes THEN "rust" ELSE "python"]
MCLineOf == [T |-> 1, f |-> 3, g |-> 20, C |-> 1, m |-> 2]

Extracted(from, to, relation, site) ==
    [from |-> from, to |-> to, relation |-> relation, site |-> site, sure |-> FALSE]

\* f calls something that has the name of T.
RustGraph == <<Extracted("f", "T", "defined_in", "making a T"),
               Extracted("g", "f", "calls", "use of f")>>
\* m makes a C, so that C's name is found where m is.
BothGraph == <<Extracted("f", "g", "calls", "print"),
               Extracted("m", "m", "calls", "recursion"),
               Extracted("m", "C", "defined_in", "making a C")>>

\* The server's answers.
MCLocated(v, question) ==
    CASE question.about = "print" -> <<Outside>>
      [] question.about = "use of f" -> <<Location("rust", 2 + v)>>
      [] question.about = "recursion" -> <<Location("python", 1)>>
      [] question.about = "making a T" -> <<Location("rust", 0)>>
      [] question.about = "making a C" -> <<Location("python", 0)>>
      [] question.kind = "references" /\ question.about = "f" -> <<Location("rust", 19)>>
      [] question.kind = "implementations" /\ question.about = "f" -> <<Location("rust", 19)>>
      [] OTHER -> <<>>

====
