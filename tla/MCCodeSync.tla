---- MODULE MCCodeSync ----
(* A Rust file with two contents, with and without a type, and a Python file  *)
(* with a class that inherits from it; each may be missing.                   *)
EXTENDS CodeSync

MCFiles == {"a", "b"}
MCLanguage == [a |-> "rust", b |-> "python"]
MCPackage == [a |-> "crate/src", b |-> ""]
MCAbove == [d \in {"crate", "crate/src"} |-> IF d = "crate" THEN {} ELSE {"crate"}]
MCModuleName == [a |-> "src.a", b |-> "b"]
MCPartialNames == [a |-> {"a"}, b |-> {}]
MCNamedTests == {<<"b", "a">>}
MCTestFiles == {"b"}
MCBuiltins == [rust |-> {"len"}, python |-> {"len"}, typescript |-> {}]
MCLimit == [rust |-> 1, python |-> 1, typescript |-> 1]
MCTasks == {"t", "u"}
MCFirstTasks == {"t"}
MCNamed == [t |-> {"a"}, u |-> {}]

Call(from, to, kind) == [from |-> from, to |-> to, kind |-> kind, receiver |-> "none"]
Nothing == [funcs |-> {}, types |-> {}, impls |-> {}, parents |-> {}, calls |-> {},
            imports |-> {}, modules |-> {}]

TypeWithMethod == [Nothing EXCEPT !.funcs = {"f"}, !.types = {"T"}, !.impls = {<<"f", "T">>}]
\* Here the type is in the other file, and so is what is called on a value of it.
MethodOfOther ==
    [Nothing EXCEPT !.funcs = {"g"}, !.impls = {<<"g", "U">>},
                    !.calls = {[Call("g", "f", "method") EXCEPT !.receiver = "U"]}]
Subclass ==
    [Nothing EXCEPT !.funcs = {"m", "f"}, !.types = {"U"}, !.impls = {<<"m", "U">>, <<"f", "U">>},
                    !.parents = {<<"U", "T">>}, !.modules = {"a"}, !.imports = {"g"},
                    !.calls = {Call("m", "g", "plain"), Call("m", "f", "self")}]

MCContents == [a |-> {TypeWithMethod, MethodOfOther}, b |-> {Subclass}]
MCFirstDisks == {[f \in MCFiles |-> IF f = "a" THEN TypeWithMethod ELSE Subclass]}

MCBackends == {"yaml", "sqlite"}
====
