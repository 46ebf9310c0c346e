--------------------------- MODULE MCRitualSession ---------------------------
(***************************************************************************)
(* A user and an LLM with every skill prompt installed.                    *)
(***************************************************************************)
EXTENDS RitualSession

AllPrompts == Skills
AnyDocs == SUBSET Docs
NewOrComplete == {{}, Docs}
=============================================================================
