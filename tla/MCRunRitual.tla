----------------------------- MODULE MCRunRitual -----------------------------
(***************************************************************************)
(* run_ritual with an LLM and every skill prompt installed, and with       *)
(* neither.                                                                *)
(***************************************************************************)
EXTENDS RunRitual

AllPrompts == Skills
AnyDocs == SUBSET Docs
NewOrComplete == {{}, Docs}
=============================================================================
