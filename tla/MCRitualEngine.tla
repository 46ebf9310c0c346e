--------------------------- MODULE MCRitualEngine ---------------------------
(***************************************************************************)
(* A ritual of three phases for TLC, shaped like the shipped ones: a skill *)
(* phase, a gated phase, and a last phase with a strategy of its own.      *)
(***************************************************************************)
EXTENDS RitualEngine

\* Every requirement, three strategies, a skip condition that another
\* phase's artifact satisfies, and hooks on the gated phase.
ApprovalA == <<"auto", "required", "optional">>
OnFailureA == <<"skip", "retry", "escalate">>
AttemptsA == <<0, 1, 0>>
SkipIfA == <<"none", "file_exists", "artifact_exists">>
SkipOnA == <<1, 2, 1>>
=============================================================================
