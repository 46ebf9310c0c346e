------------------------------ MODULE V2Executor ------------------------------
(***************************************************************************)
(* The v2 executor (crates/gid-core/src/ritual/v2_executor.rs): which      *)
(* events it may answer an event-producing action with, and what running   *)
(* the action does to the project.                                         *)
(***************************************************************************)
EXTENDS RitualStateMachine

CONSTANTS
  HasLLM,      \* config.llm_client is Some
  Prompts,     \* skills whose prompt load_skill_prompt finds
  StartDocs,   \* the sets of documents a project may start with
  TriageSizes  \* the sizes the triage LLM may answer

BuiltInPrompts ==
  {"draft-design", "update-design", "generate-graph", "update-graph", "implement"}

ASSUME ExecutorAssumption ==
  /\ HasLLM \in BOOLEAN
  /\ BuiltInPrompts \subseteq Prompts /\ Prompts \subseteq Skills
  /\ StartDocs \subseteq SUBSET Docs /\ TriageSizes \subseteq Sizes
  /\ \A known \in SUBSET Docs : known # NoProject

VARIABLE docs   \* documents that exist in the project directory

FullFlow == [kind |-> "TriageCompleted", clarity |-> "clear", size |-> "large",
             skip_design |-> FALSE]

\* run_triage: without an LLM, or when its answer cannot be had or parsed, the
\* full flow; else what it says, with skip_design forced when a design exists.
TriageAnswers ==
  {FullFlow} \cup
  {t \in [kind : {"TriageCompleted"}, clarity : {"clear", "ambiguous"}, size : TriageSizes,
          skip_design : BOOLEAN] :
     HasLLM /\ (Has("design") => t.skip_design)}

\* run_planning: multi_agent needs an LLM and a DESIGN.md to read.
PlanAnswers ==
  {[kind |-> "PlanDecided", strategy |-> s] :
     s \in {"single"} \cup (IF HasLLM /\ "design" \in docs THEN {"multi"} ELSE {})}

\* run_skill; RunHarness runs the skill "implement" with all the tasks.
SkillAnswers(a) ==
  LET skill == IF a = "RunHarness" THEN "implement" ELSE a IN
  {[kind |-> "SkillFailed"]} \cup
  (IF HasLLM /\ skill \in Prompts THEN {[kind |-> "SkillCompleted"]} ELSE {})

\* run_shell answers ShellCompleted only when the command succeeded.
ShellAnswers ==
  {[kind |-> "ShellCompleted", exit_code |-> 0], [kind |-> "ShellFailed"]}

\* execute: the events that the event-producing action a may end with.
Answers(a) ==
  CASE a = "DetectProject" -> {[kind |-> "ProjectDetected", project |-> docs]}
    [] a = "RunTriage" -> TriageAnswers
    [] a = "RunPlanning" -> PlanAnswers
    [] a = "RunShell" -> ShellAnswers
    [] OTHER -> SkillAnswers(a)

\* What the LLM of a skill may have written when the skill ends, either way.
Written(a) ==
  CASE a = "draft-requirements" -> {"requirements"}
    [] a = "draft-design" -> {"design"}
    [] a = "generate-graph" -> {"graph"}
    [] OTHER -> {}

\* Running a has ended with e.
Executed(a, e) ==
  /\ e \in Answers(a)
  /\ docs' \in {docs} \cup (IF HasLLM /\ a \in Prompts THEN {docs \cup Written(a)} ELSE {})
=============================================================================
