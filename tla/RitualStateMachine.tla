------------------------- MODULE RitualStateMachine -------------------------
(***************************************************************************)
(* The v2 ritual state machine, the pure function                          *)
(*   transition(state, event) -> (new_state, actions)                      *)
(* of crates/gid-core/src/ritual/state_machine.rs.  There is one action    *)
(* below per match arm, taking the event; what drives it is in V2Executor, *)
(* RunRitual and RitualSession.                                            *)
(*                                                                         *)
(* The actions that transition returns are the state's own notifications   *)
(* and saves, left out, and the event-producing one, kept in `action`:     *)
(* RunSkill is named by its skill, the others by themselves, "none" says   *)
(* that there is none.  Texts (task, error_context), tokens and the        *)
(* transition log are left out: no arm depends on them.                    *)
(***************************************************************************)
EXTENDS Naturals

CONSTANT NoProject   \* state.project is None

Docs == {"requirements", "design", "graph"}
WorkPhases == {"Initializing", "Triaging", "WritingRequirements", "Designing", "Reviewing",
               "Planning", "Graphing", "Implementing", "Verifying"}
Terminal == {"Done", "Escalated", "Cancelled"}
Paused == {"WaitingClarification", "WaitingApproval"}
RitualPhases == {"Idle"} \cup WorkPhases \cup Paused \cup Terminal
Targets == {"requirements", "design", "tasks"}
Sizes == {"small", "medium", "large"}
Skills == {"draft-requirements", "draft-design", "update-design", "generate-graph",
           "update-graph", "implement", "review-requirements", "review-design",
           "review-tasks"}
EventProducing ==
  Skills \cup {"DetectProject", "RunTriage", "RunShell", "RunHarness", "RunPlanning"}

\* The keys of phase_retries and the phase that counts under each.
RetryKeys == {"requirements", "designing", "graphing", "planning", "implementing"}
PhaseOfKey ==
  [k \in RetryKeys |-> CASE k = "requirements" -> "WritingRequirements"
                         [] k = "designing" -> "Designing"
                         [] k = "graphing" -> "Graphing"
                         [] k = "planning" -> "Planning"
                         [] k = "implementing" -> "Implementing"]
MaxVerifyRetries == 3
MaxPhaseRetries == 2
ReviewRounds == 2

VARIABLES
  phase, project, strategy, triage_size,   \* fields of RitualState
  verify_retries, phase_retries, failed_phase, review_target, review_round,
  action                                   \* the event-producing action returned

plan == <<project, strategy, triage_size>>
retries == <<verify_retries, phase_retries>>
review == <<review_target, review_round>>
machine == <<phase, plan, retries, failed_phase, review, action>>

\* RitualState::new
MachineInit ==
  /\ phase = "Idle" /\ action = "none"
  /\ project = NoProject /\ strategy = "none" /\ triage_size = "none"
  /\ verify_retries = 0 /\ phase_retries = [k \in RetryKeys |-> 0]
  /\ failed_phase = "none" /\ review_target = "none" /\ review_round = 0

-----------------------------------------------------------------------------
Has(d) == project # NoProject /\ d \in project
DesignSkill == IF Has("design") THEN "update-design" ELSE "draft-design"
GraphSkill == IF Has("graph") THEN "update-graph" ELSE "generate-graph"
ImplementAction == IF strategy = "multi" THEN "RunHarness" ELSE "implement"
ReviewSkill(target) ==
  CASE target = "requirements" -> "review-requirements"
    [] target = "tasks" -> "review-tasks"
    [] OTHER -> "review-design"

\* The work each phase is entered with, where transition has one answer for it.
WorkOf(p) ==
  CASE p = "Initializing" -> "DetectProject"
    [] p = "Triaging" -> "RunTriage"
    [] p = "WritingRequirements" -> "draft-requirements"
    [] p = "Designing" -> DesignSkill
    [] p = "Planning" -> "RunPlanning"
    [] p = "Graphing" -> GraphSkill
    [] p = "Implementing" -> ImplementAction
    [] p = "Verifying" -> "RunShell"
    [] OTHER -> "none"

\* Where the ritual goes when the review of its target is over.  An unknown
\* target defaults to Planning, like "design".
AfterReview(target) ==
  CASE target = "requirements" -> "Designing"
    [] target = "tasks" -> "Implementing"
    [] OTHER -> "Planning"

Goto(p, a) == phase' = p /\ action' = a
Enter(p) == Goto(p, WorkOf(p))
EnterReview(target) ==
  /\ Goto("Reviewing", ReviewSkill(target))
  /\ review_target' = target /\ UNCHANGED review_round
Escalate == Goto("Escalated", "none") /\ failed_phase' = phase

On(p, e, kind) == phase = p /\ e.kind = kind

-----------------------------------------------------------------------------
(***************************************************************************)
(* Normal flow.                                                            *)
(***************************************************************************)
Start(e) ==
  /\ On("Idle", e, "Start") /\ Enter("Initializing")
  /\ UNCHANGED <<plan, retries, failed_phase, review>>

Detected(e) ==
  /\ On("Initializing", e, "ProjectDetected") /\ Enter("Triaging")
  /\ project' = e.project
  /\ UNCHANGED <<strategy, triage_size, retries, failed_phase, review>>

\* A clear triage.  Its skip_graph changes nothing but a message, and is left out.
TriageClear(e) ==
  /\ On("Triaging", e, "TriageCompleted") /\ e.clarity = "clear"
  /\ triage_size' = e.size
  /\ Enter(IF e.skip_design THEN "Planning"
           ELSE IF Has("requirements") THEN "Designing" ELSE "WritingRequirements")
  /\ UNCHANGED <<project, strategy, retries, failed_phase, review>>

TriageUnclear(e) ==
  /\ On("Triaging", e, "TriageCompleted") /\ e.clarity # "clear"
  /\ Goto("WaitingClarification", "none")
  /\ UNCHANGED <<plan, retries, failed_phase, review>>

Clarify(e) ==
  /\ phase = "WaitingClarification" /\ e.kind \in {"UserClarification", "UserRetry"}
  /\ Enter("Triaging")
  /\ UNCHANGED <<plan, retries, failed_phase, review>>

\* Mutant of RequirementsDone: the review is started for the wrong document.
RequirementsDoneMisaimed(e) ==
  /\ On("WritingRequirements", e, "SkillCompleted")
  /\ Goto("Reviewing", ReviewSkill("design"))
  /\ review_target' = "requirements"
  /\ UNCHANGED <<plan, retries, failed_phase, review_round>>

RequirementsDone(e) ==
  /\ On("WritingRequirements", e, "SkillCompleted") /\ EnterReview("requirements")
  /\ UNCHANGED <<plan, retries, failed_phase>>

\* The review is skipped for a document that existed, unless the task is large.
ReviewNeeded(d) == ~ Has(d) \/ triage_size = "large"

DesignDone(e) ==
  /\ On("Designing", e, "SkillCompleted")
  /\ \/ ReviewNeeded("design") /\ EnterReview("design")
     \/ ~ ReviewNeeded("design") /\ Enter("Planning") /\ UNCHANGED review
  /\ UNCHANGED <<plan, retries, failed_phase>>

PlanDone(e) ==
  /\ On("Planning", e, "PlanDecided") /\ Enter("Graphing")
  /\ strategy' = e.strategy
  /\ UNCHANGED <<project, triage_size, retries, failed_phase, review>>

GraphDone(e) ==
  /\ On("Graphing", e, "SkillCompleted")
  /\ \/ ReviewNeeded("graph") /\ EnterReview("tasks")
     \/ ~ ReviewNeeded("graph") /\ Enter("Implementing") /\ UNCHANGED review
  /\ UNCHANGED <<plan, retries, failed_phase>>

ReviewDone(e) ==
  /\ On("Reviewing", e, "SkillCompleted") /\ Goto("WaitingApproval", "none")
  /\ review_round' = review_round + 1
  /\ UNCHANGED <<plan, retries, failed_phase, review_target>>

\* Mutant of ApprovedAgain: one round too many.
ApprovedAgainTooOften(e) ==
  /\ On("WaitingApproval", e, "UserApproval") /\ review_round <= ReviewRounds
  /\ Goto("Reviewing", ReviewSkill(review_target))
  /\ UNCHANGED <<plan, retries, failed_phase, review>>

\* Round 1 approved: review the same target again.
ApprovedAgain(e) ==
  /\ On("WaitingApproval", e, "UserApproval") /\ review_round < ReviewRounds
  /\ Goto("Reviewing", ReviewSkill(review_target))
  /\ UNCHANGED <<plan, retries, failed_phase, review>>

\* Round 2 approved, or the approval skipped: on to the next phase.
ApprovedOn(e) ==
  /\ phase = "WaitingApproval"
  /\ \/ e.kind = "UserApproval" /\ review_round >= ReviewRounds
     \/ e.kind = "UserSkipPhase"
  /\ Enter(AfterReview(review_target))
  /\ review_round' = 0
  /\ UNCHANGED <<plan, retries, failed_phase, review_target>>

\* A failed review does not block the ritual; review_round stays as it is.
ReviewFailed(e) ==
  /\ On("Reviewing", e, "SkillFailed") /\ Enter(AfterReview(review_target))
  /\ UNCHANGED <<plan, retries, failed_phase, review>>

\* Mutant of ImplementDone: the ritual is done without a verification.
ImplementDoneUnverified(e) ==
  /\ On("Implementing", e, "SkillCompleted")
  /\ Enter(IF verify_retries = 0 THEN "Verifying" ELSE "Done")
  /\ UNCHANGED <<plan, retries, failed_phase, review>>

ImplementDone(e) ==
  /\ On("Implementing", e, "SkillCompleted") /\ Enter("Verifying")
  /\ UNCHANGED <<plan, retries, failed_phase, review>>

VerifyPassed(e) ==
  /\ On("Verifying", e, "ShellCompleted") /\ e.exit_code = 0
  /\ Goto("Done", "none")
  /\ UNCHANGED <<plan, retries, failed_phase, review>>

-----------------------------------------------------------------------------
(***************************************************************************)
(* Failures and retries.                                                   *)
(***************************************************************************)
ShellFails(e) ==
  \/ e.kind = "ShellFailed"
  \/ e.kind = "ShellCompleted" /\ e.exit_code # 0

\* Back to Implementing, as one LLM whatever the strategy, or escalate.
VerifyFailed(e) ==
  /\ phase = "Verifying" /\ ShellFails(e)
  /\ \/ /\ verify_retries < MaxVerifyRetries
        /\ Goto("Implementing", "implement")
        /\ verify_retries' = verify_retries + 1 /\ UNCHANGED failed_phase
     \/ /\ verify_retries >= MaxVerifyRetries
        /\ Escalate /\ UNCHANGED verify_retries
  /\ UNCHANGED <<plan, phase_retries, review>>

RetryLeft(k) == phase = PhaseOfKey[k] /\ phase_retries[k] < MaxPhaseRetries

\* Mutant of SkillRetried: the retry is not counted.
SkillRetriedUncounted(e) ==
  /\ e.kind = "SkillFailed"
  /\ \E k \in RetryKeys : RetryLeft(k)
  /\ Goto(phase, IF phase = "Implementing" THEN "implement" ELSE WorkOf(phase))
  /\ UNCHANGED <<plan, verify_retries, phase_retries, failed_phase, review>>

\* The phase is run again, at most twice; a retried harness becomes one LLM.
SkillRetried(e) ==
  /\ e.kind = "SkillFailed"
  /\ \E k \in RetryKeys :
       /\ RetryLeft(k)
       /\ phase_retries' = [phase_retries EXCEPT ![k] = @ + 1]
  /\ Goto(phase, IF phase = "Implementing" THEN "implement" ELSE WorkOf(phase))
  /\ UNCHANGED <<plan, verify_retries, failed_phase, review>>

\* SkillFailed in any other phase, or with the retries used up.
SkillGaveUp(e) ==
  /\ e.kind = "SkillFailed" /\ phase # "Reviewing"
  /\ \A k \in RetryKeys : ~ RetryLeft(k)
  /\ Escalate
  /\ UNCHANGED <<plan, retries, review>>

-----------------------------------------------------------------------------
(***************************************************************************)
(* User events.                                                            *)
(***************************************************************************)
Cancel(e) ==
  /\ e.kind = "UserCancel" /\ Goto("Cancelled", "none")
  /\ UNCHANGED <<plan, retries, failed_phase, review>>

RetryPhase == IF failed_phase = "none" THEN "Implementing" ELSE failed_phase

\* (Escalated, UserRetry): the failed phase's counter is reset ("requirements"
\* has no such arm), Design, Graph and Triage start over with the detection of
\* the project, and a phase without an arm of its own runs "implement".
RetryEscalated(e) ==
  /\ On("Escalated", e, "UserRetry")
  /\ verify_retries' = IF RetryPhase = "Verifying" THEN 0 ELSE verify_retries
  /\ phase_retries' =
       [k \in RetryKeys |-> IF PhaseOfKey[k] = RetryPhase /\ k # "requirements"
                            THEN 0 ELSE phase_retries[k]]
  /\ \/ RetryPhase \in {"Designing", "Graphing", "Triaging"} /\ Enter("Initializing")
     \/ RetryPhase \in {"Planning", "Verifying"} /\ Enter(RetryPhase)
     \/ /\ RetryPhase \notin {"Designing", "Graphing", "Triaging", "Planning", "Verifying"}
        /\ Goto(RetryPhase, "implement")
  /\ UNCHANGED <<plan, failed_phase, review>>

\* (phase, UserSkipPhase) for the phases that can be skipped, and where to.
SkipTo ==
  [Initializing |-> IF project = NoProject THEN "Initializing" ELSE "Triaging",
   Triaging |-> "Designing", WritingRequirements |-> "Designing",
   Designing |-> "Planning", Reviewing |-> "Planning", Planning |-> "Graphing",
   Graphing |-> "Implementing", Implementing |-> "Verifying", Verifying |-> "Done"]

\* Mutant of SkipPhase: the project is not looked at when detection is skipped.
SkipPhaseUndetected(e) ==
  /\ e.kind = "UserSkipPhase" /\ phase \in WorkPhases
  /\ Enter(IF phase = "Initializing" THEN "Triaging" ELSE SkipTo[phase])
  /\ UNCHANGED <<plan, retries, failed_phase, review>>

\* Mutant of SkipPhase: skipping Planning returns no work for Graphing.
SkipPhaseIdle(e) ==
  /\ e.kind = "UserSkipPhase" /\ phase \in WorkPhases
  /\ Goto(SkipTo[phase], IF phase = "Planning" THEN "none" ELSE WorkOf(SkipTo[phase]))
  /\ UNCHANGED <<plan, retries, failed_phase, review>>

\* Mutant of SkipPhase: next() is followed into Reviewing without a target.
SkipPhaseToReview(e) ==
  /\ e.kind = "UserSkipPhase" /\ phase \in WorkPhases
  /\ IF phase = "WritingRequirements" THEN Goto("Reviewing", ReviewSkill(review_target))
                                      ELSE Enter(SkipTo[phase])
  /\ UNCHANGED <<plan, retries, failed_phase, review>>

SkipPhase(e) ==
  /\ e.kind = "UserSkipPhase" /\ phase \in WorkPhases
  /\ Enter(SkipTo[phase])
  /\ UNCHANGED <<plan, retries, failed_phase, review>>

\* Idle, WaitingClarification and the terminal phases cannot be skipped.
SkipRefused(e) ==
  /\ e.kind = "UserSkipPhase" /\ phase \in {"Idle", "WaitingClarification"} \cup Terminal
  /\ Escalate
  /\ UNCHANGED <<plan, retries, review>>

\* The events that the arms above expect, beside the ones expected everywhere.
Expected ==
  {<<"Idle", "Start">>, <<"Initializing", "ProjectDetected">>,
   <<"Triaging", "TriageCompleted">>, <<"WaitingClarification", "UserClarification">>,
   <<"WaitingClarification", "UserRetry">>, <<"WritingRequirements", "SkillCompleted">>,
   <<"Designing", "SkillCompleted">>, <<"Planning", "PlanDecided">>,
   <<"Graphing", "SkillCompleted">>, <<"Reviewing", "SkillCompleted">>,
   <<"WaitingApproval", "UserApproval">>, <<"Implementing", "SkillCompleted">>,
   <<"Verifying", "ShellCompleted">>, <<"Verifying", "ShellFailed">>,
   <<"Escalated", "UserRetry">>}

\* The catch-all arm.
Unexpected(e) ==
  /\ <<phase, e.kind>> \notin Expected
  /\ e.kind \notin {"SkillFailed", "UserCancel", "UserSkipPhase"}
  /\ Escalate
  /\ UNCHANGED <<plan, retries, review>>

Transition(e) ==
  \/ Start(e) \/ Detected(e) \/ TriageClear(e) \/ TriageUnclear(e) \/ Clarify(e)
  \/ RequirementsDone(e) \/ DesignDone(e) \/ PlanDone(e) \/ GraphDone(e)
  \/ ReviewDone(e) \/ ApprovedAgain(e) \/ ApprovedOn(e) \/ ReviewFailed(e)
  \/ ImplementDone(e) \/ VerifyPassed(e) \/ VerifyFailed(e)
  \/ SkillRetried(e) \/ SkillGaveUp(e)
  \/ Cancel(e) \/ RetryEscalated(e) \/ SkipPhase(e) \/ SkipRefused(e) \/ Unexpected(e)

-----------------------------------------------------------------------------
\* The types of the ritual state and of the pending action.
MachineTypeOK ==
  /\ phase \in RitualPhases
  /\ project \in {NoProject} \cup SUBSET Docs
  /\ strategy \in {"none", "single", "multi"}
  /\ triage_size \in {"none"} \cup Sizes
  /\ verify_retries \in 0..MaxVerifyRetries
  /\ phase_retries \in [RetryKeys -> 0..MaxPhaseRetries]
  /\ failed_phase \in {"none"} \cup RitualPhases
  /\ review_target \in {"none"} \cup Targets
  /\ review_round \in 0..ReviewRounds
  /\ action \in {"none"} \cup EventProducing

\* Where the ritual is, or will be again after a retry.
Place == IF phase = "Escalated" THEN failed_phase ELSE phase

\* The inductive invariant of transition under any sequence of events.
MachineInv ==
  /\ MachineTypeOK
  /\ phase \in WorkPhases => action # "none"
  /\ phase = "Escalated" => failed_phase # "none"
  /\ Place \in {"Reviewing", "WaitingApproval"} => review_target \in Targets
  /\ Place \in (WorkPhases \ {"Initializing"}) \cup Paused => project # NoProject
  /\ review_round >= ReviewRounds => Place \in {"WaitingApproval", "Cancelled", "Escalated"}

\* A work phase always has its event-producing action under way: no transition
\* leaves the ritual waiting for an event that nothing will produce.
NoSilentStall == phase \in WorkPhases => action # "none"

\* A review always knows what it reviews, so that the arms for an unknown
\* review_target are dead code; and a review still to be done has a round left.
ReviewsAreAimed ==
  /\ phase \in {"Reviewing", "WaitingApproval"} => review_target \in Targets
  /\ phase = "Reviewing" => review_round < ReviewRounds

\* Whatever is skipped, retried or late, no phase behind the triage runs before
\* the project has been detected ("Need project state, so re-detect if missing").
ProjectKnownPastDetection ==
  phase \in (WorkPhases \ {"Initializing"}) \cup Paused => project # NoProject
=============================================================================
