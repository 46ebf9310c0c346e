--------------------------- MODULE RitualV2Proofs ---------------------------
(***************************************************************************)
(* The ritual state machine and its two drivers.  transition keeps the     *)
(* machine's invariant, whatever event it is given.  With a user: safety   *)
(* for any number of user events, late answers and failures.  Without one: *)
(* run_ritual ends by itself, since every event brings it nearer to the    *)
(* end or uses up a retry, and Done only with a verified implementation.   *)
(***************************************************************************)
EXTENDS RunRitual, RitualSession, TLAPS

(* transition *)

\* What an event carries, for the kinds whose data transition stores.
EventOK(e) ==
  /\ e.kind = "ProjectDetected" => e.project \in SUBSET Docs
  /\ e.kind = "TriageCompleted" => e.size \in Sizes
  /\ e.kind = "PlanDecided" => e.strategy \in {"single", "multi"}

\* Whatever the executor answers is well formed, and a detected project is one
\* (execute of v2_executor.rs).
LEMMA AnswersAreEvents ==
  ASSUME docs \subseteq Docs, NEW a, NEW e \in Answers(a)
  PROVE  EventOK(e)
<1>1. CASE a = "DetectProject"
  <2>1. e = [kind |-> "ProjectDetected", project |-> docs]
    BY <1>1 DEF Answers
  <2> QED BY <2>1 DEF EventOK
<1>2. CASE a = "RunTriage"
  <2>1. e \in TriageAnswers
    BY <1>2 DEF Answers
  <2>2. CASE e = FullFlow
    BY <2>2 DEF FullFlow, Sizes, EventOK
  <2>3. CASE e # FullFlow
    <3>1. e \in [kind : {"TriageCompleted"}, clarity : {"clear", "ambiguous"},
                size : TriageSizes, skip_design : BOOLEAN]
      BY <2>1, <2>3 DEF TriageAnswers
    <3>2. e.kind = "TriageCompleted" /\ e.size \in TriageSizes
      BY <3>1
    <3> QED BY <3>2, ExecutorAssumption DEF EventOK, ExecutorAssumption
  <2> QED BY <2>2, <2>3
<1>3. CASE a = "RunPlanning"
  <2>1. e \in PlanAnswers
    BY <1>3 DEF Answers
  <2>2. e.kind = "PlanDecided" /\ e.strategy \in {"single", "multi"}
    BY <2>1 DEF PlanAnswers
  <2> QED BY <2>2 DEF EventOK
<1>4. CASE a = "RunShell"
  <2>1. e \in ShellAnswers
    BY <1>4 DEF Answers
  <2>2. e.kind \in {"ShellCompleted", "ShellFailed"}
    BY <2>1 DEF ShellAnswers
  <2> QED BY <2>2 DEF EventOK
<1>5. CASE a \notin {"DetectProject", "RunTriage", "RunPlanning", "RunShell"}
  <2>1. e \in SkillAnswers(a)
    BY <1>5 DEF Answers
  <2>2. e.kind \in {"SkillCompleted", "SkillFailed"}
    BY <2>1 DEF SkillAnswers
  <2> QED BY <2>2 DEF EventOK
<1> QED BY <1>1, <1>2, <1>3, <1>4, <1>5

\* The work a phase is entered with, when it is not a pause (WorkOf).
LEMMA WorkTyped ==
  /\ \A p : WorkOf(p) \in {"none"} \cup EventProducing
  /\ \A p \in WorkPhases \ {"Reviewing"} : WorkOf(p) # "none"
  /\ \A t : ReviewSkill(t) \in EventProducing /\ ReviewSkill(t) # "none"
BY DEF WorkOf, DesignSkill, GraphSkill, ImplementAction, ReviewSkill, EventProducing,
       Skills, WorkPhases

\* Every arm of transition keeps the invariant, for every event.
LEMMA TransitionKeeps ==
  ASSUME MachineInv, NEW e, EventOK(e), Transition(e)
  PROVE  MachineInv'
<1> USE DEF MachineInv, MachineTypeOK, Place, plan, retries, review, On, Goto, Enter
<1>0. /\ MaxVerifyRetries = 3 /\ MaxPhaseRetries = 2 /\ ReviewRounds = 2
      /\ \A known \in SUBSET Docs : known # NoProject
  BY ExecutorAssumption DEF ExecutorAssumption, MaxVerifyRetries, MaxPhaseRetries, ReviewRounds
<1>p. /\ RitualPhases = {"Idle"} \cup WorkPhases \cup Paused \cup Terminal
      /\ WorkPhases = {"Initializing", "Triaging", "WritingRequirements", "Designing",
                       "Reviewing", "Planning", "Graphing", "Implementing", "Verifying"}
      /\ Paused = {"WaitingClarification", "WaitingApproval"}
      /\ Terminal = {"Done", "Escalated", "Cancelled"}
  BY DEF RitualPhases, WorkPhases, Paused, Terminal
<1>1. CASE Start(e)
  BY <1>1, <1>0, <1>p, WorkTyped DEF Start
<1>2. CASE Detected(e)
  BY <1>2, <1>0, <1>p, WorkTyped DEF Detected, EventOK
<1>3. CASE TriageClear(e)
  BY <1>3, <1>0, <1>p, WorkTyped DEF TriageClear, EventOK
<1>4. CASE TriageUnclear(e)
  BY <1>4, <1>0, <1>p DEF TriageUnclear
<1>5. CASE Clarify(e)
  BY <1>5, <1>0, <1>p, WorkTyped DEF Clarify
<1>6. CASE RequirementsDone(e)
  BY <1>6, <1>0, <1>p, WorkTyped DEF RequirementsDone, EnterReview, Targets
<1>7. CASE DesignDone(e)
  BY <1>7, <1>0, <1>p, WorkTyped DEF DesignDone, EnterReview, Targets
<1>8. CASE PlanDone(e)
  BY <1>8, <1>0, <1>p, WorkTyped DEF PlanDone, EventOK
<1>9. CASE GraphDone(e)
  BY <1>9, <1>0, <1>p, WorkTyped DEF GraphDone, EnterReview, Targets
<1>10. CASE ReviewDone(e)
  BY <1>10, <1>0, <1>p DEF ReviewDone
<1>11. CASE ApprovedAgain(e)
  BY <1>11, <1>0, <1>p, WorkTyped DEF ApprovedAgain
<1>12. CASE ApprovedOn(e)
  BY <1>12, <1>0, <1>p, WorkTyped DEF ApprovedOn, AfterReview
<1>13. CASE ReviewFailed(e)
  BY <1>13, <1>0, <1>p, WorkTyped DEF ReviewFailed, AfterReview
<1>14. CASE ImplementDone(e)
  BY <1>14, <1>0, <1>p, WorkTyped DEF ImplementDone
<1>15. CASE VerifyPassed(e)
  BY <1>15, <1>0, <1>p DEF VerifyPassed
<1>16. CASE VerifyFailed(e)
  BY <1>16, <1>0, <1>p DEF VerifyFailed, Escalate, EventProducing, Skills
<1>17. CASE SkillRetried(e)
  BY <1>17, <1>0, <1>p, WorkTyped
     DEF SkillRetried, RetryLeft, PhaseOfKey, RetryKeys, EventProducing, Skills
<1>18. CASE SkillGaveUp(e)
  BY <1>18, <1>0, <1>p DEF SkillGaveUp, Escalate
<1>19. CASE Cancel(e)
  BY <1>19, <1>0, <1>p DEF Cancel
<1>20. CASE RetryEscalated(e)
  BY <1>20, <1>0, <1>p, WorkTyped DEF RetryEscalated, RetryPhase, EventProducing, Skills
<1>21. CASE SkipPhase(e)
  BY <1>21, <1>0, <1>p, WorkTyped DEF SkipPhase, SkipTo
<1>22. CASE SkipRefused(e)
  BY <1>22, <1>0, <1>p DEF SkipRefused, Escalate
<1>23. CASE Unexpected(e)
  BY <1>23, <1>0, <1>p DEF Unexpected, Escalate
<1> QED
  BY <1>1, <1>2, <1>3, <1>4, <1>5, <1>6, <1>7, <1>8, <1>9, <1>10, <1>11, <1>12, <1>13,
     <1>14, <1>15, <1>16, <1>17, <1>18, <1>19, <1>20, <1>21, <1>22, <1>23 DEF Transition

-----------------------------------------------------------------------------
(* A ritual with a user *)

\* The history counts reviews no faster than review_round does.
SessionInv == MachineInv /\ SessionTypeOK /\ rounds <= review_round

\* How review_round moves along the arms of transition, as the history sees it.
LEMMA RoundsFollow ==
  ASSUME MachineTypeOK, NEW e, Transition(e)
  PROVE  /\ phase = "Reviewing" /\ phase' = "WaitingApproval" => review_round' = review_round + 1
         /\ phase' \in {"Reviewing", "WaitingApproval"} \cup Terminal =>
              review_round' >= review_round
         /\ review_round' \in Nat
<1> USE DEF MachineTypeOK, plan, retries, review, On, Goto, Enter, Terminal
<1>0. review_round \in Nat
  BY DEF ReviewRounds
<1>1. CASE \/ Start(e) \/ Detected(e) \/ TriageClear(e) \/ TriageUnclear(e) \/ Clarify(e)
           \/ PlanDone(e) \/ ImplementDone(e) \/ VerifyPassed(e)
  BY <1>1, <1>0 DEF Start, Detected, TriageClear, TriageUnclear, Clarify, PlanDone,
                    ImplementDone, VerifyPassed
<1>2. CASE RequirementsDone(e) \/ DesignDone(e) \/ GraphDone(e)
  BY <1>2, <1>0 DEF RequirementsDone, DesignDone, GraphDone, EnterReview
<1>3. CASE ReviewDone(e)
  BY <1>3, <1>0 DEF ReviewDone
<1>4. CASE ApprovedAgain(e)
  BY <1>4, <1>0 DEF ApprovedAgain
<1>5. CASE ApprovedOn(e)
  BY <1>5, <1>0 DEF ApprovedOn, AfterReview
<1>6. CASE ReviewFailed(e)
  BY <1>6, <1>0 DEF ReviewFailed, AfterReview
<1>7. CASE VerifyFailed(e)
  BY <1>7, <1>0 DEF VerifyFailed, Escalate
<1>8. CASE SkillRetried(e)
  <2>1. phase' = phase /\ review_round' = review_round
    BY <1>8 DEF SkillRetried
  <2> QED BY <2>1, <1>0
<1>9. CASE SkillGaveUp(e) \/ SkipRefused(e) \/ Unexpected(e) \/ Cancel(e)
  BY <1>9, <1>0 DEF SkillGaveUp, SkipRefused, Unexpected, Cancel, Escalate
<1>10. CASE RetryEscalated(e)
  <2>1. phase = "Escalated" /\ review_round' = review_round
    BY <1>10 DEF RetryEscalated
  <2> QED BY <2>1, <1>0
<1>11. CASE SkipPhase(e)
  <2>1. phase' # "WaitingApproval" /\ review_round' = review_round
    BY <1>11 DEF SkipPhase, SkipTo, WorkPhases
  <2> QED BY <2>1, <1>0
<1> QED
  BY <1>1, <1>2, <1>3, <1>4, <1>5, <1>6, <1>7, <1>8, <1>9, <1>10, <1>11 DEF Transition

\* One application of transition by the consumer.
LEMMA ApplyKeeps ==
  ASSUME SessionInv, NEW e, EventOK(e), Apply(e)
  PROVE  /\ MachineInv' /\ rounds' \in Nat /\ rounds' <= review_round'
         /\ last' \in {"none", "answer"} \cup {u.kind : u \in UserEvents}
<1>1. MachineInv'
  BY TransitionKeeps DEF SessionInv, Apply
<1>2. rounds' \in Nat /\ rounds' <= review_round'
  <2>1. /\ phase = "Reviewing" /\ phase' = "WaitingApproval" => review_round' = review_round + 1
        /\ phase' \in {"Reviewing", "WaitingApproval"} \cup Terminal =>
             review_round' >= review_round
        /\ review_round' \in Nat /\ review_round \in Nat
    BY RoundsFollow DEF SessionInv, MachineInv, MachineTypeOK, Apply, ReviewRounds
  <2>2. rounds' = IF phase = "Reviewing" /\ phase' = "WaitingApproval" THEN rounds + 1
                  ELSE IF phase' \in {"Reviewing", "WaitingApproval"} \cup Terminal THEN rounds
                  ELSE 0
    BY DEF Apply
  <2>3. rounds \in Nat /\ rounds <= review_round
    BY DEF SessionInv, SessionTypeOK
  <2> QED BY <2>1, <2>2, <2>3 DEF Terminal
<1>3. last' \in {"none", "answer"} \cup {u.kind : u \in UserEvents}
  BY DEF Apply
<1> QED BY <1>1, <1>2, <1>3

LEMMA SessionStarts == SessionInit => SessionInv
<1> SUFFICES ASSUME SessionInit PROVE SessionInv
  OBVIOUS
<1>1. MachineTypeOK
  BY DEF SessionInit, MachineInit, MachineTypeOK, RitualPhases, MaxVerifyRetries, MaxPhaseRetries,
         ReviewRounds, RetryKeys
<1>2. MachineInv
  BY <1>1 DEF MachineInv, SessionInit, MachineInit, Place, WorkPhases, Paused, ReviewRounds
<1>3. docs \subseteq Docs
  BY ExecutorAssumption DEF SessionInit, ExecutorAssumption
<1> QED
  BY <1>1, <1>2, <1>3, SessionAssumption
     DEF SessionInv, SessionTypeOK, SessionInit, MachineInit, SessionAssumption

LEMMA SessionStep == SessionInv /\ [SessionNext]_sessionVars => SessionInv'
<1> SUFFICES ASSUME SessionInv, [SessionNext]_sessionVars PROVE SessionInv'
  OBVIOUS
<1>0. MachineInv => MachineTypeOK
  BY DEF MachineInv
<1>a. action \in {"none"} \cup EventProducing /\ docs \subseteq Docs
  BY DEF SessionInv, SessionTypeOK, MachineTypeOK
\* docs only grows by documents
<1>d. ASSUME NEW a, NEW e, Ends(a, e)
      PROVE  docs' \subseteq Docs /\ EventOK(e) /\ failures' \in 0..MaxFailures
  <2>1. Written(a) \subseteq Docs
    BY DEF Written, Docs
  <2>2. docs' \subseteq Docs
    BY <1>d, <1>a, <2>1 DEF Ends, Executed
  <2>3. EventOK(e)
    BY <1>d, <1>a, AnswersAreEvents DEF Ends, Executed
  <2>4. failures' \in 0..MaxFailures
    BY <1>d, SessionAssumption DEF Ends, SessionInv, SessionTypeOK, SessionAssumption
  <2> QED BY <2>2, <2>3, <2>4
<1>1. CASE Type
  <2>1. EventOK([kind |-> "Start"])
    BY DEF EventOK
  <2>2. Apply([kind |-> "Start"]) /\ UNCHANGED <<docs, superseded, user, late, failures>>
    BY <1>1 DEF Type
  <2> QED BY <2>1, <2>2, <1>0, <1>a, ApplyKeeps DEF SessionInv, SessionTypeOK, MachineInv
<1>2. CASE Answer
  <2>1. PICK e : Ends(action, e) /\ Apply(e)
    BY <1>2 DEF Answer
  <2>2. EventOK(e) /\ docs' \subseteq Docs /\ failures' \in 0..MaxFailures
    BY <2>1, <1>d
  <2>3. UNCHANGED <<superseded, user, late>>
    BY <1>2 DEF Answer
  <2> QED BY <2>1, <2>2, <2>3, ApplyKeeps DEF SessionInv, SessionTypeOK, MachineInv
<1>3. CASE UserActs
  <2>1. PICK e \in UserEvents : Apply(e)
    BY <1>3 DEF UserActs
  <2>2. EventOK(e)
    BY DEF EventOK, UserEvents
  <2>3. superseded' \in {"none"} \cup EventProducing /\ user' \in 0..MaxUserEvents
    BY <1>3, <1>a, SessionAssumption DEF UserActs, SessionInv, SessionTypeOK, SessionAssumption
  <2>4. UNCHANGED <<docs, late, failures>>
    BY <1>3 DEF UserActs
  <2> QED BY <2>1, <2>2, <2>3, <2>4, ApplyKeeps DEF SessionInv, SessionTypeOK, MachineInv
<1>4. CASE LateAnswer
  <2>1. PICK e : Ends(superseded, e) /\ Apply(e)
    BY <1>4 DEF LateAnswer
  <2>2. EventOK(e) /\ docs' \subseteq Docs /\ failures' \in 0..MaxFailures
    BY <2>1, <1>d
  <2>3. superseded' \in {"none"} \cup EventProducing /\ late' \in 0..MaxLate
    BY <1>4, <1>a, SessionAssumption DEF LateAnswer, SessionInv, SessionTypeOK, SessionAssumption
  <2>4. UNCHANGED user
    BY <1>4 DEF LateAnswer
  <2> QED BY <2>1, <2>2, <2>3, <2>4, ApplyKeeps DEF SessionInv, SessionTypeOK, MachineInv
<1>5. CASE UNCHANGED sessionVars
  BY <1>5 DEF sessionVars, machine, plan, retries, review, SessionInv, MachineInv, MachineTypeOK,
              Place, SessionTypeOK
<1> QED BY <1>1, <1>2, <1>3, <1>4, <1>5 DEF SessionNext

\* The invariant holds in every session, however long.
THEOREM SessionInvariant == SessionSpec => []SessionInv
<1>1. SessionInit => SessionInv
  BY SessionStarts
<1>2. SessionInv /\ [SessionNext]_sessionVars => SessionInv'
  BY SessionStep
<1> QED BY <1>1, <1>2, PTL DEF SessionSpec

\* Every reachable state is well typed: no retry counter and no review round
\* passes its limit (the guards of transition, with any user and late answers).
THEOREM SessionWellTyped == SessionSpec => []SessionTypeOK
<1>1. SessionInv => SessionTypeOK
  BY DEF SessionInv
<1> QED BY <1>1, SessionInvariant, PTL

\* No work phase is left without an event-producing action (transition's claim
\* "No silent no-ops").
THEOREM SessionNeverStalls == SessionSpec => []NoSilentStall
<1>1. SessionInv => NoSilentStall
  BY DEF SessionInv, MachineInv, NoSilentStall
<1> QED BY <1>1, SessionInvariant, PTL

\* Reviews know their target and have a round left (the arms for an unknown
\* review_target are dead code).
THEOREM SessionReviewsAimed == SessionSpec => []ReviewsAreAimed
<1>1. SessionInv => ReviewsAreAimed
  <2> SUFFICES ASSUME SessionInv PROVE ReviewsAreAimed
    OBVIOUS
  <2>1. phase \in {"Reviewing", "WaitingApproval"} => Place = phase
    BY DEF Place
  <2>2. review_round \in Nat
    BY DEF SessionInv, MachineInv, MachineTypeOK, ReviewRounds
  <2> QED BY <2>1, <2>2 DEF SessionInv, MachineInv, ReviewsAreAimed, ReviewRounds
<1> QED BY <1>1, SessionInvariant, PTL

\* Nothing behind the triage runs before the project is known (the UserSkipPhase
\* arm's re-detection).
THEOREM SessionProjectKnown == SessionSpec => []ProjectKnownPastDetection
<1>1. SessionInv => ProjectKnownPastDetection
  BY DEF SessionInv, MachineInv, Place, ProjectKnownPastDetection, WorkPhases, Paused
<1> QED BY <1>1, SessionInvariant, PTL

\* No document is reviewed more than twice (review_round of RitualState).
THEOREM SessionTwoRounds == SessionSpec => []TwoRoundsAtMost
<1>1. SessionInv => TwoRoundsAtMost
  BY DEF SessionInv, MachineInv, MachineTypeOK, SessionTypeOK, TwoRoundsAtMost, ReviewRounds
<1> QED BY <1>1, SessionInvariant, PTL

-----------------------------------------------------------------------------
(* run_ritual *)

\* The kinds of event with which the work of a phase may end.
KindsOf(p) ==
  CASE p = "Initializing" -> {"ProjectDetected"}
    [] p = "Triaging" -> {"TriageCompleted"}
    [] p = "Planning" -> {"PlanDecided"}
    [] p = "Verifying" -> {"ShellCompleted", "ShellFailed"}
    [] OTHER -> {"SkillCompleted", "SkillFailed"}

\* What the loop keeps, beside the machine's own invariant.
LoopInv ==
  /\ TypeOK /\ MachineInv
  /\ ActionFitsPhase /\ DoneMeansVerified
  /\ pc = "start" =>
       /\ phase = "Idle" /\ iteration = 0 /\ verify_retries = 0
       /\ \A k \in RetryKeys : phase_retries[k] = 0
  /\ pc = "looping" => /\ iteration <= max_iterations
                      /\ iteration + StepsLeft <= 11 + RetriesUsed
  /\ pc = "looping" /\ phase = "Verifying" => built = "implemented"
  /\ pc = "limit" => phase # "Done"
  /\ iteration <= LongestRitual

\* The executor answers the work of a phase with that phase's events.
LEMMA KindsFit ==
  ASSUME ActionFitsPhase, pc = "looping", NEW e \in Answers(action)
  PROVE  /\ phase \in WorkPhases /\ e.kind \in KindsOf(phase)
         /\ e.kind = "ShellCompleted" => e.exit_code = 0
<1>1. phase \in WorkPhases
  BY DEF ActionFitsPhase, WorkPhases
<1>2. CASE phase \in {"Initializing", "Triaging", "Planning", "Verifying"}
  <2>1. action = WorkOf(phase)
    BY <1>2 DEF ActionFitsPhase
  <2>2. CASE phase = "Initializing"
    BY <2>1, <2>2, <1>1 DEF WorkOf, Answers, KindsOf
  <2>3. CASE phase = "Triaging"
    <3>1. e \in TriageAnswers
      BY <2>1, <2>3 DEF WorkOf, Answers
    <3>2. e.kind = "TriageCompleted"
      <4>1. CASE e = FullFlow
        BY <4>1 DEF FullFlow
      <4>2. CASE e # FullFlow
        BY <3>1, <4>2 DEF TriageAnswers
      <4> QED BY <4>1, <4>2
    <3> QED BY <3>2, <2>3, <1>1 DEF KindsOf
  <2>4. CASE phase = "Planning"
    <3>1. e \in PlanAnswers
      BY <2>1, <2>4 DEF WorkOf, Answers
    <3>2. e.kind = "PlanDecided"
      BY <3>1 DEF PlanAnswers
    <3> QED BY <3>2, <2>4, <1>1 DEF KindsOf
  <2>5. CASE phase = "Verifying"
    <3>1. e \in ShellAnswers
      BY <2>1, <2>5 DEF WorkOf, Answers
    <3>2. \/ e = [kind |-> "ShellCompleted", exit_code |-> 0]
          \/ e = [kind |-> "ShellFailed"]
      BY <3>1 DEF ShellAnswers
    <3> QED BY <3>2, <2>5, <1>1 DEF KindsOf
  <2> QED BY <1>2, <2>2, <2>3, <2>4, <2>5
<1>3. CASE phase \notin {"Initializing", "Triaging", "Planning", "Verifying"}
  <2>1. action \notin {"DetectProject", "RunTriage", "RunPlanning", "RunShell"}
    BY <1>1, <1>3 DEF ActionFitsPhase, WorkPhases, WorkOf, DesignSkill, GraphSkill, ReviewSkill
  <2>2. e \in SkillAnswers(action)
    BY <2>1 DEF Answers
  <2>3. e.kind \in {"SkillCompleted", "SkillFailed"}
    BY <2>2 DEF SkillAnswers
  <2> QED BY <1>1, <1>3, <2>3 DEF KindsOf
<1> QED BY <1>2, <1>3

\* One turn of the loop: the next action fits the next phase, and the turn was a
\* step forward or used up a retry.
LEMMA TurnSpends ==
  ASSUME MachineInv, MachineInv', pc = "looping", phase \in WorkPhases,
         NEW e, e.kind \in KindsOf(phase), Transition(e),
         e.kind = "ShellCompleted" => e.exit_code = 0
  PROVE  /\ \/ UNCHANGED retries /\ StepsLeft' + 1 <= StepsLeft
            \/ StepsLeft' <= StepsLeft + 1 /\ RetriesUsed' = RetriesUsed + 2
            \/ StepsLeft' = StepsLeft /\ RetriesUsed' = RetriesUsed + 1
         /\ phase' \in WorkPhases =>
              CASE phase' = "Reviewing" -> action' = ReviewSkill(review_target)'
                [] phase' = "Implementing" -> action' \in {"implement", "RunHarness"}
                [] OTHER -> action' = WorkOf(phase)'
         /\ phase' \in WorkPhases \cup Paused \cup Terminal
         /\ phase' = "Verifying" => phase = "Implementing" /\ e.kind = "SkillCompleted"
         /\ phase' = "Done" => phase = "Verifying" /\ e.kind = "ShellCompleted"
<1> DEFINE Claim ==
      /\ \/ UNCHANGED retries /\ StepsLeft' + 1 <= StepsLeft
         \/ StepsLeft' <= StepsLeft + 1 /\ RetriesUsed' = RetriesUsed + 2
         \/ StepsLeft' = StepsLeft /\ RetriesUsed' = RetriesUsed + 1
      /\ phase' \in WorkPhases =>
           CASE phase' = "Reviewing" -> action' = ReviewSkill(review_target)'
             [] phase' = "Implementing" -> action' \in {"implement", "RunHarness"}
             [] OTHER -> action' = WorkOf(phase)'
      /\ phase' \in WorkPhases \cup Paused \cup Terminal
      /\ phase' = "Verifying" => phase = "Implementing" /\ e.kind = "SkillCompleted"
      /\ phase' = "Done" => phase = "Verifying" /\ e.kind = "ShellCompleted"
<1>. SUFFICES Claim
  OBVIOUS
<1>p. /\ WorkPhases = {"Initializing", "Triaging", "WritingRequirements", "Designing",
                       "Reviewing", "Planning", "Graphing", "Implementing", "Verifying"}
      /\ Paused = {"WaitingClarification", "WaitingApproval"}
      /\ Terminal = {"Done", "Escalated", "Cancelled"}
  BY DEF WorkPhases, Paused, Terminal
<1>t. phase = "Reviewing" => review_target \in {"requirements", "design", "tasks"}
  BY DEF MachineInv, Place, Targets
\* the steps left, phase by phase, now and after the turn
<1> DEFINE StepTable(p, t, n) ==
      /\ p = "Initializing" => n = 11
      /\ p = "Triaging" => n = 10
      /\ p = "WritingRequirements" => n = 9
      /\ p = "Reviewing" /\ t = "requirements" => n = 8
      /\ p = "Designing" => n = 7
      /\ p = "Reviewing" /\ t = "design" => n = 6
      /\ p = "Planning" => n = 5
      /\ p = "Graphing" => n = 4
      /\ p = "Reviewing" /\ t = "tasks" => n = 3
      /\ p = "Implementing" => n = 2
      /\ p = "Verifying" => n = 1
      /\ p \in {"WaitingClarification", "WaitingApproval", "Done", "Escalated"} => n = 0
<1>s. StepTable(phase, review_target, StepsLeft) /\ StepTable(phase', review_target', StepsLeft')
  BY DEF StepsLeft
<1> HIDE DEF StepsLeft
<1> USE DEF On, Goto, Enter, KindsOf
<1>2. CASE Detected(e)
  <2>1. /\ phase = "Initializing"
        /\ phase' = "Triaging"
        /\ UNCHANGED retries
        /\ action' = WorkOf(phase)'
    BY <1>2, <1>p DEF Detected, WorkOf
  <2>2. StepsLeft' + 1 <= StepsLeft
    BY <2>1, <1>s, <1>t
  <2> QED BY <2>1, <2>2, <1>p
<1>3. CASE TriageClear(e)
  <2>1. /\ phase = "Triaging"
        /\ phase' \in {"Planning", "Designing", "WritingRequirements"}
        /\ UNCHANGED retries
        /\ action' = WorkOf(phase)'
    BY <1>3, <1>p DEF TriageClear, WorkOf, DesignSkill, GraphSkill, ImplementAction, Has, plan, review, retries
  <2>2. StepsLeft' + 1 <= StepsLeft
    BY <2>1, <1>s, <1>t
  <2> QED BY <2>1, <2>2, <1>p
<1>4. CASE TriageUnclear(e)
  <2>1. /\ phase = "Triaging"
        /\ phase' = "WaitingClarification"
        /\ UNCHANGED retries
    BY <1>4, <1>p DEF TriageUnclear
  <2>2. StepsLeft' + 1 <= StepsLeft
    BY <2>1, <1>s, <1>t
  <2> QED BY <2>1, <2>2, <1>p
<1>6. CASE RequirementsDone(e)
  <2>1. /\ phase = "WritingRequirements"
        /\ phase' = "Reviewing"
        /\ UNCHANGED retries
        /\ review_target' = "requirements"
        /\ action' = ReviewSkill(review_target)'
    BY <1>6, <1>p DEF RequirementsDone, EnterReview, ReviewSkill
  <2>2. StepsLeft' + 1 <= StepsLeft
    BY <2>1, <1>s, <1>t
  <2> QED BY <2>1, <2>2, <1>p
<1>7. CASE DesignDone(e)
  <2>1. /\ phase = "Designing"
        /\ \/ phase' = "Reviewing" /\ review_target' = "design" /\ action' = ReviewSkill(review_target)'
           \/ phase' = "Planning" /\ action' = WorkOf(phase)'
        /\ UNCHANGED retries
    BY <1>7, <1>p DEF DesignDone, EnterReview, ReviewSkill, WorkOf
  <2>2. StepsLeft' + 1 <= StepsLeft
    BY <2>1, <1>s, <1>t
  <2> QED BY <2>1, <2>2, <1>p
<1>8. CASE PlanDone(e)
  <2>1. /\ phase = "Planning"
        /\ phase' = "Graphing"
        /\ UNCHANGED retries
        /\ action' = WorkOf(phase)'
    BY <1>8, <1>p DEF PlanDone, WorkOf, DesignSkill, GraphSkill, ImplementAction, Has, plan, review, retries
  <2>2. StepsLeft' + 1 <= StepsLeft
    BY <2>1, <1>s, <1>t
  <2> QED BY <2>1, <2>2, <1>p
<1>9. CASE GraphDone(e)
  <2>1. /\ phase = "Graphing"
        /\ \/ phase' = "Reviewing" /\ review_target' = "tasks" /\ action' = ReviewSkill(review_target)'
           \/ phase' = "Implementing" /\ action' \in {"implement", "RunHarness"}
        /\ UNCHANGED retries
    BY <1>9, <1>p DEF GraphDone, EnterReview, ReviewSkill, WorkOf, DesignSkill, GraphSkill, ImplementAction, Has, plan, review, retries
  <2>2. StepsLeft' + 1 <= StepsLeft
    BY <2>1, <1>s, <1>t
  <2> QED BY <2>1, <2>2, <1>p
<1>10. CASE ReviewDone(e)
  <2>1. /\ phase = "Reviewing"
        /\ phase' = "WaitingApproval"
        /\ UNCHANGED retries
    BY <1>10, <1>p DEF ReviewDone
  <2>2. StepsLeft' + 1 <= StepsLeft
    BY <2>1, <1>s, <1>t
  <2> QED BY <2>1, <2>2, <1>p
<1>13. CASE ReviewFailed(e)
  <2>1. /\ phase = "Reviewing"
        /\ UNCHANGED retries
        /\ \/ review_target = "requirements" /\ phase' = "Designing" /\ action' = WorkOf(phase)'
           \/ review_target = "design" /\ phase' = "Planning" /\ action' = WorkOf(phase)'
           \/ /\ review_target = "tasks" /\ phase' = "Implementing"
              /\ action' \in {"implement", "RunHarness"}
    BY <1>13, <1>p, <1>t DEF ReviewFailed, AfterReview, Targets, WorkOf, DesignSkill, GraphSkill, ImplementAction, Has, plan, review, retries
  <2>2. StepsLeft' + 1 <= StepsLeft
    BY <2>1, <1>s, <1>t
  <2> QED BY <2>1, <2>2, <1>p
<1>14. CASE ImplementDone(e)
  <2>1. /\ phase = "Implementing"
        /\ e.kind = "SkillCompleted"
        /\ phase' = "Verifying"
        /\ UNCHANGED retries
        /\ action' = WorkOf(phase)'
    BY <1>14, <1>p DEF ImplementDone, WorkOf
  <2>2. StepsLeft' + 1 <= StepsLeft
    BY <2>1, <1>s, <1>t
  <2> QED BY <2>1, <2>2, <1>p
<1>15. CASE VerifyPassed(e)
  <2>1. /\ phase = "Verifying"
        /\ e.kind = "ShellCompleted"
        /\ phase' = "Done"
        /\ UNCHANGED retries
    BY <1>15, <1>p DEF VerifyPassed
  <2>2. StepsLeft' + 1 <= StepsLeft
    BY <2>1, <1>s, <1>t
  <2> QED BY <2>1, <2>2, <1>p
<1>16. CASE VerifyFailed(e)
  <2>1. CASE phase' = "Implementing"
    <3>1. /\ phase = "Verifying" /\ action' = "implement" /\ phase_retries' = phase_retries
          /\ verify_retries' = verify_retries + 1
      BY <1>16, <2>1 DEF VerifyFailed, Escalate
    <3>2. RetriesUsed' = RetriesUsed + 2
      <4>1. verify_retries \in Nat /\ \A k \in RetryKeys : phase_retries[k] \in Nat
        BY DEF MachineInv, MachineTypeOK, MaxVerifyRetries, MaxPhaseRetries
      <4> QED BY <3>1, <4>1 DEF RetriesUsed, RetryKeys, MaxVerifyRetries, MaxPhaseRetries
    <3>3. StepsLeft' <= StepsLeft + 1
      BY <3>1, <2>1, <1>s
    <3> QED BY <3>1, <3>2, <3>3, <2>1, <1>p
  <2>2. CASE phase' # "Implementing"
    <3>1. phase = "Verifying" /\ phase' = "Escalated" /\ UNCHANGED retries
      BY <1>16, <2>2 DEF VerifyFailed, Escalate, retries
    <3>2. StepsLeft' + 1 <= StepsLeft
      BY <3>1, <1>s
    <3> QED BY <3>1, <3>2, <1>p
  <2> QED BY <2>1, <2>2
<1>17. CASE SkillRetried(e)
  <2>1. PICK k \in RetryKeys :
          /\ RetryLeft(k)
          /\ phase_retries' = [phase_retries EXCEPT ![k] = @ + 1]
    BY <1>17 DEF SkillRetried
  <2>2. /\ phase_retries \in [RetryKeys -> 0..MaxPhaseRetries]
        /\ verify_retries \in Nat
    BY DEF MachineInv, MachineTypeOK, MaxVerifyRetries
  <2>3. /\ e.kind = "SkillFailed" /\ phase' = phase /\ verify_retries' = verify_retries
        /\ action' = IF phase = "Implementing" THEN "implement" ELSE WorkOf(phase)
        /\ project' = project /\ strategy' = strategy /\ review_target' = review_target
    BY <1>17 DEF SkillRetried, plan, review
  <2>4. /\ phase \in {"WritingRequirements", "Designing", "Graphing", "Implementing"}
        /\ k # "planning"
    BY <2>1, <2>3, <1>p DEF RetryLeft, PhaseOfKey, RetryKeys
  <2>5. IF phase = "Implementing" THEN action' = "implement" ELSE action' = WorkOf(phase)'
    BY <2>3 DEF WorkOf, DesignSkill, GraphSkill, ImplementAction, Has
  <2>6. \A j \in RetryKeys : /\ phase_retries[j] \in Nat
                             /\ phase_retries'[j] = IF j = k THEN phase_retries[j] + 1
                                                             ELSE phase_retries[j]
    BY <2>1, <2>2 DEF MaxPhaseRetries
  <2>7. RetriesUsed' = RetriesUsed + 1
    <3>1. /\ phase_retries["requirements"] \in Nat /\ phase_retries["designing"] \in Nat
          /\ phase_retries["graphing"] \in Nat /\ phase_retries["implementing"] \in Nat
      BY <2>6 DEF RetryKeys
    <3>2. CASE k = "requirements"
      <4>1. /\ phase_retries'["requirements"] = phase_retries["requirements"] + 1
            /\ phase_retries'["designing"] = phase_retries["designing"]
            /\ phase_retries'["graphing"] = phase_retries["graphing"]
            /\ phase_retries'["implementing"] = phase_retries["implementing"]
        BY <2>6, <3>2 DEF RetryKeys
      <4> QED BY <2>2, <2>3, <3>1, <4>1 DEF RetriesUsed, MaxVerifyRetries, MaxPhaseRetries
    <3>3. CASE k = "designing"
      <4>1. /\ phase_retries'["requirements"] = phase_retries["requirements"]
            /\ phase_retries'["designing"] = phase_retries["designing"] + 1
            /\ phase_retries'["graphing"] = phase_retries["graphing"]
            /\ phase_retries'["implementing"] = phase_retries["implementing"]
        BY <2>6, <3>3 DEF RetryKeys
      <4> QED BY <2>2, <2>3, <3>1, <4>1 DEF RetriesUsed, MaxVerifyRetries, MaxPhaseRetries
    <3>4. CASE k = "graphing"
      <4>1. /\ phase_retries'["requirements"] = phase_retries["requirements"]
            /\ phase_retries'["designing"] = phase_retries["designing"]
            /\ phase_retries'["graphing"] = phase_retries["graphing"] + 1
            /\ phase_retries'["implementing"] = phase_retries["implementing"]
        BY <2>6, <3>4 DEF RetryKeys
      <4> QED BY <2>2, <2>3, <3>1, <4>1 DEF RetriesUsed, MaxVerifyRetries, MaxPhaseRetries
    <3>5. CASE k = "implementing"
      <4>1. /\ phase_retries'["requirements"] = phase_retries["requirements"]
            /\ phase_retries'["designing"] = phase_retries["designing"]
            /\ phase_retries'["graphing"] = phase_retries["graphing"]
            /\ phase_retries'["implementing"] = phase_retries["implementing"] + 1
        BY <2>6, <3>5 DEF RetryKeys
      <4> QED BY <2>2, <2>3, <3>1, <4>1 DEF RetriesUsed, MaxVerifyRetries, MaxPhaseRetries
    <3> QED BY <2>4, <3>2, <3>3, <3>4, <3>5 DEF RetryKeys
  <2>8. StepsLeft' = StepsLeft
    BY <2>3 DEF StepsLeft
  <2> QED BY <2>3, <2>4, <2>5, <2>7, <2>8, <1>p
<1>18. CASE SkillGaveUp(e)
  <2>1. /\ phase \in WorkPhases
        /\ phase # "Reviewing"
        /\ phase' = "Escalated"
        /\ UNCHANGED retries
    BY <1>18, <1>p DEF SkillGaveUp, Escalate
  <2>2. StepsLeft' + 1 <= StepsLeft
    BY <2>1, <1>s, <1>p
  <2> QED BY <2>1, <2>2, <1>p
<1>19. CASE \/ Start(e) \/ Clarify(e) \/ ApprovedAgain(e) \/ ApprovedOn(e) \/ Cancel(e)
            \/ RetryEscalated(e) \/ SkipPhase(e) \/ SkipRefused(e)
  BY <1>19, <1>p DEF Start, Clarify, ApprovedAgain, ApprovedOn, Cancel, RetryEscalated,
                     SkipPhase, SkipRefused
<1>20. CASE Unexpected(e)
  BY <1>20, <1>p DEF Unexpected, Expected
<1> HIDE DEF Claim, On, Goto, Enter, KindsOf
<1> QED
  BY <1>2, <1>3, <1>4, <1>6, <1>7, <1>8, <1>9, <1>10, <1>13, <1>14, <1>15, <1>16, <1>17,
     <1>18, <1>19, <1>20 DEF Transition

\* The numbers of the budget.
LEMMA BudgetTyped ==
  MachineInv => /\ StepsLeft \in 0..11 /\ RetriesUsed \in 0..14
                /\ phase \in WorkPhases => StepsLeft >= 1
<1> SUFFICES ASSUME MachineInv
             PROVE  /\ StepsLeft \in 0..11 /\ RetriesUsed \in 0..14
                    /\ phase \in WorkPhases => StepsLeft >= 1
  OBVIOUS
<1>1. RetriesUsed \in 0..14
  <2>1. /\ phase_retries["requirements"] \in 0..2 /\ phase_retries["designing"] \in 0..2
        /\ phase_retries["graphing"] \in 0..2 /\ phase_retries["implementing"] \in 0..2
        /\ verify_retries \in 0..3
    BY DEF MachineInv, MachineTypeOK, RetryKeys, MaxVerifyRetries, MaxPhaseRetries
  <2>2. \A a, b, c, d \in 0..2, v \in 0..3 : a + b + c + d + 2 * v \in 0..14
    OBVIOUS
  <2>3. RetriesUsed =
          phase_retries["requirements"] + phase_retries["designing"]
          + phase_retries["graphing"] + phase_retries["implementing"] + 2 * verify_retries
    BY DEF RetriesUsed
  <2> HIDE DEF RetriesUsed
  <2> QED BY <2>1, <2>2, <2>3
<1>2. StepsLeft \in 0..11
  BY DEF StepsLeft
<1>3. phase = "Reviewing" => review_target \in {"requirements", "design", "tasks"}
  BY DEF MachineInv, Place, Targets
<1>4. phase \in WorkPhases => StepsLeft >= 1
  BY <1>3 DEF StepsLeft, WorkPhases
<1> QED BY <1>1, <1>2, <1>4

LEMMA BudgetTypedNext ==
  (MachineInv => /\ StepsLeft \in 0..11 /\ RetriesUsed \in 0..14
                 /\ phase \in WorkPhases => StepsLeft >= 1)'
BY BudgetTyped, PTL

\* The loop starts within the budget.
LEMMA LoopInit == Init => LoopInv
<1> SUFFICES ASSUME Init PROVE LoopInv
  OBVIOUS
<1>0. phase_retries \in [RetryKeys -> 0..MaxPhaseRetries]
  BY DEF Init, MachineInit, MaxPhaseRetries
<1>1. MachineTypeOK
  <2>1. /\ phase = "Idle" /\ action = "none" /\ project = NoProject /\ strategy = "none"
        /\ triage_size = "none" /\ verify_retries = 0 /\ failed_phase = "none"
        /\ review_target = "none" /\ review_round = 0
    BY DEF Init, MachineInit
  <2> QED BY <1>0, <2>1 DEF MachineTypeOK, RitualPhases, MaxVerifyRetries, ReviewRounds
<1>2. MachineInv
  <2>1. phase = "Idle" /\ review_round = 0
    BY DEF Init, MachineInit
  <2> QED BY <1>1, <2>1 DEF MachineInv, Place, WorkPhases, Paused, ReviewRounds
<1>3. docs \subseteq Docs
  BY ExecutorAssumption DEF Init, ExecutorAssumption
<1>4. TypeOK
  <2>1. /\ pc = "start" /\ built = "nothing" /\ max_iterations \in Limits
        /\ iteration \in 0..(max_iterations + 1)
    BY LoopAssumption DEF Init, LoopAssumption
  <2> QED BY <1>1, <1>3, <2>1 DEF TypeOK
<1>5. pc = "start" /\ phase = "Idle" /\ iteration = 0 /\ verify_retries = 0
      /\ phase_retries = [k \in RetryKeys |-> 0]
  BY DEF Init, MachineInit
<1> QED BY <1>2, <1>4, <1>5 DEF LoopInv, ActionFitsPhase, DoneMeansVerified, LongestRitual

\* The first transition enters Initializing.
LEMMA BeginKeeps == LoopInv /\ Begin => LoopInv'
<1> SUFFICES ASSUME LoopInv, Begin PROVE LoopInv'
  OBVIOUS
<1> DEFINE s == [kind |-> "Start"]
<1>1. Transition(s) /\ s.kind = "Start" /\ pc = "start"
  BY DEF Begin
<1>2. phase = "Idle" /\ iteration = 0 /\ RetriesUsed = 0
  <2>1. /\ phase = "Idle" /\ iteration = 0 /\ verify_retries = 0
        /\ \A k \in RetryKeys : phase_retries[k] = 0
    BY <1>1 DEF LoopInv
  <2> QED BY <2>1 DEF RetriesUsed, RetryKeys
<1> HIDE DEF s
<1>3. Start(s)
  BY <1>1, <1>2 DEF Transition, On, Detected, TriageClear, TriageUnclear, Clarify,
     RequirementsDone, DesignDone, PlanDone, GraphDone, ReviewDone, ApprovedAgain, ApprovedOn,
     ReviewFailed, ImplementDone, VerifyPassed, VerifyFailed, ShellFails, SkillRetried,
     SkillGaveUp, Cancel, RetryEscalated, SkipPhase, SkipRefused, Unexpected, Expected
<1>4. phase' = "Initializing" /\ action' = "DetectProject" /\ UNCHANGED retries
  BY <1>3 DEF Start, Enter, Goto, WorkOf
<1>5. MachineInv'
  <2>1. EventOK(s)
    BY <1>1 DEF EventOK
  <2> QED BY <1>1, <2>1, TransitionKeeps DEF LoopInv
<1>6. pc' = "looping" /\ iteration' = 0 /\ UNCHANGED <<docs, built, max_iterations>>
  BY <1>2 DEF Begin
<1>10. max_iterations \in Nat
  BY LoopAssumption DEF LoopInv, TypeOK, LoopAssumption
<1>7. TypeOK'
  BY <1>5, <1>6, LoopAssumption DEF LoopInv, TypeOK, MachineInv, LoopAssumption
<1>8. ActionFitsPhase' /\ DoneMeansVerified'
  BY <1>4 DEF ActionFitsPhase, DoneMeansVerified, WorkPhases, WorkOf
<1>9. iteration' + StepsLeft' <= 11 + RetriesUsed'
  <2>1. StepsLeft' = 11
    BY <1>4 DEF StepsLeft
  <2>2. RetriesUsed' = RetriesUsed
    BY <1>4 DEF RetriesUsed, retries
  <2> QED BY <2>1, <2>2, <1>2, <1>6
<1> QED
  BY <1>4, <1>5, <1>6, <1>7, <1>8, <1>9, <1>10
     DEF LoopInv, LongestRitual

\* What the end of an action leaves in the project and in the history.
LEMMA RecordTyped ==
  ASSUME TypeOK, NEW a, NEW e, Executed(a, e), Record(a, e)
  PROVE  /\ docs' \subseteq Docs /\ e \in Answers(a)
         /\ built' \in {"nothing", "broken", "implemented", "verified"}
        
<1>1. docs' \subseteq Docs /\ e \in Answers(a)
  <2>1. Written(a) \subseteq Docs
    BY DEF Written, Docs
  <2>2. docs' = docs \/ docs' = docs \cup Written(a)
    BY DEF Executed
  <2> QED BY <2>1, <2>2 DEF TypeOK, Executed
<1>2. built' \in {"nothing", "broken", "implemented", "verified"}
  BY DEF Record, TypeOK
<1> QED BY <1>1, <1>2

\* Every turn keeps the invariant.
LEMMA LoopStep == LoopInv /\ [Next]_vars => LoopInv'
<1> SUFFICES ASSUME LoopInv, [Next]_vars PROVE LoopInv'
  OBVIOUS
<1>0. MachineInv /\ TypeOK /\ iteration \in Nat /\ max_iterations \in Nat
  BY LoopAssumption DEF LoopInv, TypeOK, LoopAssumption
<1>1. CASE Begin
  BY <1>1, BeginKeeps
<1>2. ASSUME NEW e, pc = "looping", Executed(action, e), Record(action, e)
      PROVE  /\ phase \in WorkPhases /\ e.kind \in KindsOf(phase) /\ EventOK(e)
             /\ e.kind = "ShellCompleted" => e.exit_code = 0
             /\ iteration + 1 <= 11 + RetriesUsed /\ 11 + RetriesUsed <= 25
             /\ docs' \subseteq Docs
             /\ built' \in {"nothing", "broken", "implemented", "verified"}
             /\ iteration + StepsLeft <= 11 + RetriesUsed
             /\ StepsLeft \in 0..11 /\ RetriesUsed \in 0..14
  <2>1. e \in Answers(action) /\ docs' \subseteq Docs
        /\ built' \in {"nothing", "broken", "implemented", "verified"}
    BY <1>0, <1>2, RecordTyped
  <2>2. /\ phase \in WorkPhases /\ e.kind \in KindsOf(phase)
        /\ e.kind = "ShellCompleted" => e.exit_code = 0
    BY <1>2, <2>1, KindsFit DEF LoopInv
  <2>3. EventOK(e)
    BY <1>0, <2>1, AnswersAreEvents DEF TypeOK
  <2>4. /\ StepsLeft \in 0..11 /\ StepsLeft >= 1 /\ RetriesUsed \in 0..14
        /\ iteration + StepsLeft <= 11 + RetriesUsed
    BY <1>0, <1>2, <2>2, BudgetTyped DEF LoopInv
  <2>5. iteration + 1 <= 11 + RetriesUsed /\ 11 + RetriesUsed <= 25
    BY <1>0, <2>4
  <2> QED BY <2>1, <2>2, <2>3, <2>4, <2>5
<1>3. CASE Iterate
  <2>1. PICK e : Executed(action, e) /\ Record(action, e) /\ Transition(e)
    BY <1>3 DEF Iterate
  <2>2. /\ pc = "looping" /\ iteration < max_iterations /\ iteration' = iteration + 1 /\ Onward
        /\ max_iterations' = max_iterations
    BY <1>3 DEF Iterate
  <2>3. /\ phase \in WorkPhases /\ e.kind \in KindsOf(phase) /\ EventOK(e)
        /\ e.kind = "ShellCompleted" => e.exit_code = 0
        /\ iteration + 1 <= 11 + RetriesUsed /\ 11 + RetriesUsed <= 25
        /\ docs' \subseteq Docs
        /\ built' \in {"nothing", "broken", "implemented", "verified"}
        /\ iteration + StepsLeft <= 11 + RetriesUsed
        /\ StepsLeft \in 0..11 /\ RetriesUsed \in 0..14
    BY <1>2, <2>1, <2>2
  <2>4. MachineInv'
    BY <1>0, <2>1, <2>3, TransitionKeeps
  <2>5. /\ \/ UNCHANGED retries /\ StepsLeft' + 1 <= StepsLeft
           \/ StepsLeft' <= StepsLeft + 1 /\ RetriesUsed' = RetriesUsed + 2
           \/ StepsLeft' = StepsLeft /\ RetriesUsed' = RetriesUsed + 1
        /\ phase' \in WorkPhases =>
             CASE phase' = "Reviewing" -> action' = ReviewSkill(review_target)'
               [] phase' = "Implementing" -> action' \in {"implement", "RunHarness"}
               [] OTHER -> action' = WorkOf(phase)'
        /\ phase' \in WorkPhases \cup Paused \cup Terminal
        /\ phase' = "Verifying" => phase = "Implementing" /\ e.kind = "SkillCompleted"
        /\ phase' = "Done" => phase = "Verifying" /\ e.kind = "ShellCompleted"
    BY <1>0, <2>1, <2>2, <2>3, <2>4, TurnSpends
  <2>6. iteration' + StepsLeft' <= 11 + RetriesUsed'
    <3>1. StepsLeft' \in 0..11 /\ RetriesUsed' \in 0..14
      BY <2>4, BudgetTypedNext
    <3>2. UNCHANGED retries => RetriesUsed' = RetriesUsed
      BY DEF retries, RetriesUsed
    <3> QED BY <1>0, <2>2, <2>3, <2>5, <3>1, <3>2
  <2>7. pc' = "looping" => phase' \in WorkPhases
    BY <2>2, <2>5 DEF Onward
  <2>8. pc' \in {"looping", "returned"} /\ (phase' = "Done" => pc' = "returned")
    BY <2>2 DEF Onward, Terminal
  <2>9. TypeOK'
    <3>1. iteration' \in 0..(max_iterations' + 1) /\ max_iterations' \in Limits
      BY <1>0, <2>2 DEF TypeOK
    <3> QED BY <2>3, <2>4, <2>8, <3>1 DEF TypeOK, MachineInv
  <2>10. ActionFitsPhase'
    BY <2>5, <2>7 DEF ActionFitsPhase
  <2>11. phase' = "Verifying" => built' = "implemented"
    BY <2>1, <2>2, <2>5 DEF LoopInv, ActionFitsPhase, Record
  <2>12. phase' = "Done" => built' = "verified"
    <3>1. phase = "Verifying" => action = "RunShell" /\ built = "implemented"
      BY <2>2 DEF LoopInv, ActionFitsPhase, WorkOf
    <3> QED BY <2>1, <2>5, <3>1 DEF Record
  <2>13. iteration' <= max_iterations' /\ iteration' <= 25
    BY <1>0, <2>2, <2>3
  <2> QED
    BY <2>4, <2>6, <2>8, <2>9, <2>10, <2>11, <2>12, <2>13
       DEF LoopInv, DoneMeansVerified, LongestRitual
<1>4. CASE GiveUp
  <2> DEFINE f == [kind |-> "SkillFailed"]
  <2>1. PICK e : Executed(action, e) /\ Record(action, e)
    BY <1>4 DEF GiveUp
  <2>2. /\ pc = "looping" /\ iteration <= max_iterations /\ iteration' = iteration + 1
        /\ max_iterations' = max_iterations
        /\ pc' = "limit" /\ Transition(f) /\ f.kind = "SkillFailed"
    BY <1>4 DEF GiveUp, LoopInv
  <2> HIDE DEF f
  <2>3. /\ phase \in WorkPhases /\ iteration + 1 <= 11 + RetriesUsed /\ 11 + RetriesUsed <= 25
        /\ docs' \subseteq Docs
        /\ built' \in {"nothing", "broken", "implemented", "verified"}
        /\ RetriesUsed \in 0..14
    BY <1>2, <2>1, <2>2
  <2>4. MachineInv'
    <3>1. EventOK(f)
      BY <2>2 DEF EventOK
    <3> QED BY <1>0, <2>2, <3>1, TransitionKeeps
  <2>5. TypeOK'
    <3>1. iteration' \in 0..(max_iterations' + 1) /\ max_iterations' \in Limits
      BY <1>0, <2>2 DEF TypeOK
    <3> QED BY <2>2, <2>3, <2>4, <3>1 DEF TypeOK, MachineInv
  <2>6. phase' # "Done"
    <3>1. ReviewFailed(f) \/ SkillRetried(f) \/ SkillGaveUp(f)
      BY <2>2, <2>3 DEF Transition, On, Start, Detected, TriageClear, TriageUnclear, Clarify,
         RequirementsDone, DesignDone, PlanDone, GraphDone, ReviewDone, ApprovedAgain,
         ApprovedOn, ImplementDone, VerifyPassed, VerifyFailed, ShellFails, Cancel,
         RetryEscalated, SkipPhase, SkipRefused, Unexpected
    <3> QED BY <2>3, <3>1 DEF ReviewFailed, SkillRetried, SkillGaveUp, Escalate, Enter, Goto,
              AfterReview, WorkPhases
  <2>7. iteration' <= 25
    BY <1>0, <2>2, <2>3
  <2> QED
    BY <2>2, <2>4, <2>5, <2>6, <2>7
       DEF LoopInv, ActionFitsPhase, DoneMeansVerified, LongestRitual
<1>5. CASE FinalActions
  <2>1. PICK e : Executed(action, e) /\ Record(action, e)
    BY <1>5 DEF FinalActions
  <2>2. /\ pc = "limit" /\ pc' = "returned"
        /\ UNCHANGED <<machine, max_iterations, iteration>>
    BY <1>5 DEF FinalActions
  <2>3. docs' \subseteq Docs /\ built' \in {"nothing", "broken", "implemented", "verified"}
    BY <1>0, <2>1, RecordTyped
  <2>4. MachineInv' /\ MachineTypeOK'
    BY <1>0, <2>2 DEF machine, plan, retries, review, TypeOK, MachineInv, MachineTypeOK, Place,
                      ReviewRounds
  <2>5. TypeOK'
    BY <1>0, <2>2, <2>3, <2>4 DEF TypeOK
  <2>6. phase' # "Done" /\ iteration' <= LongestRitual
    BY <2>2 DEF machine, LoopInv
  <2> QED BY <2>2, <2>4, <2>5, <2>6 DEF LoopInv, ActionFitsPhase, DoneMeansVerified
<1>6. CASE UNCHANGED vars
  BY <1>6 DEF vars, machine, plan, retries, review, LoopInv, TypeOK, MachineInv,
              MachineTypeOK, Place, ActionFitsPhase, DoneMeansVerified, StepsLeft, RetriesUsed,
              WorkOf, DesignSkill, GraphSkill, ImplementAction, Has
<1> QED BY <1>1, <1>3, <1>4, <1>5, <1>6 DEF Next

\* The invariant of the loop, for every limit, set of prompts and project.
THEOREM LoopInvariant == Spec => []LoopInv
<1>1. Init => LoopInv
  BY LoopInit
<1>2. LoopInv /\ [Next]_vars => LoopInv'
  BY LoopStep
<1> QED BY <1>1, <1>2, PTL DEF Spec

\* The loop's state is always well typed.
THEOREM LoopTypeOK == Spec => []TypeOK
<1>1. LoopInv => TypeOK
  BY DEF LoopInv
<1> QED BY <1>1, LoopInvariant, PTL

\* The action under way is the work of the current phase.
THEOREM LoopActionFits == Spec => []ActionFitsPhase
<1>1. LoopInv => ActionFitsPhase
  BY DEF LoopInv
<1> QED BY <1>1, LoopInvariant, PTL

\* No ritual is Done whose last implementation was not verified afterwards.
THEOREM LoopDoneVerified == Spec => []DoneMeansVerified
<1>1. LoopInv => DoneMeansVerified
  BY DEF LoopInv
<1> QED BY <1>1, LoopInvariant, PTL

\* Every review knows its document and has a round left.
THEOREM LoopReviewsAimed == Spec => []ReviewsAreAimed
<1>1. LoopInv => ReviewsAreAimed
  <2> SUFFICES ASSUME LoopInv PROVE ReviewsAreAimed
    OBVIOUS
  <2>1. phase \in {"Reviewing", "WaitingApproval"} => Place = phase
    BY DEF Place
  <2>2. review_round \in Nat
    BY DEF LoopInv, MachineInv, MachineTypeOK, ReviewRounds
  <2> QED BY <2>1, <2>2 DEF LoopInv, MachineInv, ReviewsAreAimed, ReviewRounds
<1> QED BY <1>1, LoopInvariant, PTL

\* However skills and verifications fail, run_ritual takes at most 25 turns.
THEOREM LoopEnds == Spec => []EndsByItself
<1>1. LoopInv => EndsByItself
  BY DEF LoopInv, EndsByItself
<1> QED BY <1>1, LoopInvariant, PTL

\* With a limit of 25 or more, 50 in the code, max_iterations is never reached:
\* the branch that gives a ritual up is dead code.
THEOREM LimitNeverReached ==
  ASSUME \A n \in Limits : n >= 25
  PROVE  Spec => [][~ GiveUp]_vars
<1>1. LoopInv => ~ GiveUp
  <2> SUFFICES ASSUME LoopInv, pc = "looping" PROVE iteration < 25
    BY LoopAssumption DEF GiveUp, LoopAssumption, LoopInv, TypeOK
  <2>1. phase \in WorkPhases /\ MachineInv /\ iteration \in Nat
    BY DEF LoopInv, TypeOK, ActionFitsPhase, WorkPhases
  <2>2. StepsLeft >= 1 /\ StepsLeft \in 0..11 /\ RetriesUsed \in 0..14
    BY <2>1, BudgetTyped
  <2> QED BY <2>1, <2>2 DEF LoopInv
<1> QED BY <1>1, LoopInvariant, PTL
=============================================================================
