------------------------------ MODULE RunRitual ------------------------------
(***************************************************************************)
(* run_ritual (crates/gid-core/src/ritual/v2_executor.rs): the loop that   *)
(* drives the state machine with the executor's events alone, until a      *)
(* terminal or paused phase, or the safety limit on iterations.  One step  *)
(* of the model is one turn of the loop: the event of the action under way *)
(* arrives, and transition is applied to it.                               *)
(***************************************************************************)
EXTENDS V2Executor

CONSTANT Limits   \* the values of max_iterations to look at, 50 in the code

ASSUME LoopAssumption == Limits \subseteq Nat

VARIABLES
  pc,          \* "start", "looping", "limit" or "returned"
  max_iterations,
  iteration,
  built        \* history: what the executor has really done to the code

vars == <<machine, docs, pc, max_iterations, iteration, built>>

\* The loop goes on while the phase is neither terminal nor paused and the
\* actions just executed produce an event.
Onward ==
  pc' = IF phase' \in Terminal \cup Paused \/ action' = "none" THEN "returned" ELSE "looping"

\* What the end of action a with event e says about the code.
Record(a, e) ==
  built' = CASE a \in {"implement", "RunHarness"} ->
                  IF e.kind = "SkillCompleted" THEN "implemented" ELSE "broken"
             [] a = "RunShell" /\ e.kind = "ShellCompleted" /\ built = "implemented" ->
                  "verified"
             [] OTHER -> built

\* The initial transition, before the loop.
Begin ==
  /\ pc = "start"
  /\ Transition([kind |-> "Start"])
  /\ pc' = "looping"
  /\ UNCHANGED <<docs, max_iterations, iteration, built>>

\* One turn of the loop.
Iterate ==
  /\ pc = "looping" /\ iteration < max_iterations
  /\ \E e \in Answers(action) : Executed(action, e) /\ Record(action, e) /\ Transition(e)
  /\ iteration' = iteration + 1 /\ UNCHANGED max_iterations
  /\ Onward

\* The limit: the event in hand is dropped and a SkillFailed applied instead.
GiveUp ==
  /\ pc = "looping" /\ iteration >= max_iterations
  /\ \E e \in Answers(action) : Executed(action, e) /\ Record(action, e)
  /\ Transition([kind |-> "SkillFailed"])
  /\ iteration' = iteration + 1 /\ UNCHANGED max_iterations
  /\ pc' = "limit"

\* The action that leads to is executed, its event dropped, and the loop is left
\* in whatever phase it is.
FinalActions ==
  /\ pc = "limit"
  /\ \E e \in Answers(action) : Executed(action, e) /\ Record(action, e)
  /\ pc' = "returned"
  /\ UNCHANGED <<machine, max_iterations, iteration>>

Init ==
  /\ MachineInit /\ docs \in StartDocs
  /\ pc = "start" /\ max_iterations \in Limits /\ iteration = 0
  /\ built = "nothing"

Next == Begin \/ Iterate \/ GiveUp \/ FinalActions
Spec == Init /\ [][Next]_vars

-----------------------------------------------------------------------------
\* The types of the loop's state.
TypeOK ==
  /\ MachineTypeOK /\ docs \subseteq Docs
  /\ pc \in {"start", "looping", "limit", "returned"}
  /\ max_iterations \in Limits /\ iteration \in 0..(max_iterations + 1)
  /\ built \in {"nothing", "broken", "implemented", "verified"}

\* Without a user the action under way is always the one its phase is for, and
\* the loop has not returned early from a phase that still has work to do.
ActionFitsPhase ==
  pc = "looping" =>
    CASE phase = "Reviewing" -> action = ReviewSkill(review_target)
      [] phase = "Implementing" -> action \in {"implement", "RunHarness"}
      [] OTHER -> phase \in WorkPhases /\ action = WorkOf(phase)

\* A ritual is Done only when the last implementation was verified after it was
\* written: not before it, and not an earlier version of it.
DoneMeansVerified == phase = "Done" => built = "verified"

\* The events from a phase to the end, if nothing fails, and the ones that
\* retries have added, a failed verification costing two.
StepsLeft ==
  CASE phase \in {"Idle", "Initializing"} -> 11
    [] phase = "Triaging" -> 10
    [] phase = "WritingRequirements" -> 9
    [] phase = "Reviewing" /\ review_target = "requirements" -> 8
    [] phase = "Designing" -> 7
    [] phase = "Reviewing" /\ review_target = "design" -> 6
    [] phase = "Planning" -> 5
    [] phase = "Graphing" -> 4
    [] phase = "Reviewing" /\ review_target = "tasks" -> 3
    [] phase = "Implementing" -> 2
    [] phase = "Verifying" -> 1
    [] OTHER -> 0
RetriesUsed ==
  phase_retries["requirements"] + phase_retries["designing"] + phase_retries["graphing"]
  + phase_retries["implementing"] + 2 * verify_retries

\* The longest chain of events a ritual can go through.
LongestRitual == 25

\* However skills and verifications fail, the loop ends by itself after at most
\* LongestRitual events, so the code's limit of 50 never cuts a ritual short.
EndsByItself == iteration <= LongestRitual
=============================================================================
