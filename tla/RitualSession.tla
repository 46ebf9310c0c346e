---------------------------- MODULE RitualSession ----------------------------
(***************************************************************************)
(* A ritual with a user: the consumer of the state machine that the code   *)
(* documents (DESIGN-ritual-v2.md, section 7: /ritual cancel, retry, skip) *)
(* and that is not in src/.  It keeps the ritual state, runs the           *)
(* event-producing action that transition returned, and feeds transition   *)
(* with the executor's answer or with what the user typed, whichever comes *)
(* first.  An action that a user event superseded is not stopped: its      *)
(* answer may still come, late.                                            *)
(***************************************************************************)
EXTENDS V2Executor

CONSTANTS
  MaxUserEvents,   \* bound: events the user types, after Start
  MaxLate,         \* bound: late answers in one behaviour
  MaxFailures      \* bound: skills and verifications that fail in one behaviour

ASSUME SessionAssumption == MaxUserEvents \in Nat /\ MaxLate \in Nat /\ MaxFailures \in Nat

VARIABLES
  superseded,   \* an action whose answer may come late, or "none"
  user,         \* events typed so far
  late,         \* late answers so far
  failures,     \* failed skills and verifications so far
  last,         \* history: the last event: "none", "answer" or what was typed
  rounds        \* history: reviews completed of the document under review

sessionVars == <<machine, docs, superseded, user, late, failures, last, rounds>>

UserEvents ==
  {[kind |-> k] : k \in {"UserCancel", "UserRetry", "UserSkipPhase", "UserClarification",
                         "UserApproval"}}

\* Running a ends with e.
Ends(a, e) ==
  /\ Executed(a, e)
  /\ failures' = failures + IF e.kind \in {"SkillFailed", "ShellFailed"} THEN 1 ELSE 0
  /\ failures' <= MaxFailures

\* The consumer applies transition to e and starts the action it returns.
Apply(e) ==
  /\ Transition(e)
  /\ last' = IF e \in UserEvents THEN e.kind ELSE "answer"
  /\ rounds' = IF phase = "Reviewing" /\ phase' = "WaitingApproval" THEN rounds + 1
               ELSE IF phase' \in {"Reviewing", "WaitingApproval"} \cup Terminal THEN rounds
               ELSE 0

\* The user starts the ritual.
Type ==
  /\ phase = "Idle" /\ last = "none"
  /\ Apply([kind |-> "Start"])
  /\ UNCHANGED <<docs, superseded, user, late, failures>>

\* The action under way ends.
Answer ==
  /\ action # "none"
  /\ \E e \in Answers(action) : Ends(action, e) /\ Apply(e)
  /\ UNCHANGED <<superseded, user, late>>

\* The user types something; the action under way goes on behind it.
UserActs ==
  /\ last # "none" /\ user < MaxUserEvents
  /\ \E e \in UserEvents : Apply(e)
  /\ user' = user + 1
  /\ superseded' = IF action = "none" \/ late = MaxLate THEN superseded ELSE action
  /\ UNCHANGED <<docs, late, failures>>

\* A superseded action ends, whatever the ritual has come to meanwhile.
LateAnswer ==
  /\ superseded # "none" /\ late < MaxLate
  /\ \E e \in Answers(superseded) : Ends(superseded, e) /\ Apply(e)
  /\ late' = late + 1
  /\ superseded' = IF late' < MaxLate THEN action ELSE "none"
  /\ UNCHANGED user

SessionInit ==
  /\ MachineInit /\ docs \in StartDocs
  /\ superseded = "none" /\ user = 0 /\ late = 0 /\ failures = 0 /\ last = "none" /\ rounds = 0

SessionNext == Type \/ Answer \/ UserActs \/ LateAnswer
SessionSpec == SessionInit /\ [][SessionNext]_sessionVars

-----------------------------------------------------------------------------
\* The types of the session's state.
SessionTypeOK ==
  /\ MachineTypeOK /\ docs \subseteq Docs
  /\ superseded \in {"none"} \cup EventProducing
  /\ user \in 0..MaxUserEvents /\ late \in 0..MaxLate /\ failures \in 0..MaxFailures
  /\ last \in {"none", "answer"} \cup {e.kind : e \in UserEvents}
  /\ rounds \in Nat

\* No document goes through more than two completed reviews before the ritual
\* moves on from it, whatever the user approves, skips or retries.
TwoRoundsAtMost == rounds <= ReviewRounds
=============================================================================
