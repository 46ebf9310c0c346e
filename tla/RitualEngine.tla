---------------------------- MODULE RitualEngine ----------------------------
(***************************************************************************)
(* The v1 ritual engine (crates/gid-core/src/ritual/engine.rs) together    *)
(* with the commands that drive it: `gid ritual run`, `approve`, `skip`    *)
(* and `cancel` (crates/gid-cli/src/main.rs).                              *)
(*                                                                         *)
(* Every command is a process of its own.  It loads                        *)
(* .gid/ritual-state.json into a RitualEngine, changes it in memory and    *)
(* writes the whole state back with save_state; no lock protects the file. *)
(* One step of the model is what happens between two writes of the file,   *)
(* or one execution of a phase.  Phases are numbered from 1, so            *)
(* current_phase = NumPhases + 1 is the code's current_phase = len().      *)
(***************************************************************************)
EXTENDS Naturals

CONSTANTS
  NumPhases,        \* definition.phases.len()
  NeedsLLM,         \* phases of kind Skill or Harness
  Approval,         \* phase -> ApprovalRequirement
  DefaultApproval,  \* config.default_approval
  OnFailure,        \* phase -> FailureStrategy
  MaxAttempts,      \* phase -> max_attempts of FailureStrategy::Retry
  SkipIf,           \* phase -> SkipCondition
  SkipOn,           \* phase -> the phase whose artifact the condition names
  Produces,         \* phases that declare a required output artifact
  Hooked,           \* phases whose pre and post hooks may fail
  Procs,            \* command processes that may be alive at once
  Commands,         \* the commands the users type
  MaxCommands,      \* bound: commands typed in one behaviour
  MaxCrashes,       \* bound: processes killed in one behaviour
  NoState,          \* .gid/ritual-state.json does not exist
  Torn              \* ... or was cut short by a kill, and does not parse

Phases == 1..NumPhases
Requirements == {"required", "optional", "auto"}
Strategies == {"retry", "escalate", "skip", "abort"}
Conditions == {"none", "file_exists", "artifact_exists", "always"}
RunCommands == {"run", "run_auto", "run_json"}
AllCommands == RunCommands \cup {"approve", "skip", "cancel"}

ASSUME EngineAssumption ==
  /\ NumPhases \in Nat \ {0}
  /\ NeedsLLM \subseteq Phases /\ Produces \subseteq Phases /\ Hooked \subseteq Phases
  /\ Approval \in [Phases -> Requirements] /\ DefaultApproval \in Requirements
  /\ OnFailure \in [Phases -> Strategies] /\ MaxAttempts \in [Phases -> Nat]
  /\ SkipIf \in [Phases -> Conditions] /\ SkipOn \in [Phases -> Phases]
  /\ Commands \subseteq AllCommands
  /\ MaxCommands \in Nat /\ MaxCrashes \in Nat

PhaseStatuses ==
  {"pending", "running", "waiting_approval", "completed", "skipped", "failed"}
RitualStatuses == {"running", "waiting_approval", "completed", "failed", "cancelled"}

\* RitualState.  phase_id is the phase carried by WaitingApproval, 0 otherwise;
\* artifacts[i] says that phase i's artifacts_produced is not empty.
EngineStates ==
  [status : RitualStatuses, phase_id : 0..NumPhases, current_phase : 1..(NumPhases + 1),
   phase : [Phases -> PhaseStatuses], retry_count : [Phases -> Nat],
   artifacts : [Phases -> BOOLEAN]]

VARIABLES
  disk,      \* content of .gid/ritual-state.json
  files,     \* phases whose output file exists in the project
  pc,        \* what each process is about to do
  cmd,       \* the command each process runs (kept after it exits)
  nested,    \* process is in the run() that approve() calls
  eng,       \* RitualEngine.state of each process
  manager,   \* ArtifactManager.produced of each process: phases recorded
  typed,     \* commands typed so far
  crashes,   \* processes killed so far
  done,      \* history: phases whose executor really ran and succeeded
  approved   \* history: phases somebody (or --auto-approve) approved

local == <<pc, cmd, nested, eng, manager>>
history == <<typed, crashes, done, approved>>
vars == <<disk, files, local, history>>

-----------------------------------------------------------------------------
\* RitualEngine::init_state
InitState ==
  [status |-> "running", phase_id |-> 0, current_phase |-> 1,
   phase |-> [i \in Phases |-> "pending"],
   retry_count |-> [i \in Phases |-> 0],
   artifacts |-> [i \in Phases |-> FALSE]]

\* Mutant of Resumed: an orphaned Running phase is taken for finished.
ResumedAsDone(s) ==
  [s EXCEPT !.phase = [i \in Phases |-> IF s.phase[i] = "running" THEN "completed"
                                                                ELSE s.phase[i]]]

\* resume_with_llm_client: orphaned Running phases become Pending, in memory.
Resumed(s) ==
  [s EXCEPT !.phase = [i \in Phases |-> IF s.phase[i] = "running" THEN "pending"
                                                                ELSE s.phase[i]]]

\* ApprovalGate::needs_approval
needs_approval(i) ==
  \/ Approval[i] = "required"
  \/ Approval[i] = "optional" /\ DefaultApproval = "required"

\* check_skip_condition: the project's files, or what this process recorded.
check_skip_condition(i, recorded) ==
  \/ SkipIf[i] = "file_exists" /\ SkipOn[i] \in files
  \/ SkipIf[i] = "artifact_exists" /\ SkipOn[i] \in recorded
  \/ SkipIf[i] = "always"

\* Only cmd_ritual_run gives its engine an LLM client; without one, execute_phase
\* answers success for Skill and Harness phases without running anything.
Stubbed(p, i) == i \in NeedsLLM /\ cmd[p] \notin RunCommands

\* What a successful executor leaves: the phase's declared output exists.
MakesOutput(p, i) == i \in Produces /\ ~ Stubbed(p, i)

AtPhase(p) == pc[p] = "phase" /\ eng[p].current_phase <= NumPhases

\* The process continues at l with state s in memory.
Goto(p, l, s) == pc' = [pc EXCEPT ![p] = l] /\ eng' = [eng EXCEPT ![p] = s]

\* A command finds a ritual state in the file.
Loads(d) == d \notin {NoState, Torn}

\* ... after save_state has written s.
Save(p, l, s) == Goto(p, l, s) /\ disk' = s

\* The process ends, and its memory with it.
Exit(p) ==
  /\ Goto(p, "idle", InitState)
  /\ nested' = [nested EXCEPT ![p] = FALSE]
  /\ manager' = [manager EXCEPT ![p] = {}]

-----------------------------------------------------------------------------
Type(p, c) ==
  /\ pc[p] = "idle" /\ typed < MaxCommands
  /\ typed' = typed + 1
  /\ cmd' = [cmd EXCEPT ![p] = c]
  /\ UNCHANGED <<disk, files, nested, manager, crashes, done, approved>>

\* Mutant of StartRun: the command does not look for an existing state file.
StartAfresh(p, c) == c \in RunCommands /\ Type(p, c) /\ Goto(p, "top", InitState)

\* `gid ritual run` is typed: a new engine, or one resumed from the state file.
StartRun(p, c) ==
  /\ c \in RunCommands /\ disk # Torn
  /\ Type(p, c)
  /\ Goto(p, "top", IF disk = NoState THEN InitState ELSE Resumed(disk))

\* `gid ritual approve`, `skip` or `cancel` is typed, with a state to resume.
StartCommand(p, c) ==
  /\ c \notin RunCommands /\ Loads(disk)
  /\ Type(p, c)
  /\ Goto(p, "command", Resumed(disk))

\* A command ends with an error: it needs a state and there is none, or the file
\* does not parse, left so by a kill or read while another process writes it.
RefuseCommand(p, c) ==
  /\ \/ c \notin RunCommands /\ disk = NoState
     \/ disk = Torn
     \/ \E q \in Procs \ {p} : pc[q] # "idle"
  /\ Type(p, c)
  /\ UNCHANGED <<pc, eng>>

\* Entry of run(): refuse while waiting, return when over, else mark Running.
EnterRun(p) ==
  /\ pc[p] = "top"
  /\ \/ eng[p].status = "waiting_approval" /\ Exit(p) /\ UNCHANGED disk
     \/ /\ eng[p].status \in {"completed", "cancelled"}
        /\ Goto(p, "returned", eng[p])
        /\ UNCHANGED <<disk, nested, manager>>
     \/ /\ eng[p].status \in {"running", "failed"}
        /\ Save(p, "phase", [eng[p] EXCEPT !.status = "running", !.phase_id = 0])
        /\ UNCHANGED <<nested, manager>>
  /\ UNCHANGED <<files, cmd, history>>

\* run(), loop: the skip condition holds.
SkipPhase(p) ==
  /\ AtPhase(p)
  /\ LET i == eng[p].current_phase IN
       /\ check_skip_condition(i, manager[p])
       /\ Save(p, "phase", [eng[p] EXCEPT !.phase[i] = "skipped", !.current_phase = i + 1])
  /\ UNCHANGED <<files, cmd, nested, manager, history>>

\* run(), loop: a pre-hook fails and the error leaves run(); the command ends.
PreHookFails(p) ==
  /\ AtPhase(p)
  /\ eng[p].current_phase \in Hooked
  /\ ~ check_skip_condition(eng[p].current_phase, manager[p])
  /\ Exit(p)
  /\ UNCHANGED <<disk, files, cmd, history>>

\* run(), loop: the phase is marked Running and saved before it is executed.
StartPhase(p) ==
  /\ AtPhase(p)
  /\ LET i == eng[p].current_phase IN
       /\ ~ check_skip_condition(i, manager[p])
       /\ Save(p, "executing", [eng[p] EXCEPT !.phase[i] = "running"])
  /\ UNCHANGED <<files, cmd, nested, manager, history>>

\* execute_phase succeeds, and what it produced is recorded in memory.
ExecSucceeds(p) ==
  /\ pc[p] = "executing"
  /\ LET i == eng[p].current_phase
         made == MakesOutput(p, i) IN
       /\ Goto(p, "executed", [eng[p] EXCEPT !.artifacts[i] = made])
       /\ files' = IF made THEN files \cup {i} ELSE files
       /\ manager' = IF made THEN [manager EXCEPT ![p] = @ \cup {i}] ELSE manager
       /\ done' = IF Stubbed(p, i) THEN done ELSE done \cup {i}
  /\ UNCHANGED <<disk, cmd, nested, typed, crashes, approved>>

\* cleanup_phase_artifacts, for the phases in S: files whose names the state
\* records are removed and the records cleared.
CleanedFiles(s, S) == files \ {i \in S : s.artifacts[i]}
CleanedState(s, S) == [s EXCEPT !.artifacts = [i \in Phases |-> s.artifacts[i] /\ i \notin S]]

\* Mutant of ExecFails: a retry is not counted.
ExecFailsUncounted(p) ==
  /\ pc[p] = "executing"
  /\ LET i == eng[p].current_phase
         s == eng[p] IN
       /\ ~ Stubbed(p, i) /\ UNCHANGED files
       /\ \/ /\ OnFailure[i] = "retry" /\ s.retry_count[i] < MaxAttempts[i]
             /\ Save(p, "phase", [s EXCEPT !.phase[i] = "pending"])
             /\ manager' = [manager EXCEPT ![p] = @ \ {i}]
          \/ /\ OnFailure[i] # "retry" \/ s.retry_count[i] >= MaxAttempts[i]
             /\ Save(p, "returned", [s EXCEPT !.phase[i] = "failed", !.status = "failed"])
             /\ UNCHANGED manager
  /\ UNCHANGED <<cmd, nested, history>>

\* execute_phase fails (perhaps after writing its file) and handle_failure runs.
ExecFails(p) ==
  /\ pc[p] = "executing"
  /\ LET i == eng[p].current_phase
         s == eng[p]
         retry == OnFailure[i] = "retry" /\ s.retry_count[i] < MaxAttempts[i]
         left == IF i \in Produces THEN {{}, {i}} ELSE {{}} IN
       /\ ~ Stubbed(p, i)
       /\ \/ /\ retry
             /\ Save(p, "phase", [CleanedState(s, {i}) EXCEPT !.retry_count[i] = @ + 1,
                                                              !.phase[i] = "pending"])
             /\ \E f \in left : files' = CleanedFiles(s, {i}) \cup f
             /\ manager' = [manager EXCEPT ![p] = @ \ {i}]
          \/ /\ OnFailure[i] = "skip"
             /\ Save(p, "phase", [s EXCEPT !.phase[i] = "skipped", !.current_phase = i + 1])
             /\ \E f \in left : files' = files \cup f
             /\ UNCHANGED manager
          \/ /\ OnFailure[i] # "skip" /\ ~ retry
             /\ Save(p, "returned", [s EXCEPT !.phase[i] = "failed", !.status = "failed"])
             /\ \E f \in left : files' = files \cup f
             /\ UNCHANGED manager
  /\ UNCHANGED <<cmd, nested, history>>

\* A post-hook fails: run() returns the error, the phase stays Running on disk.
PostHookFails(p) ==
  /\ pc[p] = "executed" /\ eng[p].current_phase \in Hooked
  /\ Exit(p)
  /\ UNCHANGED <<disk, files, cmd, history>>

\* Mutant of SettlePhase: the approval requirement is not looked at.
SettlePhaseUngated(p) ==
  /\ pc[p] = "executed"
  /\ LET i == eng[p].current_phase IN
       Save(p, "phase", [eng[p] EXCEPT !.phase[i] = "completed", !.current_phase = i + 1])
  /\ UNCHANGED <<files, cmd, nested, manager, history>>

\* run(), after the post-hooks: stop at the gate, or complete the phase.
SettlePhase(p) ==
  /\ pc[p] = "executed"
  /\ LET i == eng[p].current_phase IN
       \/ /\ needs_approval(i)
          /\ Save(p, "returned", [eng[p] EXCEPT !.phase[i] = "waiting_approval",
                                     !.status = "waiting_approval", !.phase_id = i])
       \/ /\ ~ needs_approval(i)
          /\ Save(p, "phase", [eng[p] EXCEPT !.phase[i] = "completed",
                                             !.current_phase = i + 1])
  /\ UNCHANGED <<files, cmd, nested, manager, history>>

\* run(), after the loop.
CompleteRitual(p) ==
  /\ pc[p] = "phase" /\ eng[p].current_phase > NumPhases
  /\ Save(p, "returned", [eng[p] EXCEPT !.status = "completed"])
  /\ UNCHANGED <<files, cmd, nested, manager, history>>

-----------------------------------------------------------------------------
\* run() has returned Ok(status): what the command does with it.  After an
\* approve() of its own, `gid ritual run` goes round its loop whatever the status.
ReturnToCommand(p) ==
  /\ pc[p] = "returned"
  /\ \/ /\ cmd[p] \in RunCommands /\ nested[p]
        /\ Goto(p, "top", eng[p])
        /\ nested' = [nested EXCEPT ![p] = FALSE]
        /\ UNCHANGED manager
     \/ /\ cmd[p] \in {"run", "run_auto"} /\ ~ nested[p]
        /\ eng[p].status = "waiting_approval"
        /\ Goto(p, IF cmd[p] = "run" THEN "prompt" ELSE "approving", eng[p])
        /\ UNCHANGED <<nested, manager>>
     \/ /\ \/ cmd[p] = "approve"
           \/ cmd[p] = "run_json" /\ ~ nested[p]
           \/ ~ nested[p] /\ eng[p].status # "waiting_approval"
        /\ Exit(p)
  /\ UNCHANGED <<disk, files, cmd, history>>

\* Mutant of Approve: current_phase is not advanced.
ApproveInPlace(p) ==
  /\ \/ pc[p] = "command" /\ cmd[p] = "approve"
     \/ pc[p] \in {"prompt", "approving"}
  /\ eng[p].status = "waiting_approval"
  /\ LET g == eng[p].phase_id IN
       /\ Save(p, "top", [eng[p] EXCEPT !.phase[g] = "completed",
                                        !.status = "running", !.phase_id = 0])
       /\ approved' = approved \cup {g}
  /\ nested' = [nested EXCEPT ![p] = TRUE]
  /\ UNCHANGED <<files, manager, cmd, typed, crashes, done>>

\* approve(): the gate's phase completes and run() continues.  Called by
\* `gid ritual approve`, --auto-approve, and the answer y at the prompt.
Approve(p) ==
  /\ \/ pc[p] = "command" /\ cmd[p] = "approve"
     \/ pc[p] \in {"prompt", "approving"}
  /\ LET g == eng[p].phase_id IN
       \/ /\ eng[p].status = "waiting_approval"
          /\ Save(p, "top", [eng[p] EXCEPT !.phase[g] = "completed", !.current_phase = g + 1,
                                           !.status = "running", !.phase_id = 0])
          /\ nested' = [nested EXCEPT ![p] = TRUE]
          /\ approved' = approved \cup {g}
          /\ UNCHANGED manager
       \/ /\ eng[p].status # "waiting_approval"
          /\ Exit(p)
          /\ UNCHANGED <<disk, approved>>
  /\ UNCHANGED <<files, cmd, typed, crashes, done>>

\* skip_current(): `gid ritual skip`, or the answer s at the prompt.
SkipCurrent(p) ==
  /\ \/ pc[p] = "command" /\ cmd[p] = "skip"
     \/ pc[p] = "prompt"
  /\ LET i == eng[p].current_phase
         s == eng[p]
         t == [s EXCEPT !.phase[i] = "skipped", !.current_phase = i + 1,
                        !.status = IF @ = "waiting_approval" THEN "running" ELSE @,
                        !.phase_id = 0] IN
       \/ i > NumPhases /\ Exit(p) /\ UNCHANGED disk
       \/ /\ i <= NumPhases /\ disk' = t
          /\ \/ cmd[p] = "skip" /\ Exit(p)
             \/ cmd[p] # "skip" /\ Goto(p, "top", t) /\ UNCHANGED <<nested, manager>>
  /\ UNCHANGED <<files, cmd, history>>

\* The answer n at the prompt.
Reject(p) == pc[p] = "prompt" /\ Exit(p) /\ UNCHANGED <<disk, files, cmd, history>>

\* cancel(): artifacts of incomplete phases are cleaned up, then Cancelled.
Cancel(p) ==
  /\ pc[p] = "command" /\ cmd[p] = "cancel"
  /\ LET incomplete == {i \in Phases : eng[p].phase[i] \in {"running", "pending"}} IN
       /\ disk' = [CleanedState(eng[p], incomplete) EXCEPT !.status = "cancelled",
                                                            !.phase_id = 0]
       /\ files' = CleanedFiles(eng[p], incomplete)
  /\ Exit(p)
  /\ UNCHANGED <<cmd, history>>

\* The next thing p does may be to save the state.
MaySave(p) ==
  \/ pc[p] = "top" /\ eng[p].status \in {"running", "failed"}
  \/ pc[p] \in {"phase", "executed"}
  \/ pc[p] = "executing" /\ ~ Stubbed(p, eng[p].current_phase)
  \/ pc[p] \in {"prompt", "approving"}
  \/ /\ pc[p] = "command"
     /\ \/ cmd[p] = "approve" /\ eng[p].status = "waiting_approval"
        \/ cmd[p] = "skip" /\ eng[p].current_phase <= NumPhases
        \/ cmd[p] = "cancel"

\* The process is killed (Ctrl+C, a crash): only files survive.  save_state empties
\* the file before it writes it, so a kill in between tears it.
Crash(p) ==
  /\ pc[p] # "idle" /\ crashes < MaxCrashes
  /\ crashes' = crashes + 1
  /\ \/ UNCHANGED disk
     \/ MaySave(p) /\ disk' = Torn
  /\ \/ UNCHANGED files
     \/ /\ pc[p] = "executing" /\ MakesOutput(p, eng[p].current_phase)
        /\ files' = files \cup {eng[p].current_phase}
  /\ Exit(p)
  /\ UNCHANGED <<cmd, typed, done, approved>>

-----------------------------------------------------------------------------
\* What a process does by itself, without a user or a fault.
RunStep(p) ==
  \/ EnterRun(p) \/ SkipPhase(p) \/ PreHookFails(p) \/ StartPhase(p)
  \/ ExecSucceeds(p) \/ ExecFails(p) \/ PostHookFails(p) \/ SettlePhase(p)
  \/ CompleteRitual(p) \/ ReturnToCommand(p) \/ Cancel(p)
  \/ Approve(p) \/ SkipCurrent(p)

Next ==
  \E p \in Procs :
    \/ \E c \in Commands : StartRun(p, c) \/ StartCommand(p, c) \/ RefuseCommand(p, c)
    \/ RunStep(p) \/ Reject(p) \/ Crash(p)

\* The project may already hold files that FileExists conditions look for.
Init ==
  /\ disk = NoState
  /\ files \in SUBSET {SkipOn[i] : i \in {j \in Phases : SkipIf[j] = "file_exists"}}
  /\ pc = [p \in Procs |-> "idle"] /\ cmd = [p \in Procs |-> "none"]
  /\ nested = [p \in Procs |-> FALSE]
  /\ eng = [p \in Procs |-> InitState] /\ manager = [p \in Procs |-> {}]
  /\ typed = 0 /\ crashes = 0 /\ done = {} /\ approved = {}

Spec == Init /\ [][Next]_vars

\* A live process is scheduled, and the executors it awaits return.
Fairness == \A p \in Procs : WF_vars(RunStep(p) /\ pc[p] # "prompt")
FairSpec == Spec /\ Fairness

-----------------------------------------------------------------------------
(***************************************************************************)
(* Properties.                                                             *)
(***************************************************************************)

\* The type invariant of the engine model.
TypeOK ==
  /\ disk \in EngineStates \cup {NoState, Torn}
  /\ files \subseteq Phases
  /\ pc \in [Procs -> {"idle", "command", "top", "phase", "executing", "executed",
                       "returned", "approving", "prompt"}]
  /\ cmd \in [Procs -> AllCommands \cup {"none"}]
  /\ nested \in [Procs -> BOOLEAN]
  /\ eng \in [Procs -> EngineStates]
  /\ manager \in [Procs -> SUBSET Phases]
  /\ typed \in 0..MaxCommands /\ crashes \in 0..MaxCrashes
  /\ done \subseteq Phases /\ approved \subseteq Phases

\* The states anybody could act on: the file, and what live processes remember.
Copies == {eng[p] : p \in Procs} \cup ({disk} \ {NoState, Torn})

Settled == {"completed", "skipped"}

\* One ritual state hangs together: everything before current_phase is settled,
\* nothing after it has been touched, a phase waits exactly at the gate the
\* status names, and only a phase that ended or waits has recorded artifacts.
Coherent(s) ==
  /\ \A i \in Phases :
       /\ i < s.current_phase => s.phase[i] \in Settled
       /\ i = s.current_phase => s.phase[i] \notin Settled
       /\ i > s.current_phase => s.phase[i] = "pending" /\ s.retry_count[i] = 0
       /\ s.retry_count[i] <= MaxAttempts[i]
       /\ s.phase[i] = "waiting_approval" => s.status \in {"waiting_approval", "cancelled"}
       /\ s.artifacts[i] => s.phase[i] \in Settled \cup {"running", "waiting_approval"}
  /\ s.status = "waiting_approval" =>
       /\ s.phase_id = s.current_phase /\ s.phase_id \in Phases
       /\ s.phase[s.phase_id] = "waiting_approval" /\ needs_approval(s.phase_id)
  /\ s.status = "completed" => s.current_phase = NumPhases + 1

\* Every copy of the ritual state is coherent, whoever wrote it last and however
\* commands, crashes and lost updates interleave (run, approve, skip_current,
\* cancel and resume of engine.rs).
EveryCopyCoherent == \A s \in Copies : Coherent(s)

\* No process executes a phase behind an approval gate unless that gate was
\* approved, or its phase was skipped (run's gate check, approve()).
NoWorkPastAnUnapprovedGate ==
  \A p \in Procs : pc[p] = "executing" =>
    \A g \in Phases : g < eng[p].current_phase /\ needs_approval(g) =>
      g \in approved \/ eng[p].phase[g] = "skipped"

\* A phase recorded as completed, or presented for approval, was really executed
\* at some time, unless it is an LLM phase that execute_phase could stub.
LocalPhasesReallyRan ==
  \A s \in Copies : \A i \in Phases \ NeedsLLM :
    s.phase[i] \in {"completed", "waiting_approval"} => i \in done

\* With one command at a time, what the file says is settled stays settled: a
\* crash and a resume never make the engine run a finished phase again, unless
\* the kill tore the file, and with it what every phase had come to.
SettledStaysSettled ==
  [][\A i \in Phases : Loads(disk) /\ disk.phase[i] \in Settled =>
       disk' = Torn \/ disk'.phase[i] = disk.phase[i]]_disk

\* Every command ends, or waits at its prompt: retries and skipped failures
\* cannot keep run() in its loop for ever.
CommandsEnd == \A p \in Procs : pc[p] # "idle" ~> pc[p] \in {"idle", "prompt"}
=============================================================================
