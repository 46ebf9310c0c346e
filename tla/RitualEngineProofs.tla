------------------------- MODULE RitualEngineProofs -------------------------
(***************************************************************************)
(* Theorems about RitualEngine, for every ritual definition, every number  *)
(* of concurrent commands and every bound.                                 *)
(*                                                                         *)
(* None of the invariants is inductive by itself: that current_phase stays *)
(* in range needs that a process only executes while one is left, which    *)
(* needs the coherence of the copy it loaded, whoever wrote that.  IInv    *)
(* says of every copy (memory or file) that it is good, and of every       *)
(* process what its program counter says of its copy.                      *)
(***************************************************************************)
EXTENDS RitualEngine, TLAPS

\* Outside the step between execution and save, artifacts belong to phases
\* that ended or wait.
Strict(s) ==
  \A i \in Phases : s.artifacts[i] => s.phase[i] \in Settled \cup {"waiting_approval"}

\* A good copy, where A are the approved and D the executed phases.
Good(s, A, D) ==
  /\ s \in EngineStates
  /\ Coherent(s)
  /\ \A i \in Phases : s.phase[i] = "completed" /\ needs_approval(i) => i \in A
  /\ \A i \in Phases \ NeedsLLM :
       s.phase[i] \in {"completed", "waiting_approval"} => i \in D

Locations == {"idle", "command", "top", "phase", "executing", "executed",
              "returned", "approving", "prompt"}

\* What location l says of the copy s of a process that runs command c.
Located(l, c, s, D) ==
  /\ l \in Locations
  /\ l = "command" => c \notin RunCommands
  /\ l = "phase" => s.status = "running"
  /\ l \in {"executing", "executed"} =>
       /\ s.status = "running" /\ s.current_phase \in Phases
       /\ s.phase[s.current_phase] = "running"
  /\ l = "executed" => s.current_phase \in NeedsLLM \cup D
  /\ l \in {"prompt", "approving"} => s.status = "waiting_approval"
  /\ l # "executed" => Strict(s)

DiskGood(d, A, D) == Loads(d) => Good(d, A, D) /\ Strict(d)

Typed ==
  /\ files \subseteq Phases
  /\ cmd \in [Procs -> AllCommands \cup {"none"}]
  /\ nested \in [Procs -> BOOLEAN]
  /\ manager \in [Procs -> SUBSET Phases]
  /\ typed \in 0..MaxCommands /\ crashes \in 0..MaxCrashes
  /\ done \subseteq Phases /\ approved \subseteq Phases

IInv ==
  /\ Typed
  /\ pc \in [Procs -> Locations] /\ eng \in [Procs -> EngineStates]
  /\ DiskGood(disk, approved, done)
  /\ \A p \in Procs : Good(eng[p], approved, done)
                      /\ Located(pc[p], cmd[p], eng[p], done)

-----------------------------------------------------------------------------
\* The initial state of a ritual is good and strict.
LEMMA InitStateGood ==
  \A A, D : Good(InitState, A, D) /\ Strict(InitState)
BY EngineAssumption DEF EngineAssumption, Good, Strict, Coherent, InitState, EngineStates, Phases, Settled,
   PhaseStatuses, RitualStatuses

\* resume_with_llm_client keeps a good and strict copy good and strict.
LEMMA ResumedGood ==
  ASSUME NEW s, NEW A, NEW D, Good(s, A, D), Strict(s)
  PROVE  Good(Resumed(s), A, D) /\ Strict(Resumed(s))
<1>1. Resumed(s) \in EngineStates
  BY DEF Good, Resumed, EngineStates, PhaseStatuses
<1>2. \A i \in Phases :
        Resumed(s).phase[i] = IF s.phase[i] = "running" THEN "pending" ELSE s.phase[i]
  BY DEF Good, Resumed, EngineStates
<1>3. /\ Resumed(s).status = s.status /\ Resumed(s).phase_id = s.phase_id
      /\ Resumed(s).current_phase = s.current_phase
      /\ Resumed(s).retry_count = s.retry_count /\ Resumed(s).artifacts = s.artifacts
  BY DEF Good, Resumed, EngineStates
<1>4. Coherent(Resumed(s))
  BY <1>2, <1>3 DEF Good, Coherent, Strict, Settled, Phases
<1> QED BY <1>1, <1>2, <1>3, <1>4 DEF Good, Strict, Settled

\* A copy stays good when more phases are approved or executed.
LEMMA GoodMonotone ==
  ASSUME NEW s, NEW A, NEW D, NEW AA, NEW DD, A \subseteq AA, D \subseteq DD, Good(s, A, D)
  PROVE  Good(s, AA, DD)
BY DEF Good

\* run() marks the ritual Running.
LEMMA EnteredGood ==
  ASSUME NEW s, NEW A, NEW D, Good(s, A, D), Strict(s), s.status \in {"running", "failed"},
         NEW t, t = [s EXCEPT !.status = "running", !.phase_id = 0]
  PROVE  Good(t, A, D) /\ Strict(t) /\ t.status = "running"
<1>1. 0 \in 0..NumPhases
  BY EngineAssumption DEF EngineAssumption
<1>2. t \in EngineStates
  BY <1>1 DEF Good, EngineStates, RitualStatuses
<1>3. /\ t.status = "running" /\ t.phase = s.phase
      /\ t.current_phase = s.current_phase /\ t.artifacts = s.artifacts
      /\ t.retry_count = s.retry_count
  BY DEF Good, EngineStates
<1> QED BY <1>2, <1>3 DEF Good, Strict, Coherent

\* The current phase settles and the next one becomes current: a skip condition,
\* a skipped failure, a completed phase, and skip_current.
LEMMA AdvancedGood ==
  ASSUME NEW s, NEW A, NEW D, Good(s, A, D),
         NEW i \in Phases, i = s.current_phase, NEW st \in Settled,
         st = "completed" => (needs_approval(i) => i \in A) /\ i \in NeedsLLM \cup D,
         NEW t \in EngineStates, t.status \in {"running", "failed", "cancelled"},
         t.phase = [s.phase EXCEPT ![i] = st], t.current_phase = i + 1,
         t.retry_count = s.retry_count, t.artifacts = s.artifacts
  PROVE  Good(t, A, D) /\ Strict(t)
<1>1. \A j \in Phases : t.phase[j] = IF j = i THEN st ELSE s.phase[j]
  BY DEF Good, EngineStates
<1>2. Coherent(t)
  BY <1>1 DEF Good, Coherent, Settled, Phases, EngineStates
<1>3. Strict(t)
  BY <1>1 DEF Good, Coherent, Strict, Settled, Phases, EngineStates
<1> QED BY <1>1, <1>2, <1>3 DEF Good, Settled

\* The current phase stays current with another status that is not settled, and
\* perhaps one retry more.
LEMMA MarkedGood ==
  ASSUME NEW s, NEW A, NEW D, Good(s, A, D),
         NEW i \in Phases, i = s.current_phase, NEW st \in PhaseStatuses \ Settled,
         NEW t \in EngineStates, t.phase = [s.phase EXCEPT ![i] = st], t.current_phase = i,
         t.status \in {"running", "failed", "waiting_approval"},
         st = "waiting_approval" <=> t.status = "waiting_approval",
         st = "waiting_approval" =>
           t.phase_id = i /\ needs_approval(i) /\ i \in NeedsLLM \cup D,
         \A j \in Phases \ {i} : t.retry_count[j] = s.retry_count[j],
         t.retry_count[i] <= MaxAttempts[i],
         \A j \in Phases \ {i} : t.artifacts[j] => s.artifacts[j],
         t.artifacts[i] => st \in {"running", "waiting_approval"}
  PROVE  Good(t, A, D) /\ (st # "running" \/ ~ t.artifacts[i] => Strict(t))
<1>1. \A j \in Phases : t.phase[j] = IF j = i THEN st ELSE s.phase[j]
  BY DEF Good, EngineStates
<1>2. Coherent(t)
  <2>1. \A j \in Phases : t.phase[j] = "waiting_approval" => j = i
    BY <1>1 DEF Good, Coherent, Settled, Phases, EngineStates
  <2>2. t.status = "completed" => t.current_phase = NumPhases + 1
    OBVIOUS
  <2>3. t.status = "waiting_approval" =>
          /\ t.phase_id = t.current_phase /\ t.phase_id \in Phases
          /\ t.phase[t.phase_id] = "waiting_approval" /\ needs_approval(t.phase_id)
    BY <1>1
  <2> QED BY <1>1, <2>1, <2>2, <2>3 DEF Good, Coherent, Settled, Phases, EngineStates
<1>3. st # "running" \/ ~ t.artifacts[i] => Strict(t)
  BY <1>1 DEF Good, Coherent, Strict, Settled, Phases, EngineStates
<1> QED BY <1>1, <1>2, <1>3 DEF Good, Settled, PhaseStatuses

\* The shape of every step: process p moves to location l with copy t, the file
\* keeps its content or gets a good one, and the other processes stay put.
LEMMA StepKeepsIInv ==
  ASSUME IInv, NEW p \in Procs, NEW l, NEW t,
         Goto(p, l, t), Typed',
         approved \subseteq approved', done \subseteq done',
         \A q \in Procs \ {p} : cmd'[q] = cmd[q],
         Good(t, approved', done'), Located(l, cmd'[p], t, done'),
         disk' = disk \/ DiskGood(disk', approved', done')
  PROVE  IInv'
<1>1. DiskGood(disk', approved', done')
  <2>1. CASE disk' = disk
    BY <2>1, GoodMonotone DEF IInv, DiskGood
  <2> QED BY <2>1
<1>2. ASSUME NEW q \in Procs
      PROVE  Good(eng'[q], approved', done') /\ Located(pc'[q], cmd'[q], eng'[q], done')
  <2>1. CASE q = p
    BY <2>1 DEF Goto, IInv
  <2>2. CASE q # p
    <3>1. eng'[q] = eng[q] /\ pc'[q] = pc[q] /\ cmd'[q] = cmd[q]
      BY <2>2 DEF Goto, IInv
    <3>2. Good(eng[q], approved, done) /\ Located(pc[q], cmd[q], eng[q], done)
      BY DEF IInv
    <3>3. Good(eng[q], approved', done')
      BY <3>2, GoodMonotone
    <3> QED BY <3>1, <3>2, <3>3 DEF Located
  <2> QED BY <2>1, <2>2
<1>3. pc' \in [Procs -> Locations] /\ eng' \in [Procs -> EngineStates]
  <2>1. l \in Locations /\ t \in EngineStates
    BY DEF Located, Good
  <2> QED BY <2>1 DEF Goto, IInv
<1> QED BY <1>1, <1>2, <1>3 DEF IInv

-----------------------------------------------------------------------------
(***************************************************************************)
(* Initialisation, and one step per action.                                *)
(***************************************************************************)
LEMMA InitIInv == Init => IInv
<1> SUFFICES ASSUME Init PROVE IInv
  OBVIOUS
<1>1. InitState \in EngineStates
  BY InitStateGood DEF Good
<1>2. Typed /\ pc \in [Procs -> Locations] /\ eng \in [Procs -> EngineStates]
  <2>1. files \subseteq Phases
    BY EngineAssumption DEF EngineAssumption, Init
  <2> QED BY <1>1, <2>1, EngineAssumption DEF EngineAssumption, Init, Typed, Locations
<1>3. DiskGood(disk, approved, done)
  BY DEF Init, DiskGood, Loads
<1>4. ASSUME NEW p \in Procs
      PROVE  Good(eng[p], approved, done) /\ Located(pc[p], cmd[p], eng[p], done)
  BY InitStateGood DEF Init, Located, Locations
<1> QED BY <1>2, <1>3, <1>4 DEF IInv

\* A step in which p ends without writing the file.
LEMMA ExitKeepsIInv ==
  ASSUME IInv, NEW p \in Procs, Exit(p), UNCHANGED <<cmd, done, approved>>,
         typed' \in 0..MaxCommands, crashes' \in 0..MaxCrashes, files' \subseteq Phases,
         disk' = disk \/ DiskGood(disk', approved', done')
  PROVE  IInv'
<1>1. Goto(p, "idle", InitState)
  BY DEF Exit
<1>2. Good(InitState, approved', done') /\ Located("idle", cmd'[p], InitState, done')
  BY InitStateGood DEF Located, Locations
<1>3. Typed'
  BY DEF IInv, Typed, Exit
<1>4. \A q \in Procs \ {p} : cmd'[q] = cmd[q]
  OBVIOUS
<1> QED BY <1>1, <1>2, <1>3, <1>4, StepKeepsIInv

\* A refused command leaves everything but the counts as it was.
LEMMA RefusedKeepsIInv ==
  ASSUME IInv, NEW p \in Procs, NEW c \in Commands, RefuseCommand(p, c)
  PROVE  IInv'
<1>1. Typed'
  BY EngineAssumption DEF EngineAssumption, RefuseCommand, Type, IInv, Typed
<1>2. DiskGood(disk', approved', done')
  BY DEF RefuseCommand, Type, IInv, DiskGood
<1>3. ASSUME NEW q \in Procs
      PROVE  Good(eng'[q], approved', done') /\ Located(pc'[q], cmd'[q], eng'[q], done')
  <2>1. pc'[q] = pc[q] /\ eng'[q] = eng[q] /\ (pc[q] = "idle" \/ cmd'[q] = cmd[q])
    BY DEF RefuseCommand, Type, IInv, Typed
  <2>2. approved' = approved /\ done' = done
    BY DEF RefuseCommand, Type
  <2> QED BY <2>1, <2>2 DEF IInv, Located
<1> QED BY <1>1, <1>2, <1>3 DEF RefuseCommand, IInv

LEMMA StartKeepsIInv ==
  ASSUME IInv, NEW p \in Procs, NEW c \in Commands, StartRun(p, c) \/ StartCommand(p, c)
  PROVE  IInv'
<1> DEFINE t == IF disk = NoState THEN InitState ELSE Resumed(disk)
           l == IF c \in RunCommands THEN "top" ELSE "command"
<1>1. Goto(p, l, t) /\ Type(p, c)
  BY DEF StartRun, StartCommand, Loads
<1>2. Good(t, approved, done) /\ Strict(t)
  <2>1. disk = NoState \/ Loads(disk)
    BY DEF StartRun, StartCommand, Loads
  <2> QED BY <2>1, InitStateGood, ResumedGood DEF IInv, DiskGood
<1>3. cmd'[p] = c /\ \A q \in Procs \ {p} : cmd'[q] = cmd[q]
  BY <1>1 DEF Type, IInv, Typed
<1>4. Located(l, c, t, done)
  BY <1>2 DEF Located, Locations
<1>5. Typed'
  BY <1>1, EngineAssumption DEF EngineAssumption, Type, IInv, Typed
<1> QED
  BY <1>1, <1>2, <1>3, <1>4, <1>5, StepKeepsIInv DEF Type

LEMMA EnterRunKeepsIInv ==
  ASSUME IInv, NEW p \in Procs, EnterRun(p)
  PROVE  IInv'
<1>1. CASE eng[p].status = "waiting_approval" /\ Exit(p) /\ UNCHANGED disk
  BY <1>1, ExitKeepsIInv DEF EnterRun, IInv, Typed, history
<1>2. CASE /\ eng[p].status \in {"completed", "cancelled"}
           /\ Goto(p, "returned", eng[p])
           /\ UNCHANGED <<disk, nested, manager>>
  <2>1. Good(eng[p], approved', done') /\ Located("returned", cmd'[p], eng[p], done')
    BY <1>2 DEF EnterRun, IInv, Located, Locations, history
  <2>2. Typed'
    BY <1>2 DEF EnterRun, IInv, Typed, history
  <2> QED BY <1>2, <2>1, <2>2, StepKeepsIInv DEF EnterRun, history
<1>3. CASE /\ eng[p].status \in {"running", "failed"}
           /\ Save(p, "phase", [eng[p] EXCEPT !.status = "running", !.phase_id = 0])
           /\ UNCHANGED <<nested, manager>>
  <2> DEFINE t == [eng[p] EXCEPT !.status = "running", !.phase_id = 0]
  <2>1. Good(eng[p], approved, done) /\ Strict(eng[p])
    BY DEF EnterRun, IInv, Located
  <2>2. Good(t, approved, done) /\ Strict(t) /\ t.status = "running"
    BY <1>3, <2>1, EnteredGood
  <2>3. Goto(p, "phase", t) /\ disk' = t
    BY <1>3 DEF Save
  <2>4. Located("phase", cmd'[p], t, done') /\ DiskGood(t, approved', done')
    BY <2>2 DEF Located, Locations, DiskGood, EnterRun, history
  <2>5. Typed'
    BY <1>3 DEF EnterRun, IInv, Typed, history
  <2> QED BY <2>2, <2>3, <2>4, <2>5, StepKeepsIInv DEF EnterRun, history
<1> QED BY <1>1, <1>2, <1>3 DEF EnterRun

\* The index of the phase after the current one is in range.
LEMMA NextInRange ==
  \A i \in Phases : i \in 0..NumPhases /\ i + 1 \in 1..(NumPhases + 1) /\ ~ (i > NumPhases)
BY EngineAssumption DEF EngineAssumption, Phases

\* The statuses that the steps below give.
LEMMA StatusNames ==
  /\ "pending" \in PhaseStatuses /\ "running" \in PhaseStatuses
  /\ "completed" \in PhaseStatuses /\ "skipped" \in PhaseStatuses
  /\ "failed" \in PhaseStatuses /\ "waiting_approval" \in PhaseStatuses
  /\ "running" \in RitualStatuses /\ "completed" \in RitualStatuses
  /\ "failed" \in RitualStatuses /\ "cancelled" \in RitualStatuses
  /\ "waiting_approval" \in RitualStatuses
BY DEF PhaseStatuses, RitualStatuses

LEMMA SkipPhaseKeepsIInv ==
  ASSUME IInv, NEW p \in Procs, SkipPhase(p)
  PROVE  IInv'
<1> DEFINE i == eng[p].current_phase
           t == [eng[p] EXCEPT !.phase[i] = "skipped", !.current_phase = i + 1]
<1>1. Good(eng[p], approved, done) /\ eng[p].status = "running"
  BY DEF SkipPhase, AtPhase, IInv, Located
<1>2. i \in Phases
  BY <1>1, EngineAssumption DEF EngineAssumption, SkipPhase, AtPhase, Good, EngineStates, Phases
<1>3. t \in EngineStates
  BY <1>1, <1>2, NextInRange, StatusNames DEF Good, EngineStates
<1>4. /\ t.phase = [eng[p].phase EXCEPT ![i] = "skipped"] /\ t.current_phase = i + 1
      /\ t.status = "running" /\ t.retry_count = eng[p].retry_count
      /\ t.artifacts = eng[p].artifacts
  BY <1>1, <1>2 DEF Good, EngineStates
<1>5. Good(t, approved, done) /\ Strict(t)
  <2>1. "skipped" \in Settled /\ "skipped" # "completed"
    BY DEF Settled
  <2> HIDE DEF t
  <2> QED BY <1>1, <1>2, <1>3, <1>4, <2>1, AdvancedGood
<1>6. Goto(p, "phase", t) /\ disk' = t
  BY DEF SkipPhase, Save
<1>7. Located("phase", cmd'[p], t, done') /\ DiskGood(t, approved', done')
  BY <1>4, <1>5 DEF Located, Locations, DiskGood, SkipPhase, history
<1>8. Typed'
  BY DEF SkipPhase, IInv, Typed, history
<1> QED BY <1>5, <1>6, <1>7, <1>8, StepKeepsIInv DEF SkipPhase, history

LEMMA StartPhaseKeepsIInv ==
  ASSUME IInv, NEW p \in Procs, StartPhase(p)
  PROVE  IInv'
<1> DEFINE i == eng[p].current_phase
           t == [eng[p] EXCEPT !.phase[i] = "running"]
<1>1. Good(eng[p], approved, done) /\ Strict(eng[p]) /\ eng[p].status = "running"
  BY DEF StartPhase, AtPhase, IInv, Located
<1>2. i \in Phases
  BY <1>1, EngineAssumption DEF EngineAssumption, StartPhase, AtPhase, Good, EngineStates, Phases
<1>3. t \in EngineStates
  BY <1>1, <1>2, StatusNames DEF Good, EngineStates
<1>4. /\ t.phase = [eng[p].phase EXCEPT ![i] = "running"] /\ t.current_phase = i
      /\ t.status = "running" /\ t.retry_count = eng[p].retry_count
      /\ t.artifacts = eng[p].artifacts /\ t.phase[i] = "running"
  BY <1>1, <1>2 DEF Good, EngineStates
<1>5. eng[p].retry_count[i] <= MaxAttempts[i] /\ ~ eng[p].artifacts[i]
  BY <1>1, <1>2 DEF Good, Coherent, Strict, Settled
<1>6. Good(t, approved, done) /\ Strict(t)
  <2>1. "running" \in PhaseStatuses \ Settled
    BY DEF Settled, PhaseStatuses
  <2> HIDE DEF t
  <2> QED BY <1>1, <1>2, <1>3, <1>4, <1>5, <2>1, MarkedGood
<1>7. Goto(p, "executing", t) /\ disk' = t
  BY DEF StartPhase, Save
<1>8. Located("executing", cmd'[p], t, done') /\ DiskGood(t, approved', done')
  BY <1>2, <1>4, <1>6 DEF Located, Locations, DiskGood, StartPhase, history
<1>9. Typed'
  BY DEF StartPhase, IInv, Typed, history
<1> QED BY <1>6, <1>7, <1>8, <1>9, StepKeepsIInv DEF StartPhase, history

LEMMA ExecSucceedsKeepsIInv ==
  ASSUME IInv, NEW p \in Procs, ExecSucceeds(p)
  PROVE  IInv'
<1> DEFINE i == eng[p].current_phase
           made == MakesOutput(p, i)
           t == [eng[p] EXCEPT !.artifacts[i] = made]
<1>1. /\ Good(eng[p], approved, done) /\ eng[p].status = "running"
      /\ i \in Phases /\ eng[p].phase[i] = "running"
  BY DEF ExecSucceeds, IInv, Located
<1>2. made \in BOOLEAN
  BY DEF MakesOutput
<1>3. t \in EngineStates
  BY <1>1, <1>2 DEF Good, EngineStates
<1>4. /\ t.phase = eng[p].phase /\ t.current_phase = i /\ t.status = "running"
      /\ t.retry_count = eng[p].retry_count
      /\ \A j \in Phases \ {i} : t.artifacts[j] = eng[p].artifacts[j]
  BY <1>1 DEF Good, EngineStates
<1>5. done \subseteq done' /\ i \in NeedsLLM \cup done' /\ done' \subseteq Phases
  BY <1>1 DEF ExecSucceeds, Stubbed, IInv, Typed
<1>6. Good(t, approved, done)
  BY <1>1, <1>3, <1>4 DEF Good, Coherent, EngineStates, Settled
<1>7. Good(t, approved', done')
  BY <1>5, <1>6, GoodMonotone DEF ExecSucceeds
<1>8. Goto(p, "executed", t) /\ disk' = disk
  BY DEF ExecSucceeds
<1>9. Located("executed", cmd'[p], t, done')
  BY <1>1, <1>4, <1>5 DEF Located, Locations
<1>10. Typed'
  <2>1. files' \subseteq Phases /\ manager' \in [Procs -> SUBSET Phases]
    BY <1>1 DEF ExecSucceeds, IInv, Typed
  <2> QED BY <1>5, <2>1 DEF ExecSucceeds, IInv, Typed
<1> QED BY <1>5, <1>7, <1>8, <1>9, <1>10, StepKeepsIInv DEF ExecSucceeds

LEMMA SettlePhaseKeepsIInv ==
  ASSUME IInv, NEW p \in Procs, SettlePhase(p)
  PROVE  IInv'
<1> DEFINE i == eng[p].current_phase
<1>1. /\ Good(eng[p], approved, done) /\ eng[p].status = "running" /\ i \in Phases
      /\ eng[p].phase[i] = "running" /\ i \in NeedsLLM \cup done
  BY DEF SettlePhase, IInv, Located
<1>2. Typed'
  BY DEF SettlePhase, IInv, Typed, history
<1>3. CASE needs_approval(i)
  <2> DEFINE t == [eng[p] EXCEPT !.phase[i] = "waiting_approval",
                                 !.status = "waiting_approval", !.phase_id = i]
  <2>0. i \in 0..NumPhases
    BY <1>1, NextInRange
  <2>1. t \in EngineStates
    BY <1>1, <2>0, StatusNames DEF Good, EngineStates
  <2>2. /\ t.phase = [eng[p].phase EXCEPT ![i] = "waiting_approval"]
        /\ t.current_phase = i /\ t.status = "waiting_approval" /\ t.phase_id = i
        /\ t.retry_count = eng[p].retry_count /\ t.artifacts = eng[p].artifacts
    BY <1>1 DEF Good, EngineStates
  <2>3. eng[p].retry_count[i] <= MaxAttempts[i]
    BY <1>1 DEF Good, Coherent
  <2>4. Good(t, approved, done) /\ Strict(t)
    <3>1. "waiting_approval" \in PhaseStatuses \ Settled
      BY DEF Settled, PhaseStatuses
    <3> HIDE DEF t
    <3> QED BY <1>1, <1>3, <2>1, <2>2, <2>3, <3>1, MarkedGood
  <2>5. Goto(p, "returned", t) /\ disk' = t
    BY <1>3 DEF SettlePhase, Save
  <2>6. Located("returned", cmd'[p], t, done') /\ DiskGood(t, approved', done')
    BY <2>4 DEF Located, Locations, DiskGood, SettlePhase, history
  <2> QED BY <1>2, <2>4, <2>5, <2>6, StepKeepsIInv DEF SettlePhase, history
<1>4. CASE ~ needs_approval(i)
  <2> DEFINE t == [eng[p] EXCEPT !.phase[i] = "completed", !.current_phase = i + 1]
  <2>1. t \in EngineStates
    BY <1>1, NextInRange, StatusNames DEF Good, EngineStates
  <2>2. /\ t.phase = [eng[p].phase EXCEPT ![i] = "completed"] /\ t.current_phase = i + 1
        /\ t.status = "running" /\ t.retry_count = eng[p].retry_count
        /\ t.artifacts = eng[p].artifacts
    BY <1>1 DEF Good, EngineStates
  <2>3. Good(t, approved, done) /\ Strict(t)
    <3>1. "completed" \in Settled
      BY DEF Settled
    <3> HIDE DEF t
    <3> QED BY <1>1, <1>4, <2>1, <2>2, <3>1, AdvancedGood
  <2>4. Goto(p, "phase", t) /\ disk' = t
    BY <1>4 DEF SettlePhase, Save
  <2>5. Located("phase", cmd'[p], t, done') /\ DiskGood(t, approved', done')
    BY <2>2, <2>3 DEF Located, Locations, DiskGood, SettlePhase, history
  <2> QED BY <1>2, <2>3, <2>4, <2>5, StepKeepsIInv DEF SettlePhase, history
<1> QED BY <1>3, <1>4

LEMMA ExecFailsKeepsIInv ==
  ASSUME IInv, NEW p \in Procs, ExecFails(p)
  PROVE  IInv'
<1> DEFINE i == eng[p].current_phase
           s == eng[p]
           retry == OnFailure[i] = "retry" /\ s.retry_count[i] < MaxAttempts[i]
<1>1. /\ Good(s, approved, done) /\ Strict(s) /\ s.status = "running" /\ i \in Phases
      /\ s.phase[i] = "running" /\ ~ s.artifacts[i] /\ s.retry_count[i] <= MaxAttempts[i]
  BY DEF ExecFails, IInv, Located, Strict, Settled, Good, Coherent
<1>2. Typed'
  <2>1. files' \subseteq Phases
    BY <1>1 DEF ExecFails, CleanedFiles, IInv, Typed
  <2>2. manager' \in [Procs -> SUBSET Phases]
    BY <1>1 DEF ExecFails, IInv, Typed
  <2> QED BY <2>1, <2>2 DEF ExecFails, IInv, Typed, history
<1>3. CASE retry /\ Save(p, "phase",
             [CleanedState(s, {i}) EXCEPT !.retry_count[i] = @ + 1, !.phase[i] = "pending"])
  <2> DEFINE u == CleanedState(s, {i})
             t == [u EXCEPT !.retry_count[i] = @ + 1, !.phase[i] = "pending"]
  <2>1. /\ u \in EngineStates /\ u.phase = s.phase /\ u.current_phase = i
        /\ u.status = "running" /\ u.retry_count = s.retry_count /\ u.phase_id = s.phase_id
        /\ \A j \in Phases : u.artifacts[j] <=> s.artifacts[j] /\ j # i
    <3>1. \A j \in Phases : (s.artifacts[j] /\ j \notin {i}) \in BOOLEAN
      OBVIOUS
    <3> QED BY <1>1, <3>1 DEF CleanedState, Good, EngineStates
  <2>2. t \in EngineStates
    <3> HIDE DEF u
    <3>1. u.retry_count[i] + 1 \in Nat
      BY <1>1, <2>1 DEF EngineStates
    <3> QED BY <1>1, <2>1, <3>1, StatusNames DEF EngineStates
  <2>3. /\ t.phase = [s.phase EXCEPT ![i] = "pending"] /\ t.current_phase = i
        /\ t.status = "running" /\ t.artifacts = u.artifacts
        /\ t.retry_count = [s.retry_count EXCEPT ![i] = @ + 1]
    <3> HIDE DEF u
    <3> QED BY <1>1, <2>1 DEF EngineStates
  <2>4. /\ \A j \in Phases \ {i} : t.retry_count[j] = s.retry_count[j]
        /\ t.retry_count[i] <= MaxAttempts[i]
        /\ ~ t.artifacts[i] /\ \A j \in Phases \ {i} : t.artifacts[j] => s.artifacts[j]
    <3>1. MaxAttempts[i] \in Nat /\ s.retry_count[i] \in Nat
      BY <1>1, EngineAssumption DEF EngineAssumption, Good, EngineStates
    <3> HIDE DEF u, t
    <3> QED BY <1>1, <1>3, <2>1, <2>3, <3>1 DEF Good, EngineStates
  <2>5. Good(t, approved, done) /\ Strict(t)
    <3>1. "pending" \in PhaseStatuses \ Settled
      BY DEF Settled, PhaseStatuses
    <3>2. /\ t.phase = [s.phase EXCEPT ![i] = "pending"] /\ t.current_phase = i
          /\ t.status = "running"
      BY <2>3
    <3> HIDE DEF u, t, retry
    <3> QED BY <1>1, <2>2, <2>4, <3>1, <3>2, MarkedGood
  <2>6. Goto(p, "phase", t) /\ disk' = t
    BY <1>3 DEF Save
  <2>7. Located("phase", cmd'[p], t, done') /\ DiskGood(t, approved', done')
    <3>1. "phase" \in Locations
      BY DEF Locations
    <3>2. approved' = approved /\ done' = done
      BY DEF ExecFails, history
    <3> HIDE DEF t, u, retry
    <3> QED BY <2>3, <2>5, <3>1, <3>2 DEF Located, DiskGood
  <2> HIDE DEF t
  <2> QED BY <1>2, <2>5, <2>6, <2>7, StepKeepsIInv DEF ExecFails, history
<1>4. CASE Save(p, "phase", [s EXCEPT !.phase[i] = "skipped", !.current_phase = i + 1])
  <2> DEFINE t == [s EXCEPT !.phase[i] = "skipped", !.current_phase = i + 1]
  <2>1. t \in EngineStates
    BY <1>1, NextInRange, StatusNames DEF Good, EngineStates
  <2>2. /\ t.phase = [s.phase EXCEPT ![i] = "skipped"] /\ t.current_phase = i + 1
        /\ t.status = "running" /\ t.retry_count = s.retry_count /\ t.artifacts = s.artifacts
    BY <1>1 DEF Good, EngineStates
  <2>3. Good(t, approved, done) /\ Strict(t)
    <3>1. "skipped" \in Settled /\ "skipped" # "completed"
      BY DEF Settled
    <3> HIDE DEF t, retry
    <3> QED BY <1>1, <2>1, <2>2, <3>1, AdvancedGood
  <2>4. Goto(p, "phase", t) /\ disk' = t
    BY <1>4 DEF Save
  <2>5. Located("phase", cmd'[p], t, done') /\ DiskGood(t, approved', done')
    BY <2>2, <2>3 DEF Located, Locations, DiskGood, ExecFails, history
  <2> QED BY <1>2, <2>3, <2>4, <2>5, StepKeepsIInv DEF ExecFails, history
<1>5. CASE Save(p, "returned", [s EXCEPT !.phase[i] = "failed", !.status = "failed"])
  <2> DEFINE t == [s EXCEPT !.phase[i] = "failed", !.status = "failed"]
  <2>1. t \in EngineStates
    BY <1>1, StatusNames DEF Good, EngineStates
  <2>2. /\ t.phase = [s.phase EXCEPT ![i] = "failed"] /\ t.current_phase = i
        /\ t.status = "failed" /\ t.retry_count = s.retry_count /\ t.artifacts = s.artifacts
    BY <1>1 DEF Good, EngineStates
  <2>3. Good(t, approved, done) /\ Strict(t)
    <3>1. "failed" \in PhaseStatuses \ Settled
      BY DEF Settled, PhaseStatuses
    <3> HIDE DEF t
    <3> QED BY <1>1, <2>1, <2>2, <3>1, MarkedGood
  <2>4. Goto(p, "returned", t) /\ disk' = t
    BY <1>5 DEF Save
  <2>5. Located("returned", cmd'[p], t, done') /\ DiskGood(t, approved', done')
    BY <2>2, <2>3 DEF Located, Locations, DiskGood, ExecFails, history
  <2> QED BY <1>2, <2>3, <2>4, <2>5, StepKeepsIInv DEF ExecFails, history
<1> QED BY <1>3, <1>4, <1>5 DEF ExecFails

LEMMA CompleteRitualKeepsIInv ==
  ASSUME IInv, NEW p \in Procs, CompleteRitual(p)
  PROVE  IInv'
<1> DEFINE t == [eng[p] EXCEPT !.status = "completed"]
<1>1. Good(eng[p], approved, done) /\ Strict(eng[p]) /\ eng[p].status = "running"
  BY DEF CompleteRitual, IInv, Located
<1>2. eng[p].current_phase = NumPhases + 1
  <2>1. /\ eng[p].current_phase \in 1..(NumPhases + 1)
        /\ eng[p].current_phase > NumPhases
    BY <1>1 DEF CompleteRitual, Good, EngineStates
  <2>2. NumPhases \in Nat
    BY EngineAssumption DEF EngineAssumption
  <2> QED BY <2>1, <2>2
<1>3. t \in EngineStates
  BY <1>1, StatusNames DEF Good, EngineStates
<1>4. /\ t.phase = eng[p].phase /\ t.current_phase = NumPhases + 1
      /\ t.status = "completed" /\ t.retry_count = eng[p].retry_count
      /\ t.artifacts = eng[p].artifacts
  BY <1>1, <1>2 DEF Good, EngineStates
<1>5. Good(t, approved, done) /\ Strict(t)
  BY <1>1, <1>2, <1>3, <1>4 DEF Good, Coherent, Strict
<1>6. Goto(p, "returned", t) /\ disk' = t
  BY DEF CompleteRitual, Save
<1>7. Located("returned", cmd'[p], t, done') /\ DiskGood(t, approved', done')
  BY <1>5 DEF Located, Locations, DiskGood, CompleteRitual, history
<1>8. Typed'
  BY DEF CompleteRitual, IInv, Typed, history
<1> QED BY <1>5, <1>6, <1>7, <1>8, StepKeepsIInv DEF CompleteRitual, history

LEMMA ReturnToCommandKeepsIInv ==
  ASSUME IInv, NEW p \in Procs, ReturnToCommand(p)
  PROVE  IInv'
<1>1. Good(eng[p], approved, done) /\ Strict(eng[p])
  BY DEF ReturnToCommand, IInv, Located
<1>2. Good(eng[p], approved', done')
  BY <1>1 DEF ReturnToCommand, history
<1>3. CASE Goto(p, "top", eng[p]) /\ UNCHANGED manager
           /\ nested' = [nested EXCEPT ![p] = FALSE]
  <2>1. Located("top", cmd'[p], eng[p], done')
    BY <1>1 DEF Located, Locations
  <2>2. Typed'
    BY <1>3 DEF ReturnToCommand, IInv, Typed, history
  <2> QED BY <1>2, <1>3, <2>1, <2>2, StepKeepsIInv DEF ReturnToCommand, history
<1>4. CASE /\ eng[p].status = "waiting_approval"
           /\ Goto(p, IF cmd[p] = "run" THEN "prompt" ELSE "approving", eng[p])
           /\ UNCHANGED <<nested, manager>>
  <2> DEFINE l == IF cmd[p] = "run" THEN "prompt" ELSE "approving"
  <2>1. Located(l, cmd'[p], eng[p], done')
    BY <1>1, <1>4 DEF Located, Locations
  <2>2. Typed'
    BY <1>4 DEF ReturnToCommand, IInv, Typed, history
  <2> QED BY <1>2, <1>4, <2>1, <2>2, StepKeepsIInv DEF ReturnToCommand, history
<1>5. CASE Exit(p)
  BY <1>5, ExitKeepsIInv DEF ReturnToCommand, IInv, Typed, history
<1> QED BY <1>3, <1>4, <1>5 DEF ReturnToCommand

LEMMA ApproveKeepsIInv ==
  ASSUME IInv, NEW p \in Procs, Approve(p)
  PROVE  IInv'
<1> DEFINE g == eng[p].phase_id
           t == [eng[p] EXCEPT !.phase[g] = "completed", !.current_phase = g + 1,
                               !.status = "running", !.phase_id = 0]
<1>1. Good(eng[p], approved, done) /\ Strict(eng[p])
  BY DEF Approve, IInv, Located
<1>2. CASE eng[p].status # "waiting_approval"
  BY <1>2, ExitKeepsIInv DEF Approve, IInv, Typed
<1>3. CASE eng[p].status = "waiting_approval"
  <2>1. /\ g \in Phases /\ g = eng[p].current_phase /\ eng[p].phase[g] = "waiting_approval"
        /\ g \in NeedsLLM \cup done
    BY <1>1, <1>3 DEF Good, Coherent
  <2>2. /\ Save(p, "top", t) /\ nested' = [nested EXCEPT ![p] = TRUE]
        /\ approved' = approved \cup {g} /\ UNCHANGED <<manager, files, cmd, typed, crashes, done>>
    BY <1>3 DEF Approve
  <2>3. t \in EngineStates
    <3>1. 0 \in 0..NumPhases
      BY EngineAssumption DEF EngineAssumption
    <3> QED BY <1>1, <2>1, <3>1, NextInRange, StatusNames DEF Good, EngineStates
  <2>4. /\ t.phase = [eng[p].phase EXCEPT ![g] = "completed"] /\ t.current_phase = g + 1
        /\ t.status = "running" /\ t.retry_count = eng[p].retry_count
        /\ t.artifacts = eng[p].artifacts
    BY <1>1, <2>1 DEF Good, EngineStates
  <2>5. Good(eng[p], approved', done') /\ g \in approved' /\ approved' \subseteq Phases
    BY <1>1, <2>1, <2>2, GoodMonotone DEF IInv, Typed
  <2>6. Good(t, approved', done') /\ Strict(t)
    <3>1. "completed" \in Settled
      BY DEF Settled
    <3>2. g \in NeedsLLM \cup done'
      BY <2>1, <2>2
    <3> HIDE DEF t
    <3> QED BY <2>1, <2>3, <2>4, <2>5, <3>1, <3>2, AdvancedGood
  <2>7. Goto(p, "top", t) /\ disk' = t
    BY <2>2 DEF Save
  <2>8. Located("top", cmd'[p], t, done') /\ DiskGood(t, approved', done')
    BY <2>6 DEF Located, Locations, DiskGood
  <2>9. Typed'
    BY <2>2, <2>5 DEF IInv, Typed
  <2> HIDE DEF t
  <2> QED BY <2>2, <2>6, <2>7, <2>8, <2>9, StepKeepsIInv
<1> QED BY <1>2, <1>3

LEMMA SkipCurrentKeepsIInv ==
  ASSUME IInv, NEW p \in Procs, SkipCurrent(p)
  PROVE  IInv'
<1> DEFINE i == eng[p].current_phase
           s == eng[p]
           st == IF s.status = "waiting_approval" THEN "running" ELSE s.status
           t == [s EXCEPT !.phase[i] = "skipped", !.current_phase = i + 1,
                          !.status = IF @ = "waiting_approval" THEN "running" ELSE @,
                          !.phase_id = 0]
<1>1. Good(s, approved, done) /\ Strict(s)
  BY DEF SkipCurrent, IInv, Located
<1>2. CASE i > NumPhases /\ Exit(p) /\ UNCHANGED disk
  BY <1>2, ExitKeepsIInv DEF SkipCurrent, IInv, Typed, history
<1>3. CASE i <= NumPhases
  <2>1. i \in Phases
    BY <1>1, <1>3, EngineAssumption DEF EngineAssumption, Good, EngineStates, Phases
  <2>2. st \in {"running", "failed", "cancelled"}
    <3>1. s.status \in RitualStatuses
      BY <1>1 DEF Good, EngineStates
    <3>2. i # NumPhases + 1
      <4>1. NumPhases \in Nat
        BY EngineAssumption DEF EngineAssumption
      <4> QED BY <2>1, <4>1 DEF Phases
    <3>3. s.status # "completed"
      BY <1>1, <3>2 DEF Good, Coherent
    <3> QED BY <3>1, <3>3 DEF RitualStatuses
  <2>3. t \in EngineStates
    <3>1. 0 \in 0..NumPhases
      BY EngineAssumption DEF EngineAssumption
    <3>2. s.status \in RitualStatuses
      BY <1>1 DEF Good, EngineStates
    <3> QED BY <1>1, <2>1, <3>1, <3>2, NextInRange, StatusNames
         DEF Good, EngineStates
  <2>4. /\ t.phase = [s.phase EXCEPT ![i] = "skipped"] /\ t.current_phase = i + 1
        /\ t.status = st /\ t.retry_count = s.retry_count /\ t.artifacts = s.artifacts
    BY <1>1, <2>1 DEF Good, EngineStates
  <2>5. Good(t, approved, done) /\ Strict(t)
    <3>1. "skipped" \in Settled /\ "skipped" # "completed"
      BY DEF Settled
    <3>2. t.status \in {"running", "failed", "cancelled"}
      BY <2>2, <2>4
    <3> HIDE DEF t, st
    <3> QED BY <1>1, <2>1, <2>3, <2>4, <3>1, <3>2, AdvancedGood
  <2>6. /\ disk' = t
        /\ \/ Exit(p)
           \/ Goto(p, "top", t) /\ nested' = nested /\ manager' = manager
    <3>1. ~ (i > NumPhases)
      BY <2>1, NextInRange
    <3> QED BY <3>1 DEF SkipCurrent
  <2>7. DiskGood(t, approved', done')
    BY <2>5 DEF DiskGood, SkipCurrent, history
  <2>8. Located("top", cmd'[p], t, done')
    BY <2>5 DEF Located, Locations
  <2> HIDE DEF t
  <2>9. CASE Exit(p)
    BY <2>6, <2>7, <2>9, ExitKeepsIInv DEF SkipCurrent, IInv, Typed, history
  <2>10. CASE Goto(p, "top", t) /\ nested' = nested /\ manager' = manager
    <3>1. Typed'
      BY <2>10 DEF SkipCurrent, IInv, Typed, history
    <3> QED BY <2>5, <2>6, <2>7, <2>8, <2>10, <3>1, StepKeepsIInv DEF SkipCurrent, history
  <2> QED BY <2>6, <2>9, <2>10
<1> QED BY <1>2, <1>3 DEF SkipCurrent

\* cancel() keeps what is coherent; a waiting phase may stay behind it.
LEMMA CancelKeepsIInv ==
  ASSUME IInv, NEW p \in Procs, Cancel(p)
  PROVE  IInv'
<1> DEFINE s == eng[p]
           incomplete == {i \in Phases : s.phase[i] \in {"running", "pending"}}
           u == CleanedState(s, incomplete)
           t == [u EXCEPT !.status = "cancelled", !.phase_id = 0]
<1>1. Good(s, approved, done) /\ Strict(s)
  BY DEF Cancel, IInv, Located
<1>2. /\ u \in EngineStates /\ u.phase = s.phase /\ u.current_phase = s.current_phase
      /\ u.retry_count = s.retry_count
      /\ \A j \in Phases : u.artifacts[j] => s.artifacts[j]
  <2>1. \A j \in Phases : (s.artifacts[j] /\ j \notin incomplete) \in BOOLEAN
    OBVIOUS
  <2> QED BY <1>1, <2>1 DEF CleanedState, Good, EngineStates
<1>3. t \in EngineStates
  <2>1. 0 \in 0..NumPhases
    BY EngineAssumption DEF EngineAssumption
  <2> HIDE DEF u
  <2> QED BY <1>2, <2>1 DEF EngineStates, RitualStatuses
<1>4. /\ t.phase = s.phase /\ t.current_phase = s.current_phase
      /\ t.status = "cancelled" /\ t.retry_count = s.retry_count
      /\ \A j \in Phases : t.artifacts[j] => s.artifacts[j]
  <2> HIDE DEF u
  <2> QED BY <1>2 DEF EngineStates
<1>5. Good(t, approved, done) /\ Strict(t)
  <2> HIDE DEF t
  <2> QED BY <1>1, <1>3, <1>4 DEF Good, Coherent, Strict
<1>6. disk' = t /\ Exit(p)
  BY DEF Cancel
<1>7. DiskGood(t, approved', done')
  BY <1>5 DEF DiskGood, Cancel, history
<1>8. files' \subseteq Phases
  BY DEF Cancel, CleanedFiles, IInv, Typed
<1> HIDE DEF t
<1> QED BY <1>6, <1>7, <1>8, ExitKeepsIInv DEF Cancel, IInv, Typed, history

LEMMA CrashKeepsIInv ==
  ASSUME IInv, NEW p \in Procs, Crash(p)
  PROVE  IInv'
<1>1. files' \subseteq Phases
  BY DEF Crash, IInv, Typed, Located
<1>2. crashes' \in 0..MaxCrashes
  BY EngineAssumption DEF EngineAssumption, Crash, IInv, Typed
<1>3. disk' = disk \/ DiskGood(disk', approved', done')
  BY DEF Crash, DiskGood, Loads
<1> QED BY <1>1, <1>2, <1>3, ExitKeepsIInv DEF Crash, IInv, Typed

LEMMA NextKeepsIInv == IInv /\ [Next]_vars => IInv'
<1> SUFFICES ASSUME IInv, [Next]_vars PROVE IInv'
  OBVIOUS
<1>1. CASE UNCHANGED vars
  BY <1>1 DEF vars, local, history, IInv, Typed, DiskGood
<1>2. ASSUME NEW p \in Procs, RunStep(p) PROVE IInv'
  <2>1. CASE PreHookFails(p) \/ PostHookFails(p)
    BY <2>1, ExitKeepsIInv DEF PreHookFails, PostHookFails, IInv, Typed, history
  <2> QED BY <1>2, <2>1, EnterRunKeepsIInv, SkipPhaseKeepsIInv, StartPhaseKeepsIInv,
       ExecSucceedsKeepsIInv, ExecFailsKeepsIInv, SettlePhaseKeepsIInv,
       CompleteRitualKeepsIInv, ReturnToCommandKeepsIInv, CancelKeepsIInv,
       ApproveKeepsIInv, SkipCurrentKeepsIInv DEF RunStep
<1>3. ASSUME NEW p \in Procs, Reject(p) PROVE IInv'
  BY <1>3, ExitKeepsIInv DEF Reject, IInv, Typed, history
<1> QED BY <1>1, <1>2, <1>3, StartKeepsIInv, RefusedKeepsIInv, CrashKeepsIInv DEF Next

THEOREM EngineInvariant == Spec => []IInv
BY InitIInv, NextKeepsIInv, PTL DEF Spec

-----------------------------------------------------------------------------
\* The type invariant, of RitualEngine.
THEOREM EngineTypeOK == Spec => []TypeOK
<1>1. IInv => TypeOK
  BY DEF IInv, Typed, Locations, DiskGood, Loads, Good, TypeOK
<1> QED BY <1>1, EngineInvariant, PTL

\* However many commands run at once over the unlocked state file, and wherever
\* they are killed, every copy of the ritual state is coherent.
THEOREM EngineCopiesCoherent == Spec => []EveryCopyCoherent
<1>1. IInv => EveryCopyCoherent
  BY DEF IInv, DiskGood, Loads, Good, EveryCopyCoherent, Copies
<1> QED BY <1>1, EngineInvariant, PTL

\* No phase behind a gate is executed before the gate was approved or skipped.
THEOREM EngineGatesHold == Spec => []NoWorkPastAnUnapprovedGate
<1>1. IInv => NoWorkPastAnUnapprovedGate
  BY DEF IInv, Good, Coherent, Settled, NoWorkPastAnUnapprovedGate
<1> QED BY <1>1, EngineInvariant, PTL

\* A completed or presented phase that needs no LLM really ran.
THEOREM EngineLocalPhasesRan == Spec => []LocalPhasesReallyRan
<1>1. IInv => LocalPhasesReallyRan
  BY DEF IInv, DiskGood, Loads, Good, LocalPhasesReallyRan, Copies
<1> QED BY <1>1, EngineInvariant, PTL
-----------------------------------------------------------------------------
(* One command at a time *)

\* What is settled in s is settled alike in t.
Keeps(s, t) == \A i \in Phases : s.phase[i] \in Settled => t.phase[i] = s.phase[i]

\* A command that runs knows everything the file says is settled.
KnowsSettled ==
  Loads(disk) => \A p \in Procs : pc[p] # "idle" => Keeps(disk, eng[p])

\* The states a command may save: one in which a phase that is not settled changed.
LEMMA ChangedKeeps ==
  ASSUME NEW s \in EngineStates, NEW i \in Phases, s.phase[i] \notin Settled, NEW x,
         NEW t, t.phase = [s.phase EXCEPT ![i] = x]
  PROVE  Keeps(s, t)
  BY DEF Keeps, EngineStates

\* The step of a command leaves the file alone and ends it or goes on with what it
\* knew, or writes what it goes on with; nothing that was settled changes.  Or the
\* command dies and leaves the file torn.
Steps(p) ==
  /\ pc[p] # "idle"
  /\ \/ UNCHANGED disk /\ (pc'[p] = "idle" \/ Keeps(eng[p], eng'[p]))
     \/ Keeps(eng[p], disk') /\ (pc'[p] = "idle" \/ eng'[p] = disk')
     \/ disk' = Torn /\ pc'[p] = "idle"

LEMMA EndSteps ==
  ASSUME IInv, NEW p \in Procs, Exit(p), pc[p] # "idle", UNCHANGED disk \/ disk' = Torn
  PROVE  Steps(p)
  BY DEF IInv, Exit, Goto, Steps

LEMMA GoSteps ==
  ASSUME IInv, NEW p \in Procs, NEW l, NEW t, Goto(p, l, t), pc[p] # "idle",
         Keeps(eng[p], t), disk' = t \/ UNCHANGED disk
  PROVE  Steps(p)
  BY DEF IInv, Goto, Steps

LEMMA LoopSteps ==
  ASSUME IInv, NEW p \in Procs,
         \/ EnterRun(p) \/ SkipPhase(p) \/ PreHookFails(p) \/ StartPhase(p)
         \/ ExecSucceeds(p) \/ ExecFails(p) \/ PostHookFails(p) \/ SettlePhase(p)
         \/ CompleteRitual(p) \/ ReturnToCommand(p)
  PROVE  Steps(p)
<1> DEFINE s == eng[p]
           i == s.current_phase
<1>1. s \in EngineStates /\ Coherent(s) /\ Keeps(s, s)
  BY DEF IInv, Good, Keeps
<1>2. i \in Phases => s.phase[i] \notin Settled
  BY <1>1 DEF Coherent
<1>3. pc[p] \in {"executing", "executed"} \/ AtPhase(p) => i \in Phases
  <2>1. AtPhase(p) => i \in Phases
    BY <1>1, EngineAssumption DEF EngineAssumption, AtPhase, EngineStates, Phases
  <2> QED BY <2>1 DEF IInv, Located
<1>4. CASE EnterRun(p)
  <2>1. CASE eng[p].status \in {"running", "failed"}
    <3> DEFINE t == [s EXCEPT !.status = "running", !.phase_id = 0]
    <3>1. Keeps(s, t)
      BY <1>1 DEF Keeps, EngineStates
    <3> HIDE DEF t
    <3>2. Goto(p, "phase", t) /\ disk' = t
      BY <1>4, <2>1 DEF EnterRun, Save, t
    <3> QED BY <1>4, <3>1, <3>2, GoSteps DEF EnterRun
  <2> QED BY <1>1, <1>4, <2>1, EndSteps, GoSteps DEF EnterRun
<1>5. CASE SkipPhase(p)
  <2> DEFINE t == [s EXCEPT !.phase[i] = "skipped", !.current_phase = i + 1]
  <2>1. t.phase = [s.phase EXCEPT ![i] = "skipped"]
    BY <1>1 DEF EngineStates
  <2>2. Goto(p, "phase", t) /\ disk' = t /\ AtPhase(p) /\ pc[p] # "idle"
    BY <1>5 DEF SkipPhase, Save, AtPhase
  <2> HIDE DEF t
  <2> QED BY <1>1, <1>2, <1>3, <2>1, <2>2, ChangedKeeps, GoSteps
<1>6. CASE PreHookFails(p) \/ PostHookFails(p)
  BY <1>6, EndSteps DEF PreHookFails, PostHookFails, AtPhase
<1>7. CASE StartPhase(p)
  <2> DEFINE t == [s EXCEPT !.phase[i] = "running"]
  <2>1. t.phase = [s.phase EXCEPT ![i] = "running"]
    BY <1>1 DEF EngineStates
  <2>2. Goto(p, "executing", t) /\ disk' = t /\ AtPhase(p) /\ pc[p] # "idle"
    BY <1>7 DEF StartPhase, Save, AtPhase
  <2> HIDE DEF t
  <2> QED BY <1>1, <1>2, <1>3, <2>1, <2>2, ChangedKeeps, GoSteps
<1>8. CASE ExecSucceeds(p)
  <2>1. PICK made : Goto(p, "executed", [s EXCEPT !.artifacts[i] = made])
    BY <1>8 DEF ExecSucceeds
  <2>2. Keeps(s, [s EXCEPT !.artifacts[i] = made])
    BY <1>1 DEF Keeps, EngineStates
  <2> QED BY <1>8, <2>1, <2>2, GoSteps DEF ExecSucceeds
<1>9. CASE ExecFails(p)
  <2>1. i \in Phases /\ pc[p] # "idle"
    BY <1>3, <1>9 DEF ExecFails
  <2>2. ASSUME NEW l, NEW t, NEW x, Goto(p, l, t), disk' = t,
               t.phase = [s.phase EXCEPT ![i] = x]
        PROVE  Steps(p)
    BY <1>1, <1>2, <2>1, <2>2, ChangedKeeps, GoSteps
  <2> DEFINE retried == [CleanedState(s, {i}) EXCEPT !.retry_count[i] = @ + 1, !.phase[i] = "pending"]
             skipped == [s EXCEPT !.phase[i] = "skipped", !.current_phase = i + 1]
             failed == [s EXCEPT !.phase[i] = "failed", !.status = "failed"]
  <2>3. /\ retried.phase = [s.phase EXCEPT ![i] = "pending"]
        /\ skipped.phase = [s.phase EXCEPT ![i] = "skipped"]
        /\ failed.phase = [s.phase EXCEPT ![i] = "failed"]
    BY <1>1 DEF CleanedState, EngineStates
  <2>4. \/ Goto(p, "phase", retried) /\ disk' = retried
        \/ Goto(p, "phase", skipped) /\ disk' = skipped
        \/ Goto(p, "returned", failed) /\ disk' = failed
    BY <1>9 DEF ExecFails, Save
  <2> HIDE DEF retried, skipped, failed
  <2> QED BY <2>2, <2>3, <2>4
<1>10. CASE SettlePhase(p)
  <2>1. i \in Phases /\ pc[p] # "idle"
    BY <1>3, <1>10 DEF SettlePhase
  <2>2. ASSUME NEW l, NEW t, NEW x, Goto(p, l, t), disk' = t,
               t.phase = [s.phase EXCEPT ![i] = x]
        PROVE  Steps(p)
    BY <1>1, <1>2, <2>1, <2>2, ChangedKeeps, GoSteps
  <2> DEFINE gated == [s EXCEPT !.phase[i] = "waiting_approval", !.status = "waiting_approval",
                                !.phase_id = i]
             completed == [s EXCEPT !.phase[i] = "completed", !.current_phase = i + 1]
  <2>3. /\ gated.phase = [s.phase EXCEPT ![i] = "waiting_approval"]
        /\ completed.phase = [s.phase EXCEPT ![i] = "completed"]
    BY <1>1 DEF EngineStates
  <2>4. \/ Goto(p, "returned", gated) /\ disk' = gated
        \/ Goto(p, "phase", completed) /\ disk' = completed
    BY <1>10 DEF SettlePhase, Save
  <2> HIDE DEF gated, completed
  <2> QED BY <2>2, <2>3, <2>4
<1>11. CASE CompleteRitual(p)
  <2> DEFINE t == [s EXCEPT !.status = "completed"]
  <2>1. Keeps(s, t)
    BY <1>1 DEF Keeps, EngineStates
  <2>2. Goto(p, "returned", t) /\ disk' = t /\ pc[p] # "idle"
    BY <1>11 DEF CompleteRitual, Save
  <2> HIDE DEF t
  <2> QED BY <2>1, <2>2, GoSteps
<1>12. CASE ReturnToCommand(p)
  BY <1>1, <1>12, EndSteps, GoSteps DEF ReturnToCommand
<1> QED BY <1>4, <1>5, <1>6, <1>7, <1>8, <1>9, <1>10, <1>11, <1>12

LEMMA UserSteps ==
  ASSUME IInv, NEW p \in Procs,
         Cancel(p) \/ Approve(p) \/ SkipCurrent(p) \/ Reject(p) \/ Crash(p)
  PROVE  Steps(p)
<1> DEFINE s == eng[p]
           i == s.current_phase
<1>1. s \in EngineStates /\ Coherent(s) /\ Keeps(s, s)
  BY DEF IInv, Good, Keeps
<1>2. i \in Phases => s.phase[i] \notin Settled
  BY <1>1 DEF Coherent
<1>3. CASE Reject(p) \/ Crash(p)
  BY <1>3, EndSteps DEF Reject, Crash
<1>4. CASE Cancel(p)
  <2> DEFINE u == CleanedState(s, {j \in Phases : s.phase[j] \in {"running", "pending"}})
  <2>1. [u EXCEPT !.status = "cancelled", !.phase_id = 0].phase = s.phase
    BY <1>1 DEF CleanedState, EngineStates
  <2>2. disk'.phase = s.phase /\ pc'[p] = "idle" /\ pc[p] # "idle"
    BY <1>4, <2>1 DEF Cancel, Exit, Goto, IInv
  <2> QED BY <2>2 DEF Steps, Keeps
<1>5. CASE Approve(p)
  <2> DEFINE g == s.phase_id
             t == [s EXCEPT !.phase[g] = "completed", !.current_phase = g + 1,
                            !.status = "running", !.phase_id = 0]
  <2>1. pc[p] # "idle"
    BY <1>5 DEF Approve
  <2>2. CASE s.status # "waiting_approval"
    BY <1>5, <2>1, <2>2, EndSteps DEF Approve
  <2>3. CASE s.status = "waiting_approval"
    <3>1. g \in Phases /\ s.phase[g] \notin Settled
      BY <1>1, <1>2, <2>3 DEF Coherent
    <3>2. t.phase = [s.phase EXCEPT ![g] = "completed"]
      BY <1>1 DEF EngineStates
    <3>3. Goto(p, "top", t) /\ disk' = t
      BY <1>5, <2>3 DEF Approve, Save
    <3> HIDE DEF t
    <3> QED BY <1>1, <2>1, <3>1, <3>2, <3>3, ChangedKeeps, GoSteps
  <2> QED BY <2>2, <2>3
<1>6. CASE SkipCurrent(p)
  <2> DEFINE t == [s EXCEPT !.phase[i] = "skipped", !.current_phase = i + 1,
                            !.status = IF @ = "waiting_approval" THEN "running" ELSE @,
                            !.phase_id = 0]
  <2>1. pc[p] # "idle"
    BY <1>6 DEF SkipCurrent
  <2>2. CASE i > NumPhases /\ Exit(p) /\ UNCHANGED disk
    BY <2>1, <2>2, EndSteps
  <2>3. CASE i <= NumPhases /\ disk' = t /\ (Exit(p) \/ Goto(p, "top", t))
    <3>1. i \in Phases
      BY <1>1, <2>3, EngineAssumption DEF EngineAssumption, EngineStates, Phases
    <3>2. t.phase = [s.phase EXCEPT ![i] = "skipped"]
      BY <1>1 DEF EngineStates
    <3> HIDE DEF t
    <3>3. Keeps(s, t)
      BY <1>1, <1>2, <3>1, <3>2, ChangedKeeps
    <3>4. CASE Exit(p)
      BY <2>1, <2>3, <3>3, <3>4 DEF Steps, Exit, Goto, IInv
    <3>5. CASE Goto(p, "top", t)
      BY <2>1, <2>3, <3>3, <3>5, GoSteps
    <3> QED BY <2>3, <3>4, <3>5
  <2> QED BY <1>6, <2>2, <2>3 DEF SkipCurrent
<1> QED BY <1>3, <1>4, <1>5, <1>6

LEMMA SettledSteps ==
  ASSUME \A p, q \in Procs : p = q, IInv, KnowsSettled, [Next]_vars
  PROVE  KnowsSettled' /\ (Loads(disk) => disk' = Torn \/ Keeps(disk, disk'))
<1>1. CASE UNCHANGED vars
  BY <1>1 DEF vars, local, KnowsSettled, Loads, Keeps
<1>2. ASSUME NEW p \in Procs, NEW c \in Commands, StartRun(p, c) \/ StartCommand(p, c)
      PROVE  KnowsSettled' /\ (Loads(disk) => disk' = Torn \/ Keeps(disk, disk'))
  <2>1. disk' = disk
    BY <1>2 DEF StartRun, StartCommand, Type
  <2>2. Loads(disk) => eng'[p] = Resumed(disk)
    BY <1>2 DEF StartRun, StartCommand, Loads, Goto, IInv
  <2>3. Loads(disk) => Keeps(disk, Resumed(disk))
    BY DEF IInv, DiskGood, Good, EngineStates, Resumed, Keeps, Settled
  <2> QED BY <2>1, <2>2, <2>3 DEF KnowsSettled, Loads, Keeps
<1>3. ASSUME NEW p \in Procs, NEW c \in Commands, RefuseCommand(p, c)
      PROVE  KnowsSettled' /\ (Loads(disk) => disk' = Torn \/ Keeps(disk, disk'))
  <2>1. disk' = disk /\ UNCHANGED <<pc, eng>>
    BY <1>3 DEF RefuseCommand, Type
  <2> QED BY <2>1 DEF KnowsSettled, Loads, Keeps
<1>4. ASSUME NEW p \in Procs, Steps(p)
      PROVE  KnowsSettled' /\ (Loads(disk) => disk' = Torn \/ Keeps(disk, disk'))
  <2>1. Loads(disk) => Keeps(disk, eng[p])
    BY <1>4 DEF KnowsSettled, Steps
  <2>2. CASE UNCHANGED disk /\ (pc'[p] = "idle" \/ Keeps(eng[p], eng'[p]))
    BY <2>1, <2>2 DEF KnowsSettled, Loads, Keeps
  <2>3. CASE Keeps(eng[p], disk') /\ (pc'[p] = "idle" \/ eng'[p] = disk')
    BY <2>1, <2>3 DEF KnowsSettled, Keeps
  <2>4. CASE disk' = Torn /\ pc'[p] = "idle"
    BY <2>4 DEF KnowsSettled
  <2> QED BY <1>4, <2>2, <2>3, <2>4 DEF Steps
<1> QED BY <1>1, <1>2, <1>3, <1>4, LoopSteps, UserSteps DEF Next, RunStep

\* SettledStaysSettled, for every ritual, when only one command runs at a time: after
\* any number of commands, kills and resumes, what the file once said is settled is,
\* for as long as no kill tears the file.
THEOREM EngineSettledStays ==
  ASSUME \A p, q \in Procs : p = q
  PROVE  Spec => SettledStaysSettled
<1>1. Init => KnowsSettled
  BY DEF Init, KnowsSettled
<1>2. IInv /\ KnowsSettled /\ [Next]_vars => KnowsSettled'
  BY SettledSteps
<1>3. IInv /\ KnowsSettled /\ [Next]_vars
      => [\A i \in Phases : Loads(disk) /\ disk.phase[i] \in Settled =>
            disk' = Torn \/ disk'.phase[i] = disk.phase[i]]_disk
  BY SettledSteps DEF Keeps
<1> QED BY <1>1, <1>2, <1>3, EngineInvariant, PTL DEF Spec, SettledStaysSettled
=============================================================================
