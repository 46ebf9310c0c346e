----------------------------- MODULE RitualPhases -----------------------------
(***************************************************************************)
(* What the phases of a ritual are and may do (ritual/template.rs,         *)
(* composer.rs, executor.rs, scope.rs, gating.rs): the shipped rituals,    *)
(* the one composed for a project, the tools, paths and commands of a      *)
(* phase, and when its executor reports a success.                         *)
(*                                                                         *)
(* A path is the sequence of its segments and a command the sequence of    *)
(* its words; a regular expression or a prefix of commands is the          *)
(* beginning of such a sequence.  A leading "./", models, timeouts, inputs *)
(* and the wording of prompts are left out.                                *)
(***************************************************************************)
EXTENDS Naturals, Sequences, SequencesExt, FiniteSetsExt

CONSTANTS
    Wild,      \* a segment with a star in it -> the segments it stands for
    Starting   \* the name of a directory -> longer names that begin with it

None == "none"

-----------------------------------------------------------------------------
(* Two matchers for patterns *)

SegmentMatch(pattern, segment) ==
    pattern = segment \/ pattern = "*" \/ (pattern \in DOMAIN Wild /\ segment \in Wild[pattern])

\* Of the scopes: ** stands for any number of segments.  fits[i] are the places in the
\* path from where it matches the pattern from its place i.
GlobMatch(pattern, path) ==
    LET n == Len(pattern)
        m == Len(path)
        fits[i \in 1..(n + 1)] ==
          {j \in 1..(m + 1) :
             IF i > n THEN j > m
             ELSE IF pattern[i] = "**" THEN i = n \/ \E k \in fits[i + 1] : k >= j
             ELSE j <= m /\ SegmentMatch(pattern[i], path[j]) /\ j + 1 \in fits[i + 1]}
    IN 1 \in fits[1]

\* The text of the path starts with that of the directory.
StartsWith(path, directory) ==
    LET n == Len(directory)
    IN /\ Len(path) >= n /\ SubSeq(path, 1, n - 1) = Front(directory)
       /\ path[n] \in {directory[n]} \cup Starting[directory[n]]

\* Of the gates: only these forms of patterns are understood, and dir/*, which none
\* of the shipped configurations uses.
GatedMatch(pattern, path) ==
    \/ path = pattern \/ pattern = <<"**">>
    \/ /\ Len(pattern) > 1 /\ Last(pattern) = "**"
       /\ StartsWith(path, Front(pattern)) /\ path # Front(pattern)
    \/ /\ Len(pattern) > 1 /\ pattern[1] = "**" /\ Last(pattern) # "**"
       /\ IF pattern[2] \in DOMAIN Wild THEN Last(path) \in Wild[pattern[2]]
                                        ELSE IsSuffix(Tail(pattern), path)
    \/ Len(pattern) = 1 /\ pattern[1] \in DOMAIN Wild /\ Len(path) = 1 /\ path[1] \in Wild[pattern[1]]

-----------------------------------------------------------------------------
(* What a phase may use *)

\* bash: the beginnings of allowed commands; none is Deny, the empty one AllowAll.
Scope(tools, writable, bash) == [allowed_tools |-> tools, writable_paths |-> writable, bash_policy |-> bash]

Deny == {}
AllowAll == {<<>>}
Web == {"WebSearch", "WebFetch"}
InFeatures == <<".gid", "features", "**">>
InDocs == <<"docs", "**">>
GraphFile == <<".gid", "graph.yml">>

Full == Scope({"Read", "Write", "Edit", "Bash"} \cup Web, {<<"**">>}, AllowAll)
Research == Scope({"Read", "Write", "Edit"} \cup Web, {InFeatures, <<"docs", "RESEARCH-*">>}, Deny)
Documentation == Scope({"Read", "Write", "Edit"}, {InFeatures, GraphFile, InDocs}, Deny)
Verify ==
    Scope({"Read", "Bash"}, {<<".gid", "**">>},
          {<<"cargo", "test">>, <<"cargo", "check">>, <<"cargo", "clippy">>,
           <<"npm", "test">>, <<"pytest">>, <<"go", "test">>})
GraphOps == Scope({"Read", "Write", "Bash"}, {<<".gid", "**">>}, {<<"gid">>})
Planning == Scope({"Read"}, {}, Deny)

CategoryScope == [Design |-> Documentation, Plan |-> Planning, Implement |-> Full, Verify |-> Verify]

\* default_scope_for_phase: reviews, and phases nobody knows, get everything.
PhaseScope(id) ==
    IF id = "capture-idea"
    THEN Scope({"Read", "Write"} \cup Web, {InFeatures, InDocs}, Deny)
    ELSE IF id = "research" THEN Research
    ELSE IF id \in {"draft-requirements", "draft-design", "update-design"} THEN CategoryScope["Design"]
    ELSE IF id \in {"generate-graph", "update-graph", "design-to-graph", "extract-code"} THEN GraphOps
    ELSE IF id = "plan-tasks" THEN CategoryScope["Plan"]
    ELSE IF id \in {"verify-quality", "verify"} THEN CategoryScope["Verify"]
    ELSE Full

is_path_writable(scope, path) == \E p \in scope.writable_paths : GlobMatch(p, path)
is_bash_allowed(scope, command) == \E p \in scope.bash_policy : IsPrefix(p, command)

\* filter_tools on the definitions of execute_skill; none of them is one of the
\* graph, memory and voice tools that every phase keeps.
Tools(scope) == ({"Read", "Write", "Edit", "Bash"} \cup Web) \cap scope.allowed_tools

-----------------------------------------------------------------------------
(* What needs a ritual *)

Ungated ==
    {<<"DESIGN.md">>, <<".gid", "**">>, InDocs, <<"memory", "**">>, <<"AGENTS.md">>,
     <<"TOOLS.md">>, <<"MEMORY.md">>, <<"*.md">>}

VerifyCommand(language) ==
    CASE language = "Rust" -> <<"cargo", "build", "&&", "cargo", "test">>
      [] language = "TypeScript" -> <<"npm", "run", "build", "&&", "npm", "test">>
      [] language = "Python" -> <<"python", "-m", "pytest">>
      [] language = "Go" -> <<"go", "build", "&&", "go", "test">>
      [] OTHER -> <<"echo">>

Gating(paths, commands) ==
    [enabled |-> TRUE, gated_paths |-> paths, ungated_paths |-> Ungated, gated_commands |-> commands]

\* Also what a configuration that is missing or cannot be read comes to.
NoGates == Gating({}, {})

ForLanguage(language) ==
    CASE language = "Rust" ->
           Gating({<<"src", "**">>, <<"tests", "**">>, <<"crates", "**">>, <<"Cargo.toml">>, <<"build.rs">>},
                  {<<"cargo", c>> : c \in {"build", "run", "test", "check"}} \cup {<<"rustc">>})
      [] language = "TypeScript" ->
           Gating({<<"src", "**">>, <<"lib", "**">>, <<"tests", "**">>, <<"package.json">>, <<"tsconfig.json">>},
                  {<<"npm", "run", "build">>, <<"npm", "run", "start">>, <<"tsc">>, <<"npx">>})
      [] language = "Python" ->
           Gating({<<"**", "*.py">>, <<"setup.py">>, <<"pyproject.toml">>}, {<<"python">>, <<"pip", "install">>})
      [] language = "Go" ->
           Gating({<<"**", "*.go">>, <<"go.mod">>, <<"go.sum">>}, {<<"go", c>> : c \in {"build", "run", "test"}})
      [] OTHER -> NoGates

PathGated(config, path) ==
    /\ \E p \in config.gated_paths : GatedMatch(p, path)
    /\ ~ \E p \in config.ungated_paths : GatedMatch(p, path)

\* check_gating, for a write to a path or for a shell command.
Blocked(config, kind, subject, ritual_active) ==
    /\ config.enabled /\ ~ ritual_active
    /\ \/ kind = "write" /\ PathGated(config, subject)
       \/ kind = "shell" /\ \E c \in config.gated_commands : IsPrefix(c, subject)

-----------------------------------------------------------------------------
(* The rituals *)

Phase(id, kind, what, approval, on_failure) ==
    [id |-> id, kind |-> kind, what |-> what, approval |-> approval, on_failure |-> on_failure,
     output |-> {}]
Producing(phase, path, required) == [phase EXCEPT !.output = {[path |-> path, required |-> required]}]

\* <feature> is for the name of the feature.
InFeature(document) == <<".gid", "features", "<feature>", document>>

FullDevCycle ==
    <<Phase("discover-existing", "shell", <<"echo">>, "auto", "skip"),
      Producing(Phase("capture-idea", "skill", <<"idea-intake">>, "optional", "escalate"),
                InFeature("idea.md"), FALSE),
      Producing(Phase("research", "skill", <<"research">>, "required", "escalate"),
                <<"docs", "RESEARCH-*.md">>, TRUE),
      Producing(Phase("draft-requirements", "skill", <<"requirements">>, "required", "escalate"),
                InFeature("requirements.md"), TRUE),
      Producing(Phase("draft-design", "skill", <<"design-doc">>, "required", "escalate"),
                InFeature("design.md"), TRUE),
      Producing(Phase("generate-graph", "skill", <<"design-to-graph">>, "required", "escalate"),
                GraphFile, TRUE),
      Phase("plan-tasks", "gid", <<"plan">>, "optional", "escalate"),
      Phase("execute-tasks", "harness", <<>>, "auto", "escalate"),
      Phase("extract-code", "gid", <<"extract">>, "auto", "skip"),
      Phase("verify-quality", "gid", <<"advise", "--strict">>, "auto", "escalate")>>

QuickImpl ==
    <<Producing(Phase("draft-design", "skill", <<"draft-design">>, "auto", "skip"), <<"DESIGN.md">>, FALSE),
      Producing(Phase("generate-graph", "skill", <<"design-to-graph">>, "optional", "escalate"),
                GraphFile, TRUE),
      Phase("execute-tasks", "harness", <<>>, "auto", "escalate"),
      Phase("verify", "gid", <<"advise">>, "auto", "escalate")>>

Bugfix ==
    <<Phase("analyze", "gid", <<"advise">>, "auto", "skip"),
      Phase("fix", "harness", <<>>, "auto", "escalate"),
      Phase("verify", "shell", <<"cargo", "test", "||", "npm", "test", "||", "pytest">>, "auto", "escalate")>>

Builtin == [full_dev_cycle |-> FullDevCycle, quick_impl |-> QuickImpl, bugfix |-> Bugfix]

\* Where `load` finds a template (0: built in), and where `list` says it comes from;
\* dirs[i][name] is "absent", "malformed" or "good".
LoadedFrom(name, dirs) ==
    LET there == {i \in DOMAIN dirs : dirs[i][name] # "absent"}
    IN IF name \in DOMAIN Builtin THEN {0} ELSE IF there = {} THEN {} ELSE {Min(there)}
ListedFrom(name, dirs) ==
    LET good == {i \in DOMAIN dirs : dirs[i][name] = "good"}
    IN IF name \in DOMAIN Builtin THEN {0} ELSE IF good = {} THEN {} ELSE {Min(good)}

Manifests ==
    <<[language |-> "Rust", files |-> {"Cargo.toml"}], [language |-> "TypeScript", files |-> {"package.json"}],
      [language |-> "Python", files |-> {"pyproject.toml", "setup.py"}], [language |-> "Go", files |-> {"go.mod"}]>>

\* ProjectState::detect, as far as a ritual is composed from it; files are names in
\* the project's directory, "graph.yml" one in .gid of more than ten bytes.
Detect(files) ==
    LET found == {i \in DOMAIN Manifests : Manifests[i].files \cap files # {}}
    IN [has_design |-> "DESIGN.md" \in files, has_graph |-> "graph.yml" \in files,
        has_source_code |-> {"src", "lib", "crates"} \cap files # {},
        language |-> IF found = {} THEN None ELSE Manifests[Min(found)].language]

ComposeRitual(files) ==
    LET project == Detect(files)
        skill(name) == Phase(name, "skill", <<name>>, "auto", "escalate")
    IN <<skill(IF project.has_design THEN "update-design" ELSE "draft-design"),
         skill(IF project.has_graph THEN "update-graph" ELSE "generate-graph"),
         IF project.has_source_code THEN skill("implement")
         ELSE Phase("execute-tasks", "harness", <<>>, "auto", "escalate"),
         Phase("verify", "shell", VerifyCommand(project.language), "auto", "escalate")>>

-----------------------------------------------------------------------------
(* The executors *)

RootDesign == <<"DESIGN.md">>

\* What the built-in prompt of a skill asks to be written.
PromptWrites ==
    [s \in {"design-to-graph", "update-graph", "draft-design", "quick-design", "update-design", "implement"} |->
       IF s \in {"design-to-graph", "update-graph"} THEN GraphFile
       ELSE IF s = "implement" THEN <<"src", "main">> ELSE RootDesign]

\* load_skill_prompt; own are the skills with a file of their own in the project.
Prompt(skill, own) ==
    IF skill \in own THEN "own"
    ELSE IF skill = "quick-design" /\ "draft-design" \in own THEN "own"
    ELSE IF skill \in DOMAIN PromptWrites THEN "built-in" ELSE "generic"

\* ArtifactManager::resolve_glob: the files a path with stars or <feature> names.
Resolved(path, files) ==
    LET pattern == [i \in DOMAIN path |-> IF path[i] = "<feature>" THEN "*" ELSE path[i]]
    IN {f \in files : GlobMatch(pattern, f)}

\* Mutant of OutputsExist: outputs are looked up the way inputs are.
OutputsResolve(phase, files) ==
    \A o \in phase.output : o.required => Resolved(o.path, files) # {}

\* The executors look for the path as it is written.
OutputsExist(phase, files) == \A o \in phase.output : o.required => o.path \in files

\* in: how the work went that the executors leave to others.  The files there are, if the
\* LLM's session came to its end, and if a shell command succeeded; of the graph, if it
\* can be read, is kept in graph.yml, can be planned, has work left and can be saved; and
\* if execution.yml can be read, and how the execution of the plan ended.
ExecuteSkill(phase, in) == in.session /\ OutputsExist(phase, in.files)

\* Arguments are not looked at, and advice of any severity is a success.
ExecuteInProcess(command, in) ==
    \/ command = "extract" /\ in.saved
    \/ command \in {"advise", "validate"} /\ in.readable
    \/ command = "plan" /\ in.readable /\ in.planned
ExecuteCommand(phase, in) == ExecuteInProcess(phase.what[1], in) /\ OutputsExist(phase, in.files)

\* An execution ends with an error, with tasks that failed, with tasks that are left (a
\* stop cancelled them, or they never started) though none failed, or with all of them done.
Ends == {"error", "failed", "left", "done"}

\* Only graph.yml is read; without it there is no work.  What is left does not count.
ExecuteHarness(phase, in) ==
    /\ in.configured
    /\ in.in_yaml => /\ in.readable /\ in.planned
                     /\ in.work => in.saved /\ in.ends \notin {"error", "failed"}

ExecuteShell(phase, in) ==
    /\ is_bash_allowed(PhaseScope(phase.id), phase.what)
    /\ in.succeeds /\ OutputsExist(phase, in.files)

ExecutePhase(phase, in) ==
    CASE phase.kind = "skill" -> ExecuteSkill(phase, in)
      [] phase.kind = "gid" -> ExecuteCommand(phase, in)
      [] phase.kind = "harness" -> ExecuteHarness(phase, in)
      [] phase.kind = "shell" -> ExecuteShell(phase, in)

-----------------------------------------------------------------------------
(* What fits together, and what does not *)

PhasesOf(ritual) == {ritual[i] : i \in DOMAIN ritual}
Shipped == UNION {PhasesOf(Builtin[name]) : name \in DOMAIN Builtin}
Composed(projects) == UNION {PhasesOf(ComposeRitual(files)) : files \in SUBSET projects}

\* All went well, and every file that a phase was to write is there.
AllDone(phases) ==
    LET written(path) ==
          [i \in DOMAIN path |->
             IF path[i] = "<feature>" THEN "auth"
             ELSE IF path[i] \in DOMAIN Wild THEN CHOOSE s \in Wild[path[i]] : TRUE ELSE path[i]]
        outputs == UNION {phase.output : phase \in phases}
    IN [files |-> {written(o.path) : o \in outputs}, session |-> TRUE, succeeds |-> TRUE, readable |-> TRUE,
        in_yaml |-> TRUE, planned |-> TRUE, work |-> TRUE, saved |-> TRUE, configured |-> TRUE,
        ends |-> "done"]

\* Phases that fail all the same: of the shipped rituals those whose output is a pattern
\* or a template, though its files can be resolved, and of every composed ritual the
\* last one, whose command is not one of those a phase of that name may run.
NeverPasses(phases) == {phase \in phases : ~ ExecutePhase(phase, AllDone(phases))}
PhasesCanPass(projects) ==
    /\ {phase.id : phase \in NeverPasses(Shipped)} = {"research", "draft-requirements", "draft-design"}
    /\ NeverPasses(PhasesOf(QuickImpl) \cup PhasesOf(Bugfix)) = {}
    /\ \A phase \in NeverPasses(Shipped) : \A o \in phase.output :
         Resolved(o.path, AllDone(Shipped).files) # {}
    /\ {phase.id : phase \in NeverPasses(Composed(projects))} = {"verify"}
    /\ \A phase \in Composed(projects) : phase.id = "verify" => phase \in NeverPasses({phase})

\* A skill that a built-in prompt sends to a file has the tool to write it, and may write
\* it, but for DESIGN.md in the project's root.
PromptsFitScopes(projects) ==
    \A phase \in Shipped \cup Composed(projects) :
      LET scope == PhaseScope(phase.id)
          path == PromptWrites[phase.what[1]]
      IN phase.kind = "skill" /\ Prompt(phase.what[1], {}) = "built-in" =>
           "Write" \in Tools(scope) /\ (is_path_writable(scope, path) \/ path = RootDesign)

\* What is gated outside of a ritual is for the phases of implementation and review only;
\* and whatever verifies a project is gated.
GatesFitScopes(paths) ==
    \A language \in {"Rust", "TypeScript", "Python", "Go"} :
      /\ \A path \in paths : \A phase \in Shipped :
           PathGated(ForLanguage(language), path) /\ is_path_writable(PhaseScope(phase.id), path)
             => PhaseScope(phase.id) = Full
      /\ Blocked(ForLanguage(language), "shell", VerifyCommand(language), FALSE)
      /\ \A path \in paths : ~ Blocked(ForLanguage(language), "write", path, TRUE)

\* The two matchers differ on a directory itself and on others whose name it begins.
MatchersAgree(paths) ==
    LET patterns == Ungated \cup UNION {ForLanguage(l).gated_paths : l \in {"Rust", "TypeScript", "Python", "Go"}}
    IN \A pattern \in patterns, path \in paths :
         GlobMatch(pattern, path) # GatedMatch(pattern, path) =>
           /\ Last(pattern) = "**"
           /\ path = Front(pattern) \/ ~ IsPrefix(Front(pattern), path)

\* A template that is listed is the one that is loaded, unless a file of its name that
\* cannot be read comes before it.
ListedIsLoaded(names) ==
    \A dirs \in [1..2 -> [names -> {"absent", "malformed", "good"}]] : \A name \in names :
      LET listed == ListedFrom(name, dirs)
      IN listed # {} /\ listed # LoadedFrom(name, dirs) =>
           \E i \in LoadedFrom(name, dirs) : dirs[i][name] = "malformed"

Unpassable == NeverPasses(Shipped)

\* No phase of the ritual stops it, but for those that always fail, which somebody has
\* to skip.
GetsThrough(ritual, in) ==
    \A phase \in PhasesOf(ritual) \ Unpassable : ExecutePhase(phase, in) \/ phase.on_failure = "skip"

\* A shipped ritual that nothing stops hides no failure: the graph could be planned, and if
\* it has work then no task failed and the graph was saved.  Tasks may be left; and the
\* bugfix ritual, which asks nobody for graph.yml, gets through without it and does nothing.
FailuresShow(planned, work) ==
    \A name \in DOMAIN Builtin, in_yaml, saved \in BOOLEAN, ends \in Ends :
      LET in == [AllDone(Shipped) EXCEPT
                   !.files = IF in_yaml THEN @ ELSE @ \ {GraphFile}, !.in_yaml = in_yaml,
                   !.planned = planned, !.work = work, !.saved = saved, !.ends = ends]
      IN GetsThrough(Builtin[name], in) =>
           /\ in_yaml \/ name = "bugfix"
           /\ in_yaml => planned /\ (work => saved /\ ends \in {"left", "done"})
=============================================================================
