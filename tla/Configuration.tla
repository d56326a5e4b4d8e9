---------------------------- MODULE Configuration ----------------------------
(***************************************************************************)
(* The configuration files of a project (src/core/config.ts) and the       *)
(* commands that read and write them: ax config, ax init, and all those    *)
(* that start with loadConfig, here "run".  Each command is a process of   *)
(* its own.  A file is written in place: it is truncated when it is opened *)
(* and gets its content in a later step.                                   *)
(*                                                                         *)
(* Two sections stand for all: memory, which must be there, and execution, *)
(* which null disables, with two settings that must fit each other.        *)
(***************************************************************************)
EXTENDS Integers, Sequences, FiniteSets

CONSTANTS
    Procs,
    LoadOrder,      \* the files loadConfig looks for
    CommandOrder,   \* those ax config looks for
    Yaml,           \* those that are YAML, the others are JSON
    ProjectConfig,  \* the file ax init writes
    Values,         \* values of settings
    Contents,       \* what a user may have written into a file
    MaxCommands,    \* bound: commands started
    Absent, Torn, Garbled,  \* of a file: not there; truncated; what is left of two that wrote at once
    Null, Undefined,        \* of a section
    Failed, Nobody          \* no configuration; no process

Files == {LoadOrder[k] : k \in DOMAIN LoadOrder}

DEFAULT_CONFIG == [memory |-> [maxEntries |-> 2], execution |-> [initialDelay |-> 1, maxDelay |-> 2]]
Sections == DOMAIN DEFAULT_CONFIG

\* What a file may say: of some sections nothing, of the others some settings, or null.
Keys == {"maxEntries", "initialDelay", "maxDelay"}
Numbers == Values \union {1, 2}
Settings == UNION {[K -> Numbers] : K \in SUBSET Keys}
Texts == UNION {[S -> Settings \union {Null}] : S \in SUBSET Sections}

ASSUME ConfigurationAssumption ==
    /\ {CommandOrder[k] : k \in DOMAIN CommandOrder} \subseteq Files
    /\ Yaml \subseteq Files /\ ProjectConfig \in Files /\ Nobody \notin Files
    /\ Contents \subseteq Texts /\ Values \subseteq Int
    /\ \A m \in {Absent, Torn, Garbled} : m \notin Texts
    /\ Absent # Torn /\ Absent # Garbled /\ Torn # Garbled
    /\ Null \notin Settings /\ Undefined \notin Settings /\ Null # Undefined
    /\ Failed \notin [Sections -> Settings \union {Undefined}]

VARIABLES
    file,       \* file[f]: Absent, Torn, Garbled or what it says, section by section
    dirs,       \* .automatosx: "absent", "made" or "installed"
    proc,       \* proc[p]: the command
    commands,   \* how many have been started
    confirmed,  \* history: the settings users have given and commands have confirmed, file by file
    contested,  \* history: the files that commands have written from what was no longer, or not yet, in them
    interrupted,\* history: since an init last began alone, one was cut off, met another, or failed and left something
    users,      \* history: the files users have written
    runs        \* history: the last configuration a run has worked with

vars == <<file, dirs, proc, commands, confirmed, contested, interrupted, users, runs>>

Idle == [op |-> "none", at |-> "idle", path |-> Nobody, target |-> Nobody, new |-> Nobody, stale |-> FALSE,
         force |-> FALSE, created |-> {}]

-----------------------------------------------------------------------------
(* Defaults, merging, validation *)

\* What the user says of a section replaces the default setting by setting; null makes the section undefined.
deepMerge(user) ==
    [s \in Sections |->
        IF s \notin DOMAIN user THEN DEFAULT_CONFIG[s]
        ELSE IF user[s] = Null THEN Undefined
        ELSE [k \in DOMAIN DEFAULT_CONFIG[s] |-> IF k \in DOMAIN user[s] THEN user[s][k] ELSE DEFAULT_CONFIG[s][k]]]

Given(section) == section \notin {Null, Undefined}
Least(k) == IF k = "initialDelay" THEN 0 ELSE 1
InRange(section) == \A k \in DOMAIN section : section[k] >= Least(k)

\* Settings that belong together: a retry waits no less than its first delay.
Consistent(execution) == execution.maxDelay >= execution.initialDelay

\* Null disables execution, but not memory: what lies beneath it is looked at without asking whether it is there.
memoryValid(memory) == Given(memory) /\ InRange(memory)
executionValid(execution) == Given(execution) => InRange(execution) /\ Consistent(execution)

\* validateConfig of config.ts, of what may be loaded and saved ...
validateConfig(config) == memoryValid(config.memory) /\ executionValid(config.execution)

\* ... and that of config-validator.ts, for the command, with other limits.
validateForCommand(config) == Given(config.memory) /\ config.memory.maxEntries >= 2

\* Mutant: a file that cannot be read counts as none.
loadConfigFileOrDefault(f) ==
    IF file[f] \in {Absent, Garbled, Torn} THEN DEFAULT_CONFIG
    ELSE IF validateConfig(deepMerge(file[f])) THEN deepMerge(file[f]) ELSE Failed

\* A file that is empty is nothing to merge for YAML, and an error for JSON.
loadConfigFile(f) ==
    IF file[f] \in {Absent, Garbled} \/ (file[f] = Torn /\ f \notin Yaml) THEN Failed
    ELSE LET config == IF file[f] = Torn THEN DEFAULT_CONFIG ELSE deepMerge(file[f])
         IN IF validateConfig(config) THEN config ELSE Failed

\* A section that is undefined leaves no trace in the file.
Written(config) == [s \in {s \in Sections : config[s] # Undefined} |-> config[s]]

\* A setting of a section that is there, or a section that is disabled.
Targets == [section : Sections, key : Keys, value : Values]
           \union [section : Sections, key : {"none"}, value : {Null}]
Known(t) == t.key = "none" \/ t.key \in DOMAIN DEFAULT_CONFIG[t.section]
setNestedValue(config, t) ==
    IF t.key = "none" THEN [config EXCEPT ![t.section] = Null] ELSE [config EXCEPT ![t.section][t.key] = t.value]

-----------------------------------------------------------------------------
(* The processes *)

At(p, op, at) == proc[p].op = op /\ proc[p].at = at
Continue(p, at) == proc' = [proc EXCEPT ![p].at = at]
\* Whoever has read the file f, or is writing it, has been overtaken when p changes it.
Others(p, f) == [q \in Procs |-> IF q # p /\ proc[q].path = f /\ proc[q].at # "load" THEN [proc[q] EXCEPT !.stale = TRUE] ELSE proc[q]]

Start(p, command) ==
    /\ proc[p].at = "idle" /\ commands < MaxCommands
    /\ commands' = commands + 1
    /\ proc' = [proc EXCEPT ![p] = command]
    /\ UNCHANGED <<file, dirs, confirmed, contested, users>>

\* Of the files looked for, one after the other, the first that is there, if any.
FirstThere(order) == {order[k] : k \in {k \in DOMAIN order : /\ file[order[k]] # Absent
                                                             /\ \A j \in 1..(k - 1) : file[order[j]] = Absent}}

\* ax config takes the file it is told, or the first of its own list that is there.
configPath == {f \in Files : file[f] # Absent} \union FirstThere(CommandOrder)

setConfig(p, f, t) ==
    /\ f \in configPath /\ Known(t)
    /\ Start(p, [Idle EXCEPT !.op = "set", !.at = "load", !.path = f, !.target = t])
    /\ UNCHANGED <<interrupted, runs>>
resetConfig(p, f) ==
    /\ f \in configPath
    /\ Start(p, [Idle EXCEPT !.op = "reset", !.at = "load", !.path = f])
    /\ UNCHANGED <<interrupted, runs>>

\* loadConfig takes the first file of its list that is there, and the defaults if none is.
loadConfig(p) ==
    \/ /\ FirstThere(LoadOrder) = {}
       /\ Start(p, Idle)
       /\ runs' = [path |-> Nobody, config |-> DEFAULT_CONFIG, torn |-> FALSE]
       /\ UNCHANGED interrupted
    \/ \E f \in FirstThere(LoadOrder) :
       /\ Start(p, [Idle EXCEPT !.op = "run", !.at = "load", !.path = f])
       /\ UNCHANGED <<interrupted, runs>>

RunLoads(p) ==
    /\ At(p, "run", "load")
    /\ runs' = [path |-> proc[p].path, config |-> loadConfigFile(proc[p].path), torn |-> file[proc[p].path] = Torn]
    /\ proc' = [proc EXCEPT ![p] = Idle]
    /\ UNCHANGED <<file, dirs, commands, confirmed, contested, interrupted, users>>

\* Mutant: what is saved has been checked by the command alone.
LoadUnchecked(p) ==
    LET config == loadConfigFile(proc[p].path)
        t == proc[p].target
        found == proc[p].op = "reset" \/ t.key = "none" \/ Given(config[t.section])
        new == IF proc[p].op = "reset" THEN DEFAULT_CONFIG ELSE setNestedValue(config, t)
    IN /\ At(p, "set", "load") \/ At(p, "reset", "load")
       /\ IF config # Failed /\ found /\ (proc[p].op = "set" => validateForCommand(new))
          THEN proc' = [proc EXCEPT ![p].at = "open", ![p].new = Written(new), ![p].stale = (file[proc[p].path] = Torn)]
          ELSE proc' = [proc EXCEPT ![p] = Idle]
       /\ UNCHANGED <<file, dirs, commands, confirmed, contested, interrupted, users, runs>>

\* Also reset reads the file first: it gives up on one that it cannot load.
Load(p) ==
    LET config == loadConfigFile(proc[p].path)
        t == proc[p].target
        found == proc[p].op = "reset" \/ t.key = "none" \/ Given(config[t.section])
        new == IF proc[p].op = "reset" THEN DEFAULT_CONFIG ELSE setNestedValue(config, t)
    IN /\ At(p, "set", "load") \/ At(p, "reset", "load")
       /\ IF config # Failed /\ found /\ (proc[p].op = "set" => validateForCommand(new)) /\ validateConfig(new)
          THEN proc' = [proc EXCEPT ![p].at = "open", ![p].new = Written(new), ![p].stale = (file[proc[p].path] = Torn)]
          ELSE proc' = [proc EXCEPT ![p] = Idle]
       /\ UNCHANGED <<file, dirs, commands, confirmed, contested, interrupted, users, runs>>

\* Mutant: a failure before the configuration is written is not rolled back.
FailsLeaving(p) ==
    IF proc[p].force \/ "config" \notin proc[p].created THEN [proc EXCEPT ![p] = Idle] ELSE [proc EXCEPT ![p].at = "rollback"]

\* An init that fails after its directories were made rolls back, unless it is forced.
Fails(p) == IF proc[p].force THEN [proc EXCEPT ![p] = Idle] ELSE [proc EXCEPT ![p].at = "rollback"]

\* saveConfigFile, and writeFile in createDefaultConfig: the file is opened, which empties it ...
Open(p) ==
    LET f == proc[p].path
    IN /\ proc[p].at = "open"
       /\ file' = [file EXCEPT ![f] = Torn]
       /\ proc' = [Others(p, f) EXCEPT ![p].at = "write",
                       ![p].stale = proc[p].stale \/ (file[f] = Torn /\ proc[p].op = "set")]
       /\ UNCHANGED <<dirs, commands, confirmed, contested, interrupted, users, runs>>

\* ... and written.  What another has written since may be longer, and sticks out.
Done(p) == IF proc[p].op = "init" THEN [proc[p] EXCEPT !.at = "claude", !.created = @ \union {"config"}] ELSE Idle

Write(p, garbled) ==
    LET f == proc[p].path
        op == proc[p].op
    IN /\ proc[p].at = "write"
       /\ garbled => file[f] # Torn
       /\ file' = [file EXCEPT ![f] = IF garbled THEN Garbled ELSE proc[p].new]
       /\ proc' = [Others(p, f) EXCEPT ![p] = Done(p)]
       /\ contested' = IF garbled \/ proc[p].stale THEN contested \union {f}
                       ELSE IF op = "set" THEN contested ELSE contested \ {f}
       /\ confirmed' = [confirmed EXCEPT ![f] =
                           IF op # "set" THEN DEFAULT_CONFIG
                           ELSE IF proc[p].target.key = "none" THEN [@ EXCEPT ![proc[p].target.section] = Undefined]
                           ELSE IF Given(@[proc[p].target.section]) THEN setNestedValue(@, proc[p].target) ELSE @]
       /\ users' = IF op = "init" THEN users \ {f} ELSE users
       /\ UNCHANGED <<dirs, commands, interrupted, runs>>

\* What is written to a file that was removed since it was opened is lost with it.
WriteLost(p) ==
    /\ proc[p].at = "lost"
    /\ proc' = [proc EXCEPT ![p] = Done(p)]
    /\ contested' = contested \union {proc[p].path}
    /\ UNCHANGED <<file, dirs, commands, confirmed, interrupted, users, runs>>

\* A file that cannot be opened stays as it was, one that cannot be written stays empty.  It ends the command;
\* an init, which counts the file as created only when it is complete, goes to its handler of errors.
SaveFails(p) ==
    /\ proc[p].at \in {"open", "write", "lost"}
    /\ proc' = IF proc[p].op = "init" THEN Fails(p) ELSE [proc EXCEPT ![p] = Idle]
    /\ contested' = IF proc[p].at = "open" THEN contested ELSE contested \union {proc[p].path}
    /\ interrupted' = (interrupted \/ (proc[p].op = "init" /\ proc[p].force))
    /\ UNCHANGED <<file, dirs, commands, confirmed, users, runs>>

\* A process dies: what it has opened stays empty, what it has created stays.
Crash(p) ==
    /\ proc[p].at # "idle"
    /\ proc' = [proc EXCEPT ![p] = Idle]
    /\ contested' = IF proc[p].at \in {"write", "lost"} THEN contested \union {proc[p].path} ELSE contested
    /\ interrupted' = (interrupted \/ proc[p].op = "init")
    /\ UNCHANGED <<file, dirs, commands, confirmed, users, runs>>

-----------------------------------------------------------------------------
(* ax init *)

Initializing == {p \in Procs : proc[p].op = "init"}

\* An init is refused where .automatosx is there, unless it is forced.
initCommand(p, force) ==
    /\ dirs = "absent" \/ force
    /\ Start(p, [Idle EXCEPT !.op = "init", !.at = "dirs", !.force = force])
    /\ interrupted' = (Initializing # {})
    /\ UNCHANGED runs

\* What was made before .automatosx was complete is not recorded, and stays.
createDirectoryStructure(p, ok) ==
    /\ At(p, "init", "dirs")
    /\ dirs' = IF dirs = "absent" THEN "made" ELSE dirs
    /\ proc' = [proc EXCEPT ![p] = IF ok THEN [@ EXCEPT !.at = "install", !.created = {"dirs"}] ELSE Idle]
    /\ interrupted' = (interrupted \/ ~ok)
    /\ UNCHANGED <<file, commands, confirmed, contested, users, runs>>

\* Teams, agents, abilities and templates.
copyExamples(p, ok) ==
    /\ At(p, "init", "install")
    /\ IF ok /\ dirs # "absent" THEN dirs' = "installed" /\ Continue(p, "config") ELSE dirs' = dirs /\ proc' = Fails(p)
    /\ interrupted' = (interrupted \/ (~ok /\ proc[p].force))
    /\ UNCHANGED <<file, commands, confirmed, contested, users, runs>>

\* A configuration file that is there is kept, unless the init is forced, but counts as created all the same.
createDefaultConfig(p) ==
    /\ At(p, "init", "config")
    /\ IF file[ProjectConfig] # Absent /\ ~proc[p].force
       THEN proc' = [proc EXCEPT ![p].at = "claude", ![p].created = @ \union {"config"}]
       ELSE proc' = [proc EXCEPT ![p].at = "open", ![p].path = ProjectConfig, ![p].new = DEFAULT_CONFIG]
    /\ UNCHANGED <<file, dirs, commands, confirmed, contested, interrupted, users, runs>>

\* The files for Claude Code; after them nothing fails: git and .gitignore only warn.
setupClaudeIntegration(p, ok) ==
    /\ At(p, "init", "claude")
    /\ proc' = IF ok THEN [proc EXCEPT ![p] = Idle] ELSE Fails(p)
    /\ interrupted' = (interrupted \/ (~ok /\ proc[p].force))
    /\ UNCHANGED <<file, dirs, commands, confirmed, contested, users, runs>>

\* What has been created is removed, the last first.  What cannot be removed stays, whole or in part, and is only
\* logged; what is being written to a file that is removed goes with it.
RollbackConfig(p, ok) ==
    /\ At(p, "init", "rollback") /\ "config" \in proc[p].created
    /\ IF ok
       THEN /\ file' = [file EXCEPT ![ProjectConfig] = Absent]
            /\ proc' = [q \in Procs |-> IF q = p THEN [proc[p] EXCEPT !.created = @ \ {"config"}]
                                       ELSE IF proc[q].at = "write" /\ proc[q].path = ProjectConfig
                                       THEN [proc[q] EXCEPT !.at = "lost"]
                                       ELSE Others(p, ProjectConfig)[q]]
       ELSE /\ proc' = [proc EXCEPT ![p].created = @ \ {"config"}]
            /\ UNCHANGED file
    /\ UNCHANGED <<dirs, commands, confirmed, contested, interrupted, users, runs>>
RollbackDirs(p, left) ==
    /\ At(p, "init", "rollback") /\ proc[p].created = {"dirs"}
    /\ left \in {"absent", dirs} \/ (dirs = "installed" /\ left = "made")
    /\ dirs' = left
    /\ proc' = [proc EXCEPT ![p] = Idle]
    /\ interrupted' = (interrupted \/ left # "absent")
    /\ UNCHANGED <<file, commands, confirmed, contested, users, runs>>

-----------------------------------------------------------------------------
Init ==
    /\ file \in [Files -> Contents \union {Absent}]
    /\ \A f \in Files : file[f] # Absent => validateConfig(deepMerge(file[f]))
    /\ dirs = "absent"
    /\ proc = [p \in Procs |-> Idle]
    /\ commands = 0
    /\ confirmed = [f \in Files |-> IF file[f] = Absent THEN DEFAULT_CONFIG ELSE deepMerge(file[f])]
    /\ contested = {} /\ interrupted = FALSE
    /\ users = {f \in Files : file[f] # Absent}
    /\ runs = [path |-> Nobody, config |-> DEFAULT_CONFIG, torn |-> FALSE]

Step(p) ==
    \/ \E f \in Files, t \in Targets : setConfig(p, f, t)
    \/ \E f \in Files : resetConfig(p, f)
    \/ loadConfig(p)
    \/ RunLoads(p)
    \/ Load(p)
    \/ Open(p)
    \/ \E garbled \in BOOLEAN : Write(p, garbled)
    \/ WriteLost(p)
    \/ SaveFails(p)
    \/ Crash(p)
    \/ \E force \in BOOLEAN : initCommand(p, force)
    \/ \E ok \in BOOLEAN : createDirectoryStructure(p, ok) \/ copyExamples(p, ok) \/ setupClaudeIntegration(p, ok)
    \/ createDefaultConfig(p)
    \/ \E ok \in BOOLEAN : RollbackConfig(p, ok)
    \/ \E left \in {"absent", "made", "installed"} : RollbackDirs(p, left)

Next == \E p \in Procs : Step(p)
Spec == Init /\ [][Next]_vars

-----------------------------------------------------------------------------
(* Properties *)

\* What the user or the commands have put into a file is what it says when it is loaded, whatever else has been
\* set, reset or refused since: but for a file that a command wrote from an old or an empty version of it,
\* and for a section that was disabled, which the next command to write the file enables again.
SettingsKept == \A f \in Files \ contested : file[f] \notin {Absent, Torn} =>
    \A s \in Sections : Given(confirmed[f][s]) =>
        /\ loadConfigFile(f) # Failed
        /\ loadConfigFile(f)[s] = confirmed[f][s]

\* ax init leaves a project that is whole, or none, and makes one whole that earlier ones have left half made: once
\* .automatosx is there and no init is at work, it is complete and there is a configuration file.  But not if, since
\* an init last began alone, one has died or met another, has failed when it was forced (which rolls nothing back) or
\* while it made the directories (of which nothing is recorded then), or could not remove them.
InitializedWhole == (~interrupted /\ Initializing = {} /\ dirs # "absent") =>
    dirs = "installed" /\ file[ProjectConfig] # Absent

\* A run works with the settings of a file that is there, or fails: never with the defaults instead of them, unless
\* the file was being written just then, and is YAML, or has been contested.
RunsAsConfigured == [][runs'.path # Nobody /\ runs' # runs =>
    \/ runs'.config = Failed
    \/ runs'.torn /\ runs'.path \in Yaml
    \/ runs'.path \in contested
    \/ \A s \in Sections : Given(confirmed[runs'.path][s]) => runs'.config[s] = confirmed[runs'.path][s]]_vars

\* "Track created resources for rollback": an init that fails removes what it has created, not what users have.
UserConfigSpared == \A f \in users : file[f] # Absent
=============================================================================
