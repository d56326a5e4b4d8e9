-------------------------- MODULE ConfigurationProofs --------------------------
(***************************************************************************)
(* Proofs about Configuration, for any files, search orders, processes,    *)
(* contents and values.  The inductive invariant says of every file nobody *)
(* has contested that it agrees with what was confirmed for it, and of     *)
(* every command at work on such a file that what it is about to write     *)
(* agrees with what it will confirm.                                       *)
(***************************************************************************)
EXTENDS Configuration, TLAPS

KeysOf(s) == DOMAIN DEFAULT_CONFIG[s]

\* What deepMerge returns: every section complete, or undefined.
Configs == {c \in [Sections -> Settings \union {Undefined}] :
               \A s \in Sections : c[s] = Undefined \/ c[s] \in [KeysOf(s) -> Numbers]}

Commands == [op : {"none", "set", "reset", "run", "init"},
             at : {"idle", "load", "open", "write", "lost", "dirs", "install", "config", "claude", "rollback"},
             path : Files \union {Nobody}, target : Targets \union {Nobody}, new : Texts \union {Nobody},
             stale : BOOLEAN, force : BOOLEAN, created : SUBSET {"dirs", "config"}]

Types ==
    /\ file \in [Files -> Texts \union {Absent, Torn, Garbled}]
    /\ dirs \in {"absent", "made", "installed"}
    /\ proc \in [Procs -> Commands]
    /\ confirmed \in [Files -> Configs]

Writing(c) == c.at \in {"open", "write"}

\* A command knows its file, its setting, and what it writes.
WellFormed(c) ==
    /\ c.at \in {"load", "open", "write", "lost"} => c.path \in Files /\ c.op \in {"set", "reset", "run", "init"}
    /\ Writing(c) => c.op \in {"set", "reset", "init"}
    /\ c.op = "set" => c.target \in Targets /\ Known(c.target)
    /\ Writing(c) => c.new \in Texts /\ validateConfig(deepMerge(c.new))
    /\ Writing(c) /\ c.op # "set" => deepMerge(c.new) = DEFAULT_CONFIG
    /\ c.op = "init" /\ Writing(c) => c.path = ProjectConfig

\* A text says what is confirmed.
Agrees(text, config) == \A s \in Sections : Given(config[s]) => deepMerge(text)[s] = config[s]

\* What a setting makes of what was confirmed before.
Confirms(t, config) ==
    IF t.key = "none" THEN [config EXCEPT ![t.section] = Undefined]
    ELSE IF Given(config[t.section]) THEN setNestedValue(config, t) ELSE config

FilesAgree ==
    \A f \in Files \ contested : file[f] \notin {Absent, Torn} =>
        file[f] \in Texts /\ validateConfig(deepMerge(file[f])) /\ Agrees(file[f], confirmed[f])

WriterAgrees(p) ==
    Writing(proc[p]) /\ proc[p].op = "set" /\ ~proc[p].stale /\ proc[p].path \notin contested =>
        Agrees(proc[p].new, Confirms(proc[p].target, confirmed[proc[p].path]))

AgreeInv == Types /\ FilesAgree /\ \A p \in Procs : WellFormed(proc[p]) /\ WriterAgrees(p)

AtWork(p) == proc[p].op = "init"

There == file[ProjectConfig] # Absent

\* One init at most is at work, and only it may leave .automatosx incomplete.
WholeInv ==
    ~interrupted =>
        /\ \A p, q \in Procs : AtWork(p) /\ AtWork(q) => p = q
        /\ (\A p \in Procs : ~AtWork(p)) => dirs = "absent" \/ (dirs = "installed" /\ There)
        /\ \A p \in Procs : AtWork(p) =>
              /\ proc[p].at \in {"config", "open", "write", "claude"} => dirs = "installed"
              /\ proc[p].at = "claude" => There
              /\ proc[p].at \notin {"idle", "lost"}

-----------------------------------------------------------------------------
\* Defaults, merging, validation.

LEMMA Defaults ==
    /\ Sections = {"memory", "execution"}
    /\ KeysOf("memory") = {"maxEntries"} /\ KeysOf("execution") = {"initialDelay", "maxDelay"}
    /\ DEFAULT_CONFIG["memory"]["maxEntries"] = 2
    /\ DEFAULT_CONFIG["execution"]["initialDelay"] = 1 /\ DEFAULT_CONFIG["execution"]["maxDelay"] = 2
    /\ DEFAULT_CONFIG = [s \in Sections |-> DEFAULT_CONFIG[s]]
    /\ \A s \in Sections : DEFAULT_CONFIG[s] = [k \in KeysOf(s) |-> DEFAULT_CONFIG[s][k]]
BY DEF Sections, KeysOf, DEFAULT_CONFIG

LEMMA DefaultSections ==
    ASSUME NEW s \in Sections
    PROVE  /\ KeysOf(s) \in SUBSET Keys /\ DEFAULT_CONFIG[s] \in [KeysOf(s) -> Numbers]
           /\ DEFAULT_CONFIG[s] \in Settings /\ Given(DEFAULT_CONFIG[s])
<1>1. KeysOf(s) \in SUBSET Keys
  BY Defaults DEF Keys
<1>2. \A k \in KeysOf(s) : DEFAULT_CONFIG[s][k] \in Numbers
  BY Defaults DEF Numbers
<1>3. DEFAULT_CONFIG[s] \in [KeysOf(s) -> Numbers]
  BY <1>2, Defaults
<1>4. DEFAULT_CONFIG[s] \in Settings
  BY <1>1, <1>3 DEF Settings
<1> QED BY <1>1, <1>3, <1>4, ConfigurationAssumption DEF Given

LEMMA CompleteGiven ==
    ASSUME NEW s \in Sections, NEW x \in [KeysOf(s) -> Numbers]
    PROVE  x \in Settings /\ Given(x) /\ x # Null /\ x # Undefined
BY DefaultSections, ConfigurationAssumption DEF Settings, Given

LEMMA DefaultConfig == DEFAULT_CONFIG \in Configs /\ validateConfig(DEFAULT_CONFIG)
<1>1. DEFAULT_CONFIG \in Configs
  BY Defaults, DefaultSections DEF Configs
<1>2. Given(DEFAULT_CONFIG.memory) /\ Given(DEFAULT_CONFIG.execution)
  BY Defaults, DefaultSections
<1>3. InRange(DEFAULT_CONFIG.memory) /\ InRange(DEFAULT_CONFIG.execution) /\ Consistent(DEFAULT_CONFIG.execution)
  BY DEF DEFAULT_CONFIG, InRange, Least, Consistent
<1> QED BY <1>1, <1>2, <1>3 DEF validateConfig, memoryValid, executionValid

\* deepMerge section by section.
LEMMA Merge ==
    ASSUME NEW user \in Texts, NEW s \in Sections
    PROVE  /\ s \notin DOMAIN user => deepMerge(user)[s] = DEFAULT_CONFIG[s]
           /\ s \in DOMAIN user /\ user[s] = Null => deepMerge(user)[s] = Undefined
           /\ s \in DOMAIN user /\ user[s] # Null =>
                 /\ deepMerge(user)[s] = [k \in KeysOf(s) |-> IF k \in DOMAIN user[s] THEN user[s][k]
                                                                ELSE DEFAULT_CONFIG[s][k]]
                 /\ deepMerge(user)[s] \in [KeysOf(s) -> Numbers]
<1>1. deepMerge(user)[s] = IF s \notin DOMAIN user THEN DEFAULT_CONFIG[s]
                           ELSE IF user[s] = Null THEN Undefined
                           ELSE [k \in KeysOf(s) |-> IF k \in DOMAIN user[s] THEN user[s][k] ELSE DEFAULT_CONFIG[s][k]]
  BY DEF deepMerge, KeysOf
<1>2. ASSUME s \in DOMAIN user, user[s] # Null
      PROVE  [k \in KeysOf(s) |-> IF k \in DOMAIN user[s] THEN user[s][k] ELSE DEFAULT_CONFIG[s][k]]
               \in [KeysOf(s) -> Numbers]
  <2>1. user[s] \in Settings
    BY <1>2 DEF Texts
  <2>2. \A k \in DOMAIN user[s] : user[s][k] \in Numbers
    BY <2>1 DEF Settings
  <2>3. \A k \in KeysOf(s) : DEFAULT_CONFIG[s][k] \in Numbers
    BY DefaultSections
  <2> QED BY <2>2, <2>3
<1> QED BY <1>1, <1>2

LEMMA MergeType ==
    ASSUME NEW user \in Texts
    PROVE  deepMerge(user) \in Configs
<1>1. \A s \in Sections : deepMerge(user)[s] = Undefined \/ deepMerge(user)[s] \in [KeysOf(s) -> Numbers]
  BY Merge, DefaultSections
<1>2. \A s \in Sections : deepMerge(user)[s] \in Settings \union {Undefined}
  BY <1>1, CompleteGiven
<1>3. deepMerge(user) = [s \in Sections |-> deepMerge(user)[s]]
  BY DEF deepMerge
<1> QED BY <1>1, <1>2, <1>3 DEF Configs

\* What a command is about to write: a section that null was given for keeps it.
Drafts == {c \in [Sections -> Settings \union {Undefined, Null}] :
              \A s \in Sections : c[s] \in {Undefined, Null} \/ c[s] \in [KeysOf(s) -> Numbers]}

LEMMA WrittenText ==
    ASSUME NEW c \in Drafts
    PROVE  Written(c) \in Texts
<1>1. PICK S \in SUBSET Sections : S = {s \in Sections : c[s] # Undefined}
  OBVIOUS
<1>2. Written(c) = [s \in S |-> c[s]]
  BY <1>1 DEF Written
<1>3. \A s \in S : c[s] \in Settings \union {Null}
  BY <1>1 DEF Drafts
<1>4. Written(c) \in [S -> Settings \union {Null}]
  BY <1>2, <1>3
<1> QED BY <1>4 DEF Texts

LEMMA WrittenMerges ==
    ASSUME NEW c \in Drafts, NEW s \in Sections
    PROVE  deepMerge(Written(c))[s] = IF c[s] = Undefined THEN DEFAULT_CONFIG[s]
                                      ELSE IF c[s] = Null THEN Undefined ELSE c[s]
<1>1. /\ s \in DOMAIN Written(c) <=> c[s] # Undefined
      /\ s \in DOMAIN Written(c) => Written(c)[s] = c[s]
  BY DEF Written
<1>2. Written(c) \in Texts
  BY WrittenText
<1>3. CASE c[s] \in {Undefined, Null}
  BY <1>1, <1>2, <1>3, Merge
<1>4. CASE c[s] \notin {Undefined, Null}
  <2>1. c[s] \in [KeysOf(s) -> Numbers]
    BY <1>4 DEF Drafts
  <2>2. deepMerge(Written(c))[s] = [k \in KeysOf(s) |-> IF k \in DOMAIN c[s] THEN c[s][k] ELSE DEFAULT_CONFIG[s][k]]
    BY <1>1, <1>2, <1>4, Merge
  <2>3. [k \in KeysOf(s) |-> IF k \in DOMAIN c[s] THEN c[s][k] ELSE DEFAULT_CONFIG[s][k]] = c[s]
    BY <2>1
  <2> QED BY <1>4, <2>2, <2>3
<1> QED BY <1>3, <1>4

\* What was valid before it was written is valid when it is read.
LEMMA WrittenValid ==
    ASSUME NEW c \in Drafts, validateConfig(c)
    PROVE  validateConfig(deepMerge(Written(c)))
<1>1. PICK d : d = deepMerge(Written(c))
  OBVIOUS
<1>2. "memory" \in Sections /\ "execution" \in Sections
  BY Defaults
<1>3. d["memory"] = c["memory"]
  BY <1>1, <1>2, WrittenMerges DEF validateConfig, memoryValid, Given
<1>4. d["execution"] = c["execution"] \/ d["execution"] = DEFAULT_CONFIG["execution"] \/ d["execution"] = Undefined
  BY <1>1, <1>2, WrittenMerges
<1>5. executionValid(DEFAULT_CONFIG["execution"]) /\ executionValid(Undefined)
  BY DefaultConfig DEF validateConfig, executionValid, Given
<1>6. memoryValid(c["memory"]) /\ executionValid(c["execution"])
  BY DEF validateConfig
<1>7. memoryValid(d["memory"]) /\ executionValid(d["execution"])
  BY <1>3, <1>4, <1>5, <1>6
<1> QED BY <1>1, <1>7 DEF validateConfig

LEMMA KnownTarget ==
    ASSUME NEW t \in Targets, Known(t)
    PROVE  /\ t.section \in Sections
           /\ t.key # "none" => t.key \in KeysOf(t.section) /\ t.value \in Numbers
BY DEF Targets, Known, KeysOf, Numbers, Keys

\* A setting is changed in its section alone.
LEMMA SetValue ==
    ASSUME NEW config \in Configs, NEW t \in Targets, Known(t), t.key = "none" \/ Given(config[t.section])
    PROVE  /\ setNestedValue(config, t) \in Drafts
           /\ \A s \in Sections : s # t.section => setNestedValue(config, t)[s] = config[s]
           /\ t.key = "none" => setNestedValue(config, t)[t.section] = Null
           /\ t.key # "none" =>
                 /\ setNestedValue(config, t)[t.section] = [config[t.section] EXCEPT ![t.key] = t.value]
                 /\ setNestedValue(config, t)[t.section] \in [KeysOf(t.section) -> Numbers]
                 /\ setNestedValue(config, t) \in Configs
<1>1. t.section \in Sections /\ (t.key # "none" => t.key \in KeysOf(t.section) /\ t.value \in Numbers)
  BY KnownTarget
<1>2. config \in [Sections -> Settings \union {Undefined}]
  BY DEF Configs
<1>3. CASE t.key = "none"
  <2>1. setNestedValue(config, t) = [config EXCEPT ![t.section] = Null]
    BY <1>3 DEF setNestedValue
  <2>2. setNestedValue(config, t) \in [Sections -> Settings \union {Undefined, Null}]
    BY <1>2, <2>1
  <2>3. \A s \in Sections : setNestedValue(config, t)[s] = IF s = t.section THEN Null ELSE config[s]
    BY <1>2, <2>1
  <2> QED BY <1>1, <1>3, <2>2, <2>3 DEF Drafts, Configs
<1>4. CASE t.key # "none"
  <2>1. config[t.section] \in [KeysOf(t.section) -> Numbers]
    BY <1>1, <1>4 DEF Configs, Given
  <2>2. PICK x \in [KeysOf(t.section) -> Numbers] : x = [config[t.section] EXCEPT ![t.key] = t.value]
    BY <1>1, <1>4, <2>1
  <2>3. setNestedValue(config, t) = [config EXCEPT ![t.section] = x]
    BY <1>4, <2>2 DEF setNestedValue
  <2>4. x \in Settings
    BY <1>1, CompleteGiven
  <2>5. setNestedValue(config, t) \in [Sections -> Settings \union {Undefined}]
    BY <1>2, <2>3, <2>4
  <2>6. \A s \in Sections : setNestedValue(config, t)[s] = IF s = t.section THEN x ELSE config[s]
    BY <1>2, <2>3
  <2>7. setNestedValue(config, t) \in Configs
    BY <2>5, <2>6 DEF Configs
  <2>8. setNestedValue(config, t) \in Drafts
    BY <2>5, <2>6, <2>7 DEF Configs, Drafts
  <2> QED BY <1>1, <1>4, <2>2, <2>6, <2>7, <2>8
<1> QED BY <1>3, <1>4

LEMMA ConfirmsType ==
    ASSUME NEW config \in Configs, NEW t \in Targets, Known(t)
    PROVE  Confirms(t, config) \in Configs
<1>1. t.section \in Sections
  BY KnownTarget
<1>2. CASE t.key = "none"
  BY <1>1, <1>2 DEF Confirms, Configs
<1>3. CASE t.key # "none"
  BY <1>3, SetValue DEF Confirms
<1> QED BY <1>2, <1>3

\* A command that read what was confirmed writes what it will confirm.
LEMMA SetAgrees ==
    ASSUME NEW config \in Configs, NEW old \in Configs, NEW t \in Targets, Known(t),
           \A s \in Sections : Given(old[s]) => config[s] = old[s],
           t.key = "none" \/ Given(config[t.section])
    PROVE  Agrees(Written(setNestedValue(config, t)), Confirms(t, old))
<1>1. SUFFICES ASSUME NEW s \in Sections, Given(Confirms(t, old)[s])
               PROVE  deepMerge(Written(setNestedValue(config, t)))[s] = Confirms(t, old)[s]
  BY DEF Agrees
<1>2. PICK n \in Drafts :
        /\ n = setNestedValue(config, t)
        /\ s # t.section => n[s] = config[s]
        /\ t.key # "none" => n[t.section] = [config[t.section] EXCEPT ![t.key] = t.value]
  BY SetValue
<1>3. n[s] \notin {Undefined, Null} => deepMerge(Written(n))[s] = n[s]
  BY WrittenMerges
<1>4. t.section \in Sections
  BY KnownTarget
<1>5. CASE s # t.section
  <2>1. Confirms(t, old)[s] = old[s]
    <3>1. CASE t.key = "none"
      <4>1. Confirms(t, old) = [old EXCEPT ![t.section] = Undefined] /\ old \in [Sections -> Settings \union {Undefined}]
        BY <3>1 DEF Confirms, Configs
      <4> QED BY <1>5, <4>1
    <3>2. CASE t.key # "none" /\ Given(old[t.section])
      <4>1. Confirms(t, old) = setNestedValue(old, t)
        BY <3>2 DEF Confirms
      <4>2. setNestedValue(old, t)[s] = old[s]
        BY <1>5, <3>2, SetValue, ZenonT(40)
      <4> QED BY <4>1, <4>2
    <3>3. CASE t.key # "none" /\ ~Given(old[t.section])
      BY <3>3 DEF Confirms
    <3> QED BY <3>1, <3>2, <3>3
  <2>2. n[s] = old[s] /\ n[s] \notin {Undefined, Null}
    BY <1>1, <1>2, <1>5, <2>1 DEF Given
  <2> QED BY <1>2, <1>3, <2>1, <2>2
<1>6. CASE s = t.section
  <2>1. t.key # "none"
    BY <1>1, <1>4, <1>6 DEF Confirms, Configs, Given
  <2>2. Given(old[s])
    BY <1>1, <1>6, <2>1 DEF Confirms
  <2>3. Confirms(t, old)[s] = [old[s] EXCEPT ![t.key] = t.value]
    BY <1>6, <2>1, <2>2, SetValue DEF Confirms
  <2>4. n[s] = Confirms(t, old)[s]
    BY <1>2, <1>6, <2>1, <2>2, <2>3
  <2> QED BY <1>1, <1>2, <1>3, <2>4 DEF Given
<1> QED BY <1>5, <1>6

-----------------------------------------------------------------------------
\* Steps.

\* What loadConfigFile returns is valid: the defaults of an empty YAML file, or what the file says.
LEMMA Loads ==
    ASSUME Types, NEW f \in Files, loadConfigFile(f) # Failed
    PROVE  /\ loadConfigFile(f) \in Configs /\ validateConfig(loadConfigFile(f))
           /\ file[f] # Absent
           /\ file[f] # Torn => file[f] \in Texts /\ loadConfigFile(f) = deepMerge(file[f])
<1>1. file[f] \notin {Absent, Garbled} /\ (file[f] = Torn \/ file[f] \in Texts)
  BY DEF Types, loadConfigFile
<1>2. PICK config \in Configs : /\ config = IF file[f] = Torn THEN DEFAULT_CONFIG ELSE deepMerge(file[f])
  BY <1>1, DefaultConfig, MergeType
<1>3. validateConfig(config) /\ loadConfigFile(f) = config
  BY <1>1, <1>2 DEF loadConfigFile
<1> QED BY <1>1, <1>2, <1>3

\* A command goes on, or another starts, and no file changes.
LEMMA CommandStep ==
    ASSUME AgreeInv, UNCHANGED <<file, confirmed>>, contested \subseteq contested',
           dirs' \in {"absent", "made", "installed"},
           NEW p \in Procs, proc' \in [Procs -> Commands], \A q \in Procs \ {p} : proc'[q] = proc[q],
           WellFormed(proc'[p]), WriterAgrees(p)'
    PROVE  AgreeInv'
<1>1. Types' /\ FilesAgree'
  BY DEF AgreeInv, Types, FilesAgree
<1>2. ASSUME NEW q \in Procs \ {p} PROVE WellFormed(proc'[q]) /\ WriterAgrees(q)'
  BY DEF AgreeInv, WriterAgrees
<1> QED BY <1>1, <1>2 DEF AgreeInv

\* A command changes a file: it overtakes the others that are at work on it.
LEMMA FileStep ==
    ASSUME AgreeInv, dirs' = dirs, NEW f \in Files, NEW x \in Texts \union {Absent, Torn, Garbled},
           file' = [file EXCEPT ![f] = x],
           confirmed' \in [Files -> Configs], \A g \in Files \ {f} : confirmed'[g] = confirmed[g],
           \A g \in Files \ {f} : g \in contested => g \in contested',
           f \notin contested' /\ x \notin {Absent, Torn} =>
               x \in Texts /\ validateConfig(deepMerge(x)) /\ Agrees(x, confirmed'[f]),
           NEW p \in Procs, proc' \in [Procs -> Commands],
           \A q \in Procs \ {p} : proc'[q] = Others(p, f)[q] \/ (WellFormed(proc'[q]) /\ ~Writing(proc'[q])),
           WellFormed(proc'[p]), WriterAgrees(p)'
    PROVE  AgreeInv'
<1>1. Types'
  BY DEF AgreeInv, Types
<1>2. file'[f] = x /\ \A g \in Files \ {f} : file'[g] = file[g]
  BY DEF AgreeInv, Types
<1>3. FilesAgree'
  BY <1>2 DEF AgreeInv, FilesAgree
<1>4. ASSUME NEW q \in Procs \ {p}, proc'[q] = Others(p, f)[q] PROVE WellFormed(proc'[q]) /\ WriterAgrees(q)'
  <2>1. Others(p, f)[q] = IF proc[q].path = f /\ proc[q].at # "load" THEN [proc[q] EXCEPT !.stale = TRUE] ELSE proc[q]
    BY DEF Others
  <2>2. proc[q] \in Commands /\ WellFormed(proc[q]) /\ WriterAgrees(q)
    BY DEF AgreeInv, Types
  <2>3. CASE proc[q].path = f /\ proc[q].at # "load"
    <3>1. /\ proc'[q] = [proc[q] EXCEPT !.stale = TRUE]
      BY <1>4, <2>1, <2>3
    <3>2. /\ proc'[q].stale = TRUE /\ proc'[q].op = proc[q].op /\ proc'[q].at = proc[q].at
          /\ proc'[q].path = proc[q].path /\ proc'[q].target = proc[q].target /\ proc'[q].new = proc[q].new
      BY <2>2, <3>1 DEF Commands
    <3> QED BY <2>2, <3>2 DEF WellFormed, WriterAgrees, Writing
  <2>4. CASE ~(proc[q].path = f /\ proc[q].at # "load")
    <3>1. proc'[q] = proc[q]
      BY <1>4, <2>1, <2>4
    <3>2. Writing(proc[q]) => proc[q].path \in Files \ {f}
      BY <2>2, <2>4 DEF WellFormed, Writing
    <3> QED BY <2>2, <3>1, <3>2 DEF WriterAgrees
  <2> QED BY <2>3, <2>4
<1>5. ASSUME NEW q \in Procs \ {p}, ~Writing(proc'[q]) PROVE WriterAgrees(q)'
  BY <1>5 DEF WriterAgrees
<1> QED BY <1>1, <1>3, <1>4, <1>5 DEF AgreeInv

LEMMA OthersType ==
    ASSUME Types, NEW p \in Procs, NEW f \in Files
    PROVE  Others(p, f) \in [Procs -> Commands] /\ Others(p, f)[p] = proc[p]
<1>1. \A q \in Procs : [proc[q] EXCEPT !.stale = TRUE] \in Commands
  BY ZenonT(40) DEF Types, Commands
<1> QED BY <1>1 DEF Types, Others

\* Commands that are not at work on a file.
LEMMA Aside ==
    ASSUME NEW c \in Commands, c.at \notin {"load", "open", "write", "lost"}, c.op = "set" => c.target \in Targets /\ Known(c.target)
    PROVE  WellFormed(c) /\ ~Writing(c)
BY DEF WellFormed, Writing

LEMMA IdleCommand == Idle \in Commands /\ Idle.at = "idle" /\ Idle.op = "none"
BY DEF Idle, Commands

LEMMA FileCommand ==
    ASSUME NEW f \in Files, NEW o \in {"reset", "run"}
    PROVE  \E c \in Commands : /\ c = [Idle EXCEPT !.op = o, !.at = "load", !.path = f]
                               /\ c.op = o /\ c.at = "load" /\ c.path = f
<1> DEFINE c == [Idle EXCEPT !.op = o, !.at = "load", !.path = f]
<1>1. c \in Commands /\ c.op = o /\ c.at = "load" /\ c.path = f
  BY DEF Idle, Commands
<1> QED BY <1>1

LEMMA InitCommand ==
    ASSUME NEW b \in BOOLEAN
    PROVE  \E c \in Commands : /\ c = [Idle EXCEPT !.op = "init", !.at = "dirs", !.force = b]
                               /\ c.op = "init" /\ c.at = "dirs"
<1> DEFINE c == [Idle EXCEPT !.op = "init", !.at = "dirs", !.force = b]
<1>1. c \in Commands /\ c.op = "init" /\ c.at = "dirs"
  BY DEF Idle, Commands
<1> QED BY <1>1

\* The defaults are written as they are, and read back.
LEMMA DefaultWritten ==
    /\ DEFAULT_CONFIG \in Drafts /\ DEFAULT_CONFIG \in Texts
    /\ Written(DEFAULT_CONFIG) = DEFAULT_CONFIG /\ deepMerge(DEFAULT_CONFIG) = DEFAULT_CONFIG
<1>1. DEFAULT_CONFIG \in Drafts
  BY DefaultConfig DEF Configs, Drafts
<1>2. \A s \in Sections : DEFAULT_CONFIG[s] # Undefined /\ DEFAULT_CONFIG[s] # Null
  BY DefaultSections, CompleteGiven
<1>3. {s \in Sections : DEFAULT_CONFIG[s] # Undefined} = Sections
  BY <1>2
<1>4. Written(DEFAULT_CONFIG) = DEFAULT_CONFIG
  BY <1>3, Defaults DEF Written
<1>5. \A s \in Sections : deepMerge(DEFAULT_CONFIG)[s] = DEFAULT_CONFIG[s]
  BY <1>1, <1>2, <1>4, WrittenMerges
<1>6. deepMerge(DEFAULT_CONFIG) = [s \in Sections |-> deepMerge(DEFAULT_CONFIG)[s]]
  BY DEF deepMerge
<1>7. deepMerge(DEFAULT_CONFIG) = DEFAULT_CONFIG
  BY <1>5, <1>6, Defaults
<1>8. DEFAULT_CONFIG \in Texts
  BY <1>1, <1>4, WrittenText
<1> QED BY <1>1, <1>4, <1>7, <1>8

LEMMA InitAgree == Init => AgreeInv
<1> SUFFICES ASSUME Init PROVE AgreeInv
  OBVIOUS
<1>1. file \in [Files -> Texts \union {Absent}]
  BY ConfigurationAssumption DEF Init
<1>2. proc = [p \in Procs |-> Idle] /\ dirs = "absent" /\ contested = {}
  BY DEF Init
<1>3. \A f \in Files : confirmed[f] = IF file[f] = Absent THEN DEFAULT_CONFIG ELSE deepMerge(file[f])
  BY DEF Init
<1>4. \A f \in Files : confirmed[f] \in Configs
  BY <1>1, <1>3, DefaultConfig, MergeType
<1>5. confirmed \in [Files -> Configs]
  BY <1>4 DEF Init
<1>6. Types
  BY <1>1, <1>2, <1>5, IdleCommand DEF Types
<1>7. FilesAgree
  BY <1>1, <1>3 DEF Init, FilesAgree, Agrees
<1>8. ASSUME NEW p \in Procs PROVE WellFormed(proc[p]) /\ WriterAgrees(p)
  BY <1>2, IdleCommand, Aside DEF WriterAgrees
<1> QED BY <1>6, <1>7, <1>8 DEF AgreeInv

\* A command starts.
LEMMA StartStep ==
    ASSUME AgreeInv, NEW p \in Procs, NEW c \in Commands, Start(p, c), WellFormed(c), ~Writing(c)
    PROVE  AgreeInv'
<1>1. proc \in [Procs -> Commands] /\ proc' = [proc EXCEPT ![p] = c]
  BY DEF AgreeInv, Types, Start
<1>2. proc'[p] = c /\ proc' \in [Procs -> Commands] /\ \A q \in Procs \ {p} : proc'[q] = proc[q]
  BY <1>1
<1>3. UNCHANGED <<file, confirmed>> /\ contested' = contested /\ dirs' \in {"absent", "made", "installed"}
  BY DEF AgreeInv, Types, Start
<1>4. WriterAgrees(p)'
  BY <1>2 DEF WriterAgrees
<1> QED BY <1>2, <1>3, <1>4, CommandStep

LEMMA ThereFiles ==
    ASSUME NEW f \in FirstThere(LoadOrder)
    PROVE  f \in Files /\ file[f] # Absent
BY DEF FirstThere, Files

LEMMA StartsAgree ==
    ASSUME AgreeInv, NEW p \in Procs,
           \/ \E f \in Files, t \in Targets : setConfig(p, f, t)
           \/ \E f \in Files : resetConfig(p, f)
           \/ loadConfig(p)
           \/ \E force \in BOOLEAN : initCommand(p, force)
    PROVE  AgreeInv'
<1>1. ASSUME NEW f \in Files, NEW t \in Targets, setConfig(p, f, t) PROVE AgreeInv'
  <2> DEFINE c == [Idle EXCEPT !.op = "set", !.at = "load", !.path = f, !.target = t]
  <2>1. c \in Commands /\ c.op = "set" /\ c.at = "load" /\ c.path = f /\ c.target = t
    BY DEF Idle, Commands
  <2>2. Start(p, c) /\ Known(t)
    BY <1>1 DEF setConfig
  <2> HIDE DEF c
  <2>3. WellFormed(c) /\ ~Writing(c)
    BY <2>1, <2>2 DEF WellFormed, Writing
  <2> QED BY <2>1, <2>2, <2>3, StartStep
<1>2. ASSUME NEW f \in Files, NEW o \in {"reset", "run"},
             Start(p, [Idle EXCEPT !.op = o, !.at = "load", !.path = f])
      PROVE AgreeInv'
  <2>1. PICK c \in Commands : /\ c = [Idle EXCEPT !.op = o, !.at = "load", !.path = f]
                              /\ c.op = o /\ c.at = "load" /\ c.path = f
    BY FileCommand
  <2>2. Start(p, c)
    BY <1>2, <2>1
  <2>3. WellFormed(c) /\ ~Writing(c)
    BY <2>1 DEF WellFormed, Writing
  <2> QED BY <2>2, <2>3, StartStep
<1>3. ASSUME Start(p, Idle) PROVE AgreeInv'
  <2>1. WellFormed(Idle) /\ ~Writing(Idle)
    BY IdleCommand, Aside
  <2> QED BY <1>3, <2>1, IdleCommand, StartStep
<1>4. ASSUME NEW b \in BOOLEAN, initCommand(p, b) PROVE AgreeInv'
  <2>1. PICK c \in Commands : /\ c = [Idle EXCEPT !.op = "init", !.at = "dirs", !.force = b]
                              /\ c.op = "init" /\ c.at = "dirs"
    BY InitCommand
  <2>2. Start(p, c)
    BY <1>4, <2>1 DEF initCommand
  <2>3. WellFormed(c) /\ ~Writing(c)
    BY <2>1, Aside
  <2> QED BY <2>2, <2>3, StartStep
<1>5. ASSUME loadConfig(p) PROVE AgreeInv'
  BY <1>2, <1>3, <1>5, ThereFiles DEF loadConfig
<1>6. ASSUME NEW f \in Files, resetConfig(p, f) PROVE AgreeInv'
  BY <1>2, <1>6 DEF resetConfig
<1> QED BY <1>1, <1>4, <1>5, <1>6

\* A command has the fields it has, and p's alone changes.
LEMMA OneCommand ==
    ASSUME AgreeInv, NEW p \in Procs, NEW c \in Commands, proc' = [proc EXCEPT ![p] = c]
    PROVE  proc'[p] = c /\ proc' \in [Procs -> Commands] /\ \A q \in Procs \ {p} : proc'[q] = proc[q]
BY DEF AgreeInv, Types

\* Commands that end.
LEMMA EndStep ==
    ASSUME AgreeInv, NEW p \in Procs, proc' = [proc EXCEPT ![p] = Idle],
           UNCHANGED <<file, confirmed>>, contested \subseteq contested', dirs' \in {"absent", "made", "installed"}
    PROVE  AgreeInv'
<1>1. proc'[p] = Idle /\ proc' \in [Procs -> Commands] /\ \A q \in Procs \ {p} : proc'[q] = proc[q]
  BY IdleCommand, OneCommand
<1>2. WellFormed(Idle) /\ ~Writing(Idle)
  BY IdleCommand, Aside
<1>3. WriterAgrees(p)'
  BY <1>1, <1>2 DEF WriterAgrees
<1> QED BY <1>1, <1>2, <1>3, CommandStep

\* An init goes on, without opening a file.
LEMMA InitStep ==
    ASSUME AgreeInv, NEW p \in Procs, NEW c \in Commands, proc' = [proc EXCEPT ![p] = c], c.op = "init",
           c.at \in {"install", "config", "claude", "rollback"},
           UNCHANGED <<file, confirmed>>, contested \subseteq contested', dirs' \in {"absent", "made", "installed"}
    PROVE  AgreeInv'
<1>1. proc'[p] = c /\ proc' \in [Procs -> Commands] /\ \A q \in Procs \ {p} : proc'[q] = proc[q]
  BY OneCommand
<1>2. WellFormed(c) /\ ~Writing(c)
  BY Aside
<1>3. WriterAgrees(p)'
  BY <1>1, <1>2 DEF WriterAgrees
<1> QED BY <1>1, <1>2, <1>3, CommandStep

LEMMA LoadAgrees ==
    ASSUME AgreeInv, NEW p \in Procs, Load(p)
    PROVE  AgreeInv'
<1>1. PICK f, t, config : f = proc[p].path /\ t = proc[p].target /\ config = loadConfigFile(f)
  OBVIOUS
<1>2. /\ proc[p].at = "load" /\ proc[p].op \in {"set", "reset"}
      /\ UNCHANGED <<file, dirs, confirmed, contested>>
  BY DEF Load, At
<1>3. f \in Files /\ (proc[p].op = "set" => t \in Targets /\ Known(t)) /\ Types /\ proc[p] \in Commands
  BY <1>1, <1>2 DEF AgreeInv, Types, WellFormed
<1>4. CASE proc' = [proc EXCEPT ![p] = Idle]
  BY <1>2, <1>4, EndStep DEF AgreeInv, Types
<1>5. CASE proc' # [proc EXCEPT ![p] = Idle]
  <2>1. PICK new : new = IF proc[p].op = "reset" THEN DEFAULT_CONFIG ELSE setNestedValue(config, t)
    OBVIOUS
  <2>2. /\ config # Failed /\ validateConfig(new)
        /\ proc[p].op = "set" => t.key = "none" \/ Given(config[t.section])
        /\ proc' = [proc EXCEPT ![p].at = "open", ![p].new = Written(new), ![p].stale = (file[f] = Torn)]
    BY <1>1, <1>5, <2>1 DEF Load
  <2>3. config \in Configs /\ file[f] # Absent /\ (file[f] # Torn => file[f] \in Texts /\ config = deepMerge(file[f]))
    BY <1>1, <1>3, <2>2, Loads
  <2>4. new \in Drafts
    BY <1>2, <1>3, <2>1, <2>2, <2>3, SetValue, DefaultWritten
  <2>5. Written(new) \in Texts /\ validateConfig(deepMerge(Written(new)))
    BY <2>2, <2>4, WrittenText, WrittenValid
  <2>6. proc[p].op = "reset" => deepMerge(Written(new)) = DEFAULT_CONFIG
    BY <2>1, DefaultWritten
  <2>7. proc' = [proc EXCEPT ![p] = [proc[p] EXCEPT !.at = "open", !.new = Written(new), !.stale = (file[f] = Torn)]]
    BY <2>2
  <2> DEFINE d == [proc[p] EXCEPT !.at = "open", !.new = Written(new), !.stale = (file[f] = Torn)]
  <2>8. /\ d \in Commands /\ d.at = "open" /\ d.new = Written(new) /\ d.stale = (file[f] = Torn)
        /\ d.op = proc[p].op /\ d.path = f /\ d.target = t
    BY <1>1, <1>3, <2>5 DEF Commands
  <2>9. proc' = [proc EXCEPT ![p] = d]
    BY <2>7
  <2> HIDE DEF d
  <2>10. proc'[p] = d /\ proc' \in [Procs -> Commands] /\ \A q \in Procs \ {p} : proc'[q] = proc[q]
    BY <2>8, <2>9, OneCommand
  <2>11. WellFormed(d)
    BY <1>2, <1>3, <2>5, <2>6, <2>8 DEF WellFormed, Writing
  <2>12. ASSUME d.op = "set", ~d.stale, f \notin contested
         PROVE  Agrees(d.new, Confirms(t, confirmed[f]))
    <3>1. Agrees(file[f], confirmed[f]) /\ config = deepMerge(file[f])
      BY <1>3, <2>3, <2>8, <2>12 DEF AgreeInv, FilesAgree
    <3>2. \A s \in Sections : Given(confirmed[f][s]) => config[s] = confirmed[f][s]
      BY <3>1 DEF Agrees
    <3>3. confirmed[f] \in Configs
      BY <1>3 DEF Types
    <3>4. d.new = Written(setNestedValue(config, t))
      BY <2>1, <2>8, <2>12
    <3> QED BY <1>3, <2>2, <2>3, <2>8, <2>12, <3>2, <3>3, <3>4, SetAgrees
  <2>13. WriterAgrees(p)'
    BY <1>2, <2>8, <2>10, <2>12 DEF WriterAgrees
  <2>14. dirs' \in {"absent", "made", "installed"}
    BY <1>2, <1>3 DEF Types
  <2> QED BY <1>2, <2>10, <2>11, <2>13, <2>14, CommandStep
<1> QED BY <1>4, <1>5

LEMMA OpenAgrees ==
    ASSUME AgreeInv, NEW p \in Procs, Open(p)
    PROVE  AgreeInv'
<1>1. PICK f : f = proc[p].path
  OBVIOUS
<1>2. /\ proc[p].at = "open" /\ UNCHANGED <<dirs, confirmed, contested>> /\ file' = [file EXCEPT ![f] = Torn]
      /\ proc' = [Others(p, f) EXCEPT ![p].at = "write", ![p].stale = proc[p].stale \/ (file[f] = Torn /\ proc[p].op = "set")]
  BY <1>1 DEF Open
<1>3. f \in Files /\ Types /\ WellFormed(proc[p]) /\ WriterAgrees(p) /\ proc[p] \in Commands /\ Writing(proc[p])
  BY <1>1, <1>2 DEF AgreeInv, Types, WellFormed, Writing
<1>4. Others(p, f) \in [Procs -> Commands] /\ Others(p, f)[p] = proc[p]
  BY <1>3, OthersType
<1> DEFINE stale == proc[p].stale \/ (file[f] = Torn /\ proc[p].op = "set")
<1>5. PICK d : d = [proc[p] EXCEPT !.at = "write", !.stale = stale]
  OBVIOUS
<1>6. proc' = [Others(p, f) EXCEPT ![p] = d]
  BY <1>2, <1>4, <1>5
<1>7. stale \in BOOLEAN /\ (~stale => ~proc[p].stale)
  <2>1. proc[p].stale \in BOOLEAN
    BY <1>3 DEF Commands
  <2> QED BY <2>1
<1> HIDE DEF stale
<1>8. /\ d \in Commands /\ d.at = "write" /\ d.stale = stale
      /\ d.op = proc[p].op /\ d.path = f /\ d.target = proc[p].target /\ d.new = proc[p].new
  BY <1>1, <1>3, <1>5, <1>7 DEF Commands
<1>9. proc'[p] = d /\ proc' \in [Procs -> Commands] /\ \A q \in Procs \ {p} : proc'[q] = Others(p, f)[q]
  BY <1>4, <1>6, <1>8
<1>10. WellFormed(d)
  BY <1>1, <1>3, <1>8 DEF WellFormed, Writing
<1>11. WriterAgrees(p)'
  <2>1. ASSUME d.op = "set", ~d.stale, f \notin contested
        PROVE  Agrees(d.new, Confirms(d.target, confirmed[f]))
    <3>1. ~stale
      BY <2>1, <1>8
    <3>2. ~proc[p].stale
      BY <3>1, <1>7
    <3> QED BY <1>1, <1>3, <1>8, <2>1, <3>2 DEF WriterAgrees
  <2>2. proc'[p] = d /\ d.path = f /\ contested' = contested /\ confirmed' = confirmed
    BY <1>2, <1>8, <1>9
  <2> QED BY <2>1, <2>2 DEF WriterAgrees
<1>12. confirmed' \in [Files -> Configs] /\ \A g \in Files \ {f} : confirmed'[g] = confirmed[g]
  BY <1>2, <1>3 DEF Types
<1> QED BY <1>2, <1>3, <1>9, <1>10, <1>11, <1>12, FileStep

\* A command that has written its file.
LEMMA DoneCommand ==
    ASSUME NEW p \in Procs, proc[p] \in Commands
    PROVE  /\ Done(p) \in Commands
           /\ proc[p].op = "init" => Done(p).at = "claude" /\ Done(p).op = "init"
           /\ proc[p].op # "init" => Done(p) = Idle
           /\ Done(p).at \in {"claude", "idle"} /\ Done(p).op \in {"init", "none"}
<1>1. CASE proc[p].op = "init"
  BY <1>1 DEF Done, Commands
<1>2. CASE proc[p].op # "init"
  BY <1>2, IdleCommand DEF Done
<1> QED BY <1>1, <1>2

LEMMA WriteAgrees ==
    ASSUME AgreeInv, NEW p \in Procs, NEW garbled \in BOOLEAN, Write(p, garbled)
    PROVE  AgreeInv'
<1>1. PICK f, x, v : /\ f = proc[p].path /\ x = IF garbled THEN Garbled ELSE proc[p].new
                     /\ v = IF proc[p].op # "set" THEN DEFAULT_CONFIG ELSE Confirms(proc[p].target, confirmed[f])
  OBVIOUS
<1>2. /\ proc[p].at = "write" /\ dirs' = dirs /\ file' = [file EXCEPT ![f] = x]
      /\ proc' = [Others(p, f) EXCEPT ![p] = Done(p)]
      /\ contested' = IF garbled \/ proc[p].stale THEN contested \union {f}
                      ELSE IF proc[p].op = "set" THEN contested ELSE contested \ {f}
  BY <1>1 DEF Write
<1>3. confirmed' = [confirmed EXCEPT ![f] = v]
  BY <1>1 DEF Write, Confirms
<1>4. /\ f \in Files /\ Types /\ WellFormed(proc[p]) /\ WriterAgrees(p) /\ proc[p] \in Commands /\ Writing(proc[p])
      /\ proc[p].new \in Texts /\ validateConfig(deepMerge(proc[p].new))
  BY <1>1, <1>2 DEF AgreeInv, Types, WellFormed, Writing
<1>5. Others(p, f) \in [Procs -> Commands] /\ Others(p, f)[p] = proc[p]
  BY <1>4, OthersType
<1>6. PICK d : d = Done(p)
  OBVIOUS
<1>7. d \in Commands /\ d.at \in {"claude", "idle"} /\ d.op \in {"init", "none"}
  BY <1>4, <1>6, DoneCommand
<1>8. proc'[p] = d /\ proc' \in [Procs -> Commands] /\ \A q \in Procs \ {p} : proc'[q] = Others(p, f)[q]
  BY <1>2, <1>5, <1>6, <1>7
<1>9. WellFormed(d) /\ ~Writing(d)
  BY <1>7, Aside
<1>10. WriterAgrees(p)'
  BY <1>8, <1>9 DEF WriterAgrees
<1>11. v \in Configs
  BY <1>1, <1>4, DefaultConfig, ConfirmsType DEF Types, WellFormed
<1>12. confirmed' \in [Files -> Configs] /\ confirmed'[f] = v /\ \A g \in Files \ {f} : confirmed'[g] = confirmed[g]
  BY <1>3, <1>4, <1>11 DEF Types
<1>13. \A g \in Files \ {f} : g \in contested => g \in contested'
  BY <1>2
<1>14. ASSUME f \notin contested' PROVE x = proc[p].new /\ Agrees(x, v)
  <2>1. ~garbled /\ ~proc[p].stale
    BY <1>2, <1>14
  <2>2. CASE proc[p].op = "set"
    <3>1. f \notin contested
      BY <1>2, <1>14, <2>1, <2>2
    <3> QED BY <1>1, <1>4, <2>1, <2>2, <3>1 DEF WriterAgrees
  <2>3. CASE proc[p].op # "set"
    BY <1>1, <1>4, <2>1, <2>3 DEF WellFormed, Agrees
  <2> QED BY <1>1, <2>1, <2>2, <2>3
<1>15. x \in Texts \union {Absent, Torn, Garbled}
  BY <1>1, <1>4
<1>16. f \notin contested' /\ x \notin {Absent, Torn} =>
           x \in Texts /\ validateConfig(deepMerge(x)) /\ Agrees(x, confirmed'[f])
  BY <1>4, <1>12, <1>14
<1> QED BY <1>2, <1>4, <1>8, <1>9, <1>10, <1>12, <1>13, <1>15, <1>16, FileStep

\* What an init that has failed does.
LEMMA FailsCommand ==
    ASSUME NEW c \in Commands
    PROVE  /\ [c EXCEPT !.at = "rollback"] \in Commands
           /\ [c EXCEPT !.at = "rollback"].at = "rollback" /\ [c EXCEPT !.at = "rollback"].op = c.op
BY DEF Commands

LEMMA FailsAgree ==
    ASSUME AgreeInv, NEW p \in Procs, proc[p].op = "init", proc' = Fails(p), UNCHANGED <<file, dirs, confirmed>>,
           contested \subseteq contested'
    PROVE  AgreeInv'
<1>1. proc \in [Procs -> Commands] /\ dirs' \in {"absent", "made", "installed"}
  BY DEF AgreeInv, Types
<1>2. CASE proc[p].force
  <2>1. proc' = [proc EXCEPT ![p] = Idle]
    BY <1>2 DEF Fails
  <2> QED BY <1>1, <2>1, EndStep
<1>3. CASE ~proc[p].force
  <2>1. PICK c \in Commands : c = [proc[p] EXCEPT !.at = "rollback"] /\ c.at = "rollback" /\ c.op = "init"
    BY <1>1, FailsCommand
  <2>2. proc' = [proc EXCEPT ![p] = c]
    BY <1>3, <2>1 DEF Fails
  <2> QED BY <1>1, <2>1, <2>2, InitStep
<1> QED BY <1>2, <1>3

LEMMA EndsAgree ==
    ASSUME AgreeInv, NEW p \in Procs,
           RunLoads(p) \/ Crash(p) \/ \E left \in {"absent", "made", "installed"} : RollbackDirs(p, left)
    PROVE  AgreeInv'
<1>1. /\ proc' = [proc EXCEPT ![p] = Idle] /\ UNCHANGED <<file, confirmed>>
      /\ contested \subseteq contested' /\ dirs' \in {"absent", "made", "installed"}
  BY DEF RunLoads, Crash, RollbackDirs, AgreeInv, Types
<1> QED BY <1>1, EndStep

LEMMA SaveFailsAgrees ==
    ASSUME AgreeInv, NEW p \in Procs, SaveFails(p)
    PROVE  AgreeInv'
<1>1. /\ UNCHANGED <<file, dirs, confirmed>> /\ contested \subseteq contested'
      /\ dirs' \in {"absent", "made", "installed"}
  BY DEF SaveFails, AgreeInv, Types
<1>2. CASE proc[p].op = "init"
  BY <1>1, <1>2, FailsAgree DEF SaveFails
<1>3. CASE proc[p].op # "init"
  BY <1>1, <1>3, EndStep DEF SaveFails
<1> QED BY <1>2, <1>3

LEMMA WriteLostAgrees ==
    ASSUME AgreeInv, NEW p \in Procs, WriteLost(p)
    PROVE  AgreeInv'
<1>1. /\ proc' = [proc EXCEPT ![p] = Done(p)] /\ UNCHANGED <<file, dirs, confirmed>>
      /\ contested \subseteq contested' /\ dirs' \in {"absent", "made", "installed"} /\ proc[p] \in Commands
  BY DEF WriteLost, AgreeInv, Types
<1>2. CASE proc[p].op = "init"
  BY <1>1, <1>2, DoneCommand, InitStep
<1>3. CASE proc[p].op # "init"
  BY <1>1, <1>3, DoneCommand, EndStep
<1> QED BY <1>2, <1>3

LEMMA InitializeAgrees ==
    ASSUME AgreeInv, NEW p \in Procs, NEW ok \in BOOLEAN,
           createDirectoryStructure(p, ok) \/ copyExamples(p, ok) \/ setupClaudeIntegration(p, ok)
    PROVE  AgreeInv'
<1>1. proc \in [Procs -> Commands] /\ dirs \in {"absent", "made", "installed"}
  BY DEF AgreeInv, Types
<1>2. CASE createDirectoryStructure(p, ok)
  <2>1. UNCHANGED <<file, confirmed, contested>> /\ dirs' \in {"absent", "made", "installed"} /\ proc[p].op = "init"
    BY <1>1, <1>2 DEF createDirectoryStructure, At
  <2>2. CASE ok
    <3>1. PICK c \in Commands : c = [proc[p] EXCEPT !.at = "install", !.created = {"dirs"}] /\ c.at = "install" /\ c.op = "init"
      <4> DEFINE c == [proc[p] EXCEPT !.at = "install", !.created = {"dirs"}]
      <4>1. c \in Commands /\ c.at = "install" /\ c.op = "init"
        BY <1>1, <2>1, ZenonT(60) DEF Commands
      <4> QED BY <4>1
    <3>2. proc' = [proc EXCEPT ![p] = c]
      BY <1>2, <2>2, <3>1 DEF createDirectoryStructure
    <3> QED BY <2>1, <3>1, <3>2, InitStep
  <2>3. CASE ~ok
    <3>1. proc' = [proc EXCEPT ![p] = Idle]
      BY <1>2, <2>3 DEF createDirectoryStructure
    <3> QED BY <2>1, <3>1, EndStep
  <2> QED BY <2>2, <2>3
<1>3. CASE copyExamples(p, ok)
  <2>1. UNCHANGED <<file, confirmed, contested>> /\ proc[p].op = "init"
    BY <1>3 DEF copyExamples, At
  <2>2. CASE ok /\ dirs # "absent"
    <3>1. PICK c \in Commands : c = [proc[p] EXCEPT !.at = "config"] /\ c.at = "config" /\ c.op = "init"
      <4> DEFINE c == [proc[p] EXCEPT !.at = "config"]
      <4>1. c \in Commands /\ c.at = "config" /\ c.op = "init"
        BY <1>1, <2>1 DEF Commands
      <4> QED BY <4>1
    <3>2. proc' = [proc EXCEPT ![p] = c] /\ dirs' = "installed"
      BY <1>3, <2>2, <3>1 DEF copyExamples, Continue
    <3> QED BY <2>1, <3>1, <3>2, InitStep
  <2>3. CASE ~(ok /\ dirs # "absent")
    BY <1>3, <2>1, <2>3, FailsAgree DEF copyExamples
  <2> QED BY <2>2, <2>3
<1>4. CASE setupClaudeIntegration(p, ok)
  <2>1. UNCHANGED <<file, dirs, confirmed, contested>> /\ proc[p].op = "init"
    BY <1>4 DEF setupClaudeIntegration, At
  <2>2. CASE ok
    BY <1>1, <1>4, <2>1, <2>2, EndStep DEF setupClaudeIntegration
  <2>3. CASE ~ok
    BY <1>4, <2>1, <2>3, FailsAgree DEF setupClaudeIntegration
  <2> QED BY <2>2, <2>3
<1> QED BY <1>2, <1>3, <1>4

LEMMA CreateAgrees ==
    ASSUME AgreeInv, NEW p \in Procs, createDefaultConfig(p)
    PROVE  AgreeInv'
<1>1. /\ UNCHANGED <<file, confirmed, contested>> /\ proc[p].op = "init"
      /\ proc[p] \in Commands /\ proc \in [Procs -> Commands] /\ dirs' \in {"absent", "made", "installed"}
  BY DEF createDefaultConfig, At, AgreeInv, Types
<1>2. CASE file[ProjectConfig] # Absent /\ ~proc[p].force
  <2>1. PICK c \in Commands : /\ c = [proc[p] EXCEPT !.at = "claude", !.created = @ \union {"config"}]
                              /\ c.at = "claude" /\ c.op = "init"
    <3> DEFINE c == [proc[p] EXCEPT !.at = "claude", !.created = @ \union {"config"}]
    <3>1. c \in Commands /\ c.at = "claude" /\ c.op = "init"
      BY <1>1 DEF Commands
    <3> QED BY <3>1
  <2>2. proc' = [proc EXCEPT ![p] = c]
    BY <1>1, <1>2, <2>1 DEF createDefaultConfig
  <2> QED BY <1>1, <2>1, <2>2, InitStep
<1>3. CASE ~(file[ProjectConfig] # Absent /\ ~proc[p].force)
  <2>1. PICK c \in Commands : /\ c = [proc[p] EXCEPT !.at = "open", !.path = ProjectConfig, !.new = DEFAULT_CONFIG]
                              /\ c.at = "open" /\ c.op = "init" /\ c.path = ProjectConfig /\ c.new = DEFAULT_CONFIG
    <3> DEFINE c == [proc[p] EXCEPT !.at = "open", !.path = ProjectConfig, !.new = DEFAULT_CONFIG]
    <3>1. c \in Commands /\ c.at = "open" /\ c.op = "init" /\ c.path = ProjectConfig /\ c.new = DEFAULT_CONFIG
      BY <1>1, DefaultWritten, ConfigurationAssumption DEF Commands
    <3> QED BY <3>1
  <2>2. proc' = [proc EXCEPT ![p] = c]
    BY <1>1, <1>3, <2>1 DEF createDefaultConfig
  <2>3. proc'[p] = c /\ proc' \in [Procs -> Commands] /\ \A q \in Procs \ {p} : proc'[q] = proc[q]
    BY <2>1, <2>2, OneCommand
  <2>4. WellFormed(c)
    BY <2>1, DefaultWritten, DefaultConfig, ConfigurationAssumption DEF WellFormed, Writing
  <2>5. WriterAgrees(p)'
    BY <2>1, <2>3 DEF WriterAgrees
  <2> QED BY <1>1, <2>3, <2>4, <2>5, CommandStep
<1> QED BY <1>2, <1>3

\* Those that the removal of a file overtakes.
LEMMA LostCommand ==
    ASSUME NEW c \in Commands
    PROVE  /\ [c EXCEPT !.at = "lost"] \in Commands /\ [c EXCEPT !.at = "lost"].at = "lost"
           /\ [c EXCEPT !.at = "lost"].op = c.op /\ [c EXCEPT !.at = "lost"].path = c.path
           /\ [c EXCEPT !.at = "lost"].target = c.target
BY DEF Commands

LEMMA RollbackAgrees ==
    ASSUME AgreeInv, NEW p \in Procs, NEW ok \in BOOLEAN, RollbackConfig(p, ok)
    PROVE  AgreeInv'
<1>1. PICK f : f = ProjectConfig
  OBVIOUS
<1>2. /\ proc[p].at = "rollback" /\ proc[p].op = "init" /\ UNCHANGED <<dirs, confirmed, contested>>
  BY DEF RollbackConfig, At
<1>3. f \in Files /\ Types /\ proc[p] \in Commands /\ dirs' \in {"absent", "made", "installed"}
  BY <1>1, <1>2, ConfigurationAssumption DEF AgreeInv, Types
<1>4. Others(p, f) \in [Procs -> Commands] /\ Others(p, f)[p] = proc[p]
  BY <1>3, OthersType
<1>5. PICK d \in Commands : d = [proc[p] EXCEPT !.created = @ \ {"config"}] /\ d.at = "rollback" /\ d.op = "init"
  <2> DEFINE d == [proc[p] EXCEPT !.created = @ \ {"config"}]
  <2>1. d \in Commands /\ d.at = "rollback" /\ d.op = "init"
    BY <1>2, <1>3 DEF Commands
  <2> QED BY <2>1
<1>6. CASE ~ok
  <2>1. proc' = [proc EXCEPT ![p] = d] /\ UNCHANGED file
    BY <1>5, <1>6 DEF RollbackConfig
  <2> QED BY <1>2, <1>3, <1>5, <2>1, InitStep
<1>7. CASE ok
  <2>1. /\ file' = [file EXCEPT ![f] = Absent]
        /\ proc' = [q \in Procs |-> IF q = p THEN d
                                   ELSE IF proc[q].at = "write" /\ proc[q].path = f THEN [proc[q] EXCEPT !.at = "lost"]
                                   ELSE Others(p, f)[q]]
    BY <1>1, <1>5, <1>7 DEF RollbackConfig
  <2>2. ASSUME NEW q \in Procs, proc[q].at = "write"
        PROVE  /\ [proc[q] EXCEPT !.at = "lost"] \in Commands
               /\ WellFormed([proc[q] EXCEPT !.at = "lost"]) /\ ~Writing([proc[q] EXCEPT !.at = "lost"])
    <3>1. proc[q] \in Commands /\ WellFormed(proc[q])
      BY DEF AgreeInv, Types
    <3> QED BY <2>2, <3>1, LostCommand DEF WellFormed, Writing
  <2>3. proc' \in [Procs -> Commands] /\ proc'[p] = d
    BY <1>4, <2>1, <2>2
  <2>4. \A q \in Procs \ {p} : proc'[q] = Others(p, f)[q] \/ (WellFormed(proc'[q]) /\ ~Writing(proc'[q]))
    BY <2>1, <2>2
  <2>5. WellFormed(d) /\ ~Writing(d)
    BY <1>5, Aside
  <2>6. WriterAgrees(p)'
    BY <2>3, <2>5 DEF WriterAgrees
  <2>7. confirmed' \in [Files -> Configs] /\ \A g \in Files \ {f} : confirmed'[g] = confirmed[g]
    BY <1>2, <1>3 DEF Types
  <2>8. Absent \in Texts \union {Absent, Torn, Garbled}
    OBVIOUS
  <2> QED BY <1>2, <1>3, <2>1, <2>3, <2>4, <2>5, <2>6, <2>7, <2>8, FileStep
<1> QED BY <1>6, <1>7

LEMMA NextAgree == AgreeInv /\ [Next]_vars => AgreeInv'
<1> SUFFICES ASSUME AgreeInv, [Next]_vars PROVE AgreeInv'
  OBVIOUS
<1>1. ASSUME NEW p \in Procs, Step(p) PROVE AgreeInv'
  BY <1>1, StartsAgree, LoadAgrees, OpenAgrees, SaveFailsAgrees, WriteLostAgrees, WriteAgrees, EndsAgree, InitializeAgrees,
     CreateAgrees, RollbackAgrees DEF Step
<1>2. CASE UNCHANGED vars
  BY <1>2 DEF vars, AgreeInv, Types, FilesAgree, WriterAgrees
<1> QED BY <1>1, <1>2 DEF Next

LEMMA Agreement == Spec => []AgreeInv
BY InitAgree, NextAgree, PTL DEF Spec

\* A file nobody contests is loaded as it was confirmed.
LEMMA AgreeKept == AgreeInv => SettingsKept
<1> SUFFICES ASSUME AgreeInv, NEW f \in Files \ contested, file[f] \notin {Absent, Torn},
                    NEW s \in Sections, Given(confirmed[f][s])
             PROVE  loadConfigFile(f) # Failed /\ loadConfigFile(f)[s] = confirmed[f][s]
  BY DEF SettingsKept
<1>1. file[f] \in Texts /\ validateConfig(deepMerge(file[f])) /\ Agrees(file[f], confirmed[f])
  BY DEF AgreeInv, FilesAgree
<1>2. PICK config \in Configs : config = deepMerge(file[f])
  BY <1>1, MergeType
<1>3. loadConfigFile(f) = config
  BY <1>1, <1>2, ConfigurationAssumption DEF loadConfigFile
<1>4. config # Failed
  BY <1>2, ConfigurationAssumption DEF Configs
<1> QED BY <1>1, <1>2, <1>3, <1>4 DEF Agrees

\* For any number of commands that overlap, fail and die, whatever they set or reset: a file that no command has
\* written from an old or an empty version of it says what was confirmed for it (set and reset of ax config).
THEOREM ConfirmedKept == Spec => []SettingsKept
BY Agreement, AgreeKept, PTL

\* A run gets the settings confirmed for its file, or fails, unless it reads an empty YAML file or a contested one
\* (loadConfig).
THEOREM RunsConfigured == Spec => RunsAsConfigured
<1>1. ASSUME AgreeInv, [Next]_vars, runs'.path # Nobody, runs' # runs
      PROVE  \/ runs'.config = Failed
             \/ runs'.torn /\ runs'.path \in Yaml
             \/ runs'.path \in contested
             \/ \A s \in Sections : Given(confirmed[runs'.path][s]) => runs'.config[s] = confirmed[runs'.path][s]
  <2>1. PICK p \in Procs : RunLoads(p)
    <3>1. PICK p \in Procs : Step(p)
      BY <1>1 DEF Next, vars
    <3>2. ~loadConfig(p)
      <4>1. loadConfig(p) => runs' = runs \/ runs' = [path |-> Nobody, config |-> DEFAULT_CONFIG, torn |-> FALSE]
        BY Zenon DEF loadConfig
      <4> QED BY <1>1, <4>1
    <3>3. /\ \A f \in Files, t \in Targets : ~setConfig(p, f, t)
          /\ \A f \in Files : ~resetConfig(p, f)
          /\ \A force \in BOOLEAN : ~initCommand(p, force)
      BY <1>1 DEF setConfig, resetConfig, initCommand
    <3>4. /\ ~Load(p) /\ ~Open(p) /\ ~SaveFails(p) /\ ~Crash(p) /\ ~WriteLost(p)
          /\ \A garbled \in BOOLEAN : ~Write(p, garbled)
      BY <1>1 DEF Load, Open, SaveFails, Crash, Write, WriteLost
    <3>5. /\ \A ok \in BOOLEAN : ~createDirectoryStructure(p, ok) /\ ~copyExamples(p, ok) /\ ~setupClaudeIntegration(p, ok)
          /\ ~createDefaultConfig(p) /\ \A ok \in BOOLEAN : ~RollbackConfig(p, ok)
          /\ \A left \in {"absent", "made", "installed"} : ~RollbackDirs(p, left)
      BY <1>1 DEF createDirectoryStructure, copyExamples, setupClaudeIntegration, createDefaultConfig, RollbackConfig,
         RollbackDirs
    <3> QED BY <3>1, <3>2, <3>3, <3>4, <3>5 DEF Step
  <2>2. PICK f : f = proc[p].path
    OBVIOUS
  <2>3. /\ runs'.path = f /\ runs'.config = loadConfigFile(f) /\ runs'.torn = (file[f] = Torn)
        /\ proc[p].at = "load"
    BY <2>1, <2>2 DEF RunLoads, At
  <2>4. f \in Files
    BY <1>1, <2>2, <2>3 DEF AgreeInv, WellFormed
  <2>5. CASE file[f] \in {Absent, Torn}
    BY <2>3, <2>4, <2>5 DEF loadConfigFile
  <2>6. CASE file[f] \notin {Absent, Torn} /\ f \notin contested
    BY <1>1, <2>3, <2>4, <2>6, AgreeKept DEF SettingsKept
  <2> QED BY <2>3, <2>5, <2>6
<1> QED BY <1>1, Agreement, PTL DEF Spec, RunsAsConfigured

-----------------------------------------------------------------------------
\* ax init.

\* A step leaves the operation of every other command, and mostly how far it is.
Alone(p) == \A q \in Procs \ {p} : proc'[q].op = proc[q].op
Still(p) == \A q \in Procs \ {p} : proc'[q].at = proc[q].at

\* A step of a command that is not an init at work, before or after.
LEMMA BesideWork ==
    ASSUME WholeInv, interrupted => interrupted', NEW p \in Procs, Alone(p), Still(p), ~AtWork(p), ~AtWork(p)',
           dirs' = dirs, There => There'
    PROVE  WholeInv'
<1>1. \A q \in Procs : AtWork(q)' <=> AtWork(q)
  BY DEF Alone, AtWork
<1>2. \A q \in Procs : AtWork(q) => proc'[q].at = proc[q].at
  BY DEF Still
<1> QED BY <1>1, <1>2 DEF WholeInv

\* A step of an init that stays at work.
LEMMA AtWorkStep ==
    ASSUME WholeInv, interrupted => interrupted', NEW p \in Procs, Alone(p), AtWork(p), AtWork(p)',
           proc'[p].at \notin {"idle", "lost"}, proc'[p].at \in {"config", "open", "write", "claude"} => dirs' = "installed",
           proc'[p].at = "claude" => There'
    PROVE  WholeInv'
<1> SUFFICES ASSUME ~interrupted' PROVE WholeInv'
  BY DEF WholeInv
<1>1. \A q \in Procs : AtWork(q) => q = p
  BY DEF WholeInv
<1>2. \A q \in Procs : AtWork(q)' => q = p
  BY <1>1 DEF Alone, AtWork
<1> QED BY <1>2 DEF WholeInv

\* The last step of an init.
LEMMA WorkEnds ==
    ASSUME WholeInv, interrupted => interrupted', NEW p \in Procs, Alone(p), AtWork(p), ~AtWork(p)',
           ~interrupted' => dirs' = "absent" \/ (dirs' = "installed" /\ There')
    PROVE  WholeInv'
<1> SUFFICES ASSUME ~interrupted' PROVE WholeInv'
  BY DEF WholeInv
<1>1. \A q \in Procs : AtWork(q) => q = p
  BY DEF WholeInv
<1>2. \A q \in Procs : ~AtWork(q)'
  BY <1>1 DEF Alone, AtWork
<1> QED BY <1>2 DEF WholeInv

\* What changes when one command changes.
LEMMA OneAlone ==
    ASSUME AgreeInv, NEW p \in Procs, NEW c, proc' = [proc EXCEPT ![p] = c]
    PROVE  Alone(p) /\ Still(p) /\ proc'[p] = c
BY DEF AgreeInv, Types, Alone, Still

LEMMA OthersAlone ==
    ASSUME AgreeInv, NEW p \in Procs, NEW f, NEW c, proc' = [Others(p, f) EXCEPT ![p] = c]
    PROVE  Alone(p) /\ Still(p) /\ proc'[p] = c
<1>1. \A q \in Procs \ {p} :
        proc'[q] = IF proc[q].path = f /\ proc[q].at # "load" THEN [proc[q] EXCEPT !.stale = TRUE] ELSE proc[q]
  BY DEF Others
<1>2. ASSUME NEW q \in Procs \ {p} PROVE proc'[q].op = proc[q].op /\ proc'[q].at = proc[q].at
  <2>1. proc[q] \in Commands
    BY DEF AgreeInv, Types
  <2>2. [proc[q] EXCEPT !.stale = TRUE].op = proc[q].op /\ [proc[q] EXCEPT !.stale = TRUE].at = proc[q].at
    BY <2>1 DEF Commands
  <2> QED BY <1>1, <2>2
<1> QED BY <1>2 DEF Others, Alone, Still

\* A command that is no init starts, goes on or ends, and whatever it does to a file, the file is there.
LEMMA BesideStep ==
    ASSUME AgreeInv, WholeInv, interrupted => interrupted', NEW p \in Procs, Alone(p), Still(p),
           proc[p].op # "init" \/ proc[p].at = "idle", proc'[p].op # "init", dirs' = dirs, There => There'
    PROVE  WholeInv'
<1>1. CASE interrupted'
  BY <1>1 DEF WholeInv
<1>2. CASE ~interrupted'
  <2>1. ~AtWork(p) /\ ~AtWork(p)'
    BY <1>2 DEF WholeInv, AtWork
  <2> QED BY <2>1, BesideWork
<1> QED BY <1>1, <1>2

LEMMA StartsWhole ==
    ASSUME AgreeInv, WholeInv, NEW p \in Procs, NEW c \in Commands, Start(p, c), c.op # "init",
           interrupted' = interrupted
    PROVE  WholeInv'
<1>1. /\ proc[p].at = "idle" /\ dirs' = dirs /\ There' = There
      /\ proc' = [proc EXCEPT ![p] = c]
  BY DEF Start, There
<1>2. Alone(p) /\ Still(p) /\ proc'[p] = c
  BY <1>1, OneAlone
<1> QED BY <1>1, <1>2, BesideStep

\* An init that begins alone is the only one at work, whatever others have left.
LEMMA BeginsWhole ==
    ASSUME AgreeInv, NEW p \in Procs, NEW c \in Commands, Start(p, c), c.op = "init", c.at = "dirs",
           interrupted' = (Initializing # {})
    PROVE  WholeInv'
<1>1. proc' = [proc EXCEPT ![p] = c]
  BY DEF Start
<1>2. Alone(p) /\ proc'[p] = c
  BY <1>1, OneAlone
<1>3. CASE Initializing # {}
  BY <1>3 DEF WholeInv
<1>4. CASE Initializing = {}
  <2>1. \A q \in Procs : AtWork(q)' <=> q = p
    BY <1>2, <1>4 DEF Initializing, AtWork, Alone
  <2> QED BY <1>2, <2>1 DEF WholeInv
<1> QED BY <1>3, <1>4

LEMMA StartWhole ==
    ASSUME AgreeInv, WholeInv, NEW p \in Procs,
           \/ \E f \in Files, t \in Targets : setConfig(p, f, t)
           \/ \E f \in Files : resetConfig(p, f)
           \/ loadConfig(p)
           \/ \E force \in BOOLEAN : initCommand(p, force)
    PROVE  WholeInv'
<1>1. ASSUME NEW f \in Files, NEW t \in Targets, setConfig(p, f, t) PROVE WholeInv'
  <2> DEFINE c == [Idle EXCEPT !.op = "set", !.at = "load", !.path = f, !.target = t]
  <2>1. c \in Commands /\ c.op = "set"
    BY DEF Idle, Commands
  <2>2. Start(p, c)
    BY <1>1 DEF setConfig
  <2>3. interrupted' = interrupted
    BY <1>1 DEF setConfig
  <2> HIDE DEF c
  <2> QED BY <2>1, <2>2, <2>3, StartsWhole
<1>2. ASSUME NEW f \in Files, NEW o \in {"reset", "run"}, interrupted' = interrupted,
             Start(p, [Idle EXCEPT !.op = o, !.at = "load", !.path = f])
      PROVE WholeInv'
  <2>1. PICK c \in Commands : /\ c = [Idle EXCEPT !.op = o, !.at = "load", !.path = f]
                              /\ c.op = o /\ c.at = "load" /\ c.path = f
    BY FileCommand
  <2>2. Start(p, c)
    BY <1>2, <2>1
  <2> QED BY <1>2, <2>1, <2>2, StartsWhole
<1>3. ASSUME Start(p, Idle), interrupted' = interrupted PROVE WholeInv'
  BY <1>3, IdleCommand, StartsWhole
<1>4. ASSUME NEW b \in BOOLEAN, initCommand(p, b) PROVE WholeInv'
  <2>1. PICK c \in Commands : /\ c = [Idle EXCEPT !.op = "init", !.at = "dirs", !.force = b]
                              /\ c.op = "init" /\ c.at = "dirs"
    BY InitCommand
  <2>2. Start(p, c) /\ interrupted' = (Initializing # {})
    BY <1>4, <2>1 DEF initCommand
  <2> QED BY <2>1, <2>2, BeginsWhole
<1>5. ASSUME loadConfig(p) PROVE WholeInv'
  BY <1>2, <1>3, <1>5, ThereFiles DEF loadConfig
<1>6. ASSUME NEW f \in Files, resetConfig(p, f) PROVE WholeInv'
  BY <1>2, <1>6 DEF resetConfig
<1> QED BY <1>1, <1>4, <1>5, <1>6

LEMMA LoadWhole ==
    ASSUME AgreeInv, WholeInv, NEW p \in Procs, Load(p) \/ RunLoads(p)
    PROVE  WholeInv'
<1>1. proc[p].op # "init" /\ UNCHANGED <<file, dirs, interrupted>>
  BY DEF Load, RunLoads, At
<1>2. Alone(p) /\ Still(p) /\ proc'[p].op # "init"
  <2>1. CASE proc' = [proc EXCEPT ![p] = Idle]
    BY <2>1, OneAlone, IdleCommand
  <2>2. CASE proc' # [proc EXCEPT ![p] = Idle]
    <3>1. PICK new, stale : proc' = [proc EXCEPT ![p].at = "open", ![p].new = new, ![p].stale = stale]
      <4>1. Load(p)
        BY <2>2 DEF RunLoads
      <4>2. proc' = [proc EXCEPT ![p].at = "open",
                         ![p].new = Written(IF proc[p].op = "reset" THEN DEFAULT_CONFIG
                                            ELSE setNestedValue(loadConfigFile(proc[p].path), proc[p].target)),
                         ![p].stale = (file[proc[p].path] = Torn)]
        BY <2>2, <4>1 DEF Load
      <4> QED BY <4>2
    <3> DEFINE c == [proc[p] EXCEPT !.at = "open", !.new = new, !.stale = stale]
    <3>2. proc' = [proc EXCEPT ![p] = c]
      BY <3>1
    <3>3. c.op = proc[p].op
      BY DEF AgreeInv, Types, Commands
    <3> HIDE DEF c
    <3> QED BY <1>1, <3>2, <3>3, OneAlone
  <2> QED BY <2>1, <2>2
<1> QED BY <1>1, <1>2, BesideStep DEF There

\* A file that is written is there.
LEMMA StaysThere ==
    ASSUME AgreeInv, NEW f, NEW x, x # Absent, file' = [file EXCEPT ![f] = x]
    PROVE  There => There'
BY ConfigurationAssumption DEF AgreeInv, Types, There

LEMMA OpenWhole ==
    ASSUME AgreeInv, WholeInv, NEW p \in Procs, Open(p)
    PROVE  WholeInv'
<1>1. PICK f : f = proc[p].path
  OBVIOUS
<1>2. proc[p].at = "open" /\ file' = [file EXCEPT ![f] = Torn] /\ dirs' = dirs /\ interrupted' = interrupted
  BY <1>1 DEF Open
<1>3. There => There'
  BY <1>2, StaysThere, ConfigurationAssumption
<1>4. f \in Files /\ Types /\ proc[p] \in Commands
  BY <1>1, <1>2 DEF AgreeInv, WellFormed, Types
<1>5. PICK stale : proc' = [Others(p, f) EXCEPT ![p].at = "write", ![p].stale = stale]
  BY <1>1 DEF Open
<1>6. PICK c : c = [proc[p] EXCEPT !.at = "write", !.stale = stale]
  OBVIOUS
<1>7. proc' = [Others(p, f) EXCEPT ![p] = c]
  BY <1>4, <1>5, <1>6, OthersType
<1>8. c.at = "write" /\ c.op = proc[p].op
  BY <1>4, <1>6 DEF Commands
<1>9. Alone(p) /\ Still(p) /\ proc'[p] = c
  BY <1>7, OthersAlone
<1>10. CASE proc[p].op # "init"
  BY <1>2, <1>3, <1>8, <1>9, <1>10, BesideStep
<1>11. CASE proc[p].op = "init" /\ ~interrupted
  <2>1. AtWork(p) /\ AtWork(p)'
    BY <1>2, <1>8, <1>9, <1>11 DEF AtWork
  <2>2. dirs' = "installed"
    BY <1>2, <1>11, <2>1 DEF WholeInv
  <2> QED BY <1>2, <1>8, <1>9, <2>1, <2>2, AtWorkStep
<1>12. CASE interrupted
  BY <1>2, <1>12 DEF WholeInv
<1> QED BY <1>10, <1>11, <1>12

LEMMA WriteWhole ==
    ASSUME AgreeInv, WholeInv, NEW p \in Procs, NEW garbled \in BOOLEAN, Write(p, garbled)
    PROVE  WholeInv'
<1>1. PICK f, x : f = proc[p].path /\ x = IF garbled THEN Garbled ELSE proc[p].new
  OBVIOUS
<1>2. proc[p].at = "write" /\ file' = [file EXCEPT ![f] = x] /\ dirs' = dirs /\ interrupted' = interrupted
  BY <1>1 DEF Write
<1>3. WellFormed(proc[p]) /\ Types /\ proc[p] \in Commands /\ f \in Files
  BY <1>1, <1>2 DEF AgreeInv, WellFormed, Types
<1>4. x # Absent
  BY <1>1, <1>2, <1>3, ConfigurationAssumption DEF WellFormed, Writing
<1>5. There => There'
  BY <1>2, <1>4, StaysThere
<1>6. PICK c : c = Done(p)
  OBVIOUS
<1>7. proc' = [Others(p, f) EXCEPT ![p] = c]
  BY <1>1, <1>6 DEF Write
<1>8. Alone(p) /\ Still(p) /\ proc'[p] = c
  BY <1>7, OthersAlone
<1>9. CASE proc[p].op # "init"
  BY <1>2, <1>3, <1>5, <1>6, <1>8, <1>9, DoneCommand, IdleCommand, BesideStep
<1>10. CASE proc[p].op = "init" /\ ~interrupted
  <2>1. c.at = "claude" /\ c.op = "init"
    BY <1>3, <1>6, <1>10, DoneCommand
  <2>2. AtWork(p) /\ AtWork(p)'
    BY <1>2, <1>8, <1>10, <2>1 DEF AtWork
  <2>3. dirs' = "installed"
    BY <1>2, <1>10, <2>2 DEF WholeInv
  <2>4. There'
    <3>1. f = ProjectConfig
      BY <1>1, <1>2, <1>3, <1>10 DEF WellFormed, Writing
    <3> QED BY <1>2, <1>3, <1>4, <3>1 DEF There, Types
  <2> QED BY <1>2, <1>8, <2>1, <2>2, <2>3, <2>4, AtWorkStep
<1>11. CASE interrupted
  BY <1>2, <1>11 DEF WholeInv
<1> QED BY <1>9, <1>10, <1>11

\* An init that fails goes on to its rollback, or ends.
LEMMA FailsWhole ==
    ASSUME AgreeInv, WholeInv, NEW p \in Procs, AtWork(p), proc[p].at # "idle", proc' = Fails(p),
           UNCHANGED <<file, dirs>>, interrupted => interrupted',
           proc[p].force => interrupted' \/ dirs = "absent"
    PROVE  WholeInv'
<1>1. CASE proc[p].force
  <2>1. proc' = [proc EXCEPT ![p] = Idle]
    BY <1>1 DEF Fails
  <2>2. Alone(p) /\ ~AtWork(p)'
    BY <2>1, OneAlone, IdleCommand DEF AtWork
  <2> QED BY <1>1, <2>2, WorkEnds
<1>2. CASE ~proc[p].force
  <2>1. PICK c \in Commands : c = [proc[p] EXCEPT !.at = "rollback"] /\ c.at = "rollback" /\ c.op = proc[p].op
    BY FailsCommand DEF AgreeInv, Types
  <2>2. proc' = [proc EXCEPT ![p] = c]
    BY <1>2, <2>1 DEF Fails
  <2>3. Alone(p) /\ Still(p) /\ proc'[p] = c
    BY <2>2, OneAlone
  <2>4. AtWork(p)'
    BY <2>1, <2>3 DEF AtWork
  <2> QED BY <2>1, <2>3, <2>4, AtWorkStep
<1> QED BY <1>1, <1>2

LEMMA SaveFailsWhole ==
    ASSUME AgreeInv, WholeInv, NEW p \in Procs, SaveFails(p)
    PROVE  WholeInv'
<1>1. proc[p].at # "idle" /\ UNCHANGED <<file, dirs>>
  BY DEF SaveFails
<1>2. CASE proc[p].op = "init"
  <2>1. proc' = Fails(p) /\ (interrupted => interrupted') /\ (proc[p].force => interrupted')
    BY <1>2 DEF SaveFails
  <2>2. AtWork(p)
    BY <1>1, <1>2 DEF AtWork
  <2> QED BY <1>1, <2>1, <2>2, FailsWhole
<1>3. CASE proc[p].op # "init"
  <2>1. proc' = [proc EXCEPT ![p] = Idle] /\ (interrupted => interrupted')
    BY <1>3 DEF SaveFails
  <2>2. Alone(p) /\ Still(p) /\ proc'[p].op = "none"
    BY <2>1, OneAlone, IdleCommand
  <2> QED BY <1>1, <1>3, <2>1, <2>2, BesideStep DEF There
<1> QED BY <1>2, <1>3

LEMMA LostWhole ==
    ASSUME AgreeInv, WholeInv, NEW p \in Procs, WriteLost(p)
    PROVE  WholeInv'
<1>1. /\ proc[p].at = "lost" /\ proc' = [proc EXCEPT ![p] = Done(p)] /\ UNCHANGED <<file, dirs, interrupted>>
      /\ proc[p] \in Commands
  BY DEF WriteLost, AgreeInv, Types
<1>2. CASE interrupted
  BY <1>1, <1>2 DEF WholeInv
<1>3. CASE ~interrupted
  <2>1. proc[p].op # "init"
    BY <1>1, <1>3 DEF WholeInv, AtWork
  <2>2. Alone(p) /\ Still(p) /\ proc'[p].op = "none"
    BY <1>1, <2>1, DoneCommand, OneAlone, IdleCommand
  <2> QED BY <1>1, <2>1, <2>2, BesideStep DEF There
<1> QED BY <1>2, <1>3

LEMMA CrashWhole ==
    ASSUME AgreeInv, WholeInv, NEW p \in Procs, Crash(p)
    PROVE  WholeInv'
<1>1. CASE proc[p].op = "init"
  BY <1>1 DEF Crash, WholeInv
<1>2. CASE proc[p].op # "init"
  <2>1. proc' = [proc EXCEPT ![p] = Idle] /\ (interrupted => interrupted') /\ UNCHANGED <<file, dirs>>
    BY <1>2 DEF Crash
  <2>2. Alone(p) /\ Still(p) /\ proc'[p].op = "none"
    BY <2>1, OneAlone, IdleCommand
  <2> QED BY <1>2, <2>1, <2>2, BesideStep DEF There
<1> QED BY <1>1, <1>2

LEMMA DirectoriesWhole ==
    ASSUME AgreeInv, WholeInv, NEW p \in Procs, NEW ok \in BOOLEAN, createDirectoryStructure(p, ok)
    PROVE  WholeInv'
<1>1. AtWork(p) /\ UNCHANGED file /\ interrupted' = (interrupted \/ ~ok) /\ proc[p] \in Commands
  BY DEF createDirectoryStructure, At, AtWork, AgreeInv, Types
<1>2. CASE ~ok
  BY <1>1, <1>2 DEF WholeInv
<1>3. CASE ok
  <2>1. PICK c : c = [proc[p] EXCEPT !.at = "install", !.created = {"dirs"}]
    OBVIOUS
  <2>2. proc' = [proc EXCEPT ![p] = c]
    BY <1>3, <2>1 DEF createDirectoryStructure
  <2>3. c.at = "install" /\ c.op = proc[p].op
    BY <1>1, <2>1 DEF Commands
  <2>4. Alone(p) /\ proc'[p] = c
    BY <2>2, OneAlone
  <2>5. AtWork(p)'
    BY <1>1, <2>3, <2>4 DEF AtWork
  <2> QED BY <1>1, <2>3, <2>4, <2>5, AtWorkStep
<1> QED BY <1>2, <1>3

LEMMA InstallWhole ==
    ASSUME AgreeInv, WholeInv, NEW p \in Procs, NEW ok \in BOOLEAN, copyExamples(p, ok)
    PROVE  WholeInv'
<1>1. AtWork(p) /\ proc[p].at = "install" /\ UNCHANGED file /\ (interrupted => interrupted') /\ proc[p] \in Commands
  BY DEF copyExamples, At, AtWork, AgreeInv, Types
<1>2. CASE ok /\ dirs # "absent"
  <2>1. PICK c : c = [proc[p] EXCEPT !.at = "config"]
    OBVIOUS
  <2>2. proc' = [proc EXCEPT ![p] = c] /\ dirs' = "installed"
    BY <1>2, <2>1 DEF copyExamples, Continue
  <2>3. c.at = "config" /\ c.op = proc[p].op
    BY <1>1, <2>1 DEF Commands
  <2>4. Alone(p) /\ Still(p) /\ proc'[p] = c
    BY <2>2, OneAlone
  <2>5. AtWork(p)'
    BY <1>1, <2>3, <2>4 DEF AtWork
  <2> QED BY <1>1, <2>2, <2>3, <2>4, <2>5, AtWorkStep
<1>3. CASE ~(ok /\ dirs # "absent")
  <2>1. proc' = Fails(p) /\ dirs' = dirs /\ (proc[p].force => interrupted' \/ dirs = "absent")
    BY <1>3 DEF copyExamples
  <2> QED BY <1>1, <2>1, FailsWhole
<1> QED BY <1>2, <1>3

LEMMA CreateWhole ==
    ASSUME AgreeInv, WholeInv, NEW p \in Procs, createDefaultConfig(p)
    PROVE  WholeInv'
<1>1. /\ AtWork(p) /\ proc[p].at = "config" /\ UNCHANGED <<file, dirs>> /\ interrupted' = interrupted
      /\ proc[p] \in Commands
  BY DEF createDefaultConfig, At, AtWork, AgreeInv, Types
<1>2. CASE interrupted
  BY <1>1, <1>2 DEF WholeInv
<1>3. CASE ~interrupted
  <2>1. dirs' = "installed"
    BY <1>1, <1>3 DEF WholeInv
  <2>2. PICK c : c = IF file[ProjectConfig] # Absent /\ ~proc[p].force
                     THEN [proc[p] EXCEPT !.at = "claude", !.created = @ \union {"config"}]
                     ELSE [proc[p] EXCEPT !.at = "open", !.path = ProjectConfig, !.new = DEFAULT_CONFIG]
    OBVIOUS
  <2>3. proc' = [proc EXCEPT ![p] = c]
    BY <1>1, <2>2 DEF createDefaultConfig
  <2>4. /\ c.op = proc[p].op /\ c.at \in {"claude", "open"}
        /\ c.at = "claude" => There
    <3>1. CASE file[ProjectConfig] # Absent /\ ~proc[p].force
      BY <1>1, <2>2, <3>1 DEF Commands, There
    <3>2. CASE ~(file[ProjectConfig] # Absent /\ ~proc[p].force)
      BY <1>1, <2>2, <3>2 DEF Commands
    <3> QED BY <3>1, <3>2
  <2>5. Alone(p) /\ Still(p) /\ proc'[p] = c
    BY <2>3, OneAlone
  <2>6. AtWork(p)'
    BY <1>1, <2>4, <2>5 DEF AtWork
  <2>7. c.at = "claude" => There'
    BY <1>1, <2>4 DEF There
  <2> QED BY <1>1, <2>1, <2>4, <2>5, <2>6, <2>7, AtWorkStep
<1> QED BY <1>2, <1>3

LEMMA ClaudeWhole ==
    ASSUME AgreeInv, WholeInv, NEW p \in Procs, NEW ok \in BOOLEAN, setupClaudeIntegration(p, ok)
    PROVE  WholeInv'
<1>1. AtWork(p) /\ proc[p].at = "claude" /\ UNCHANGED <<file, dirs>> /\ (interrupted => interrupted')
  BY DEF setupClaudeIntegration, At, AtWork
<1>2. CASE ok
  <2>1. proc' = [proc EXCEPT ![p] = Idle]
    BY <1>2 DEF setupClaudeIntegration
  <2>2. Alone(p) /\ ~AtWork(p)'
    BY <2>1, OneAlone, IdleCommand DEF AtWork
  <2>3. ~interrupted' => dirs' = "installed" /\ There'
    BY <1>1 DEF WholeInv, There
  <2> QED BY <1>1, <2>2, <2>3, WorkEnds
<1>3. CASE ~ok
  <2>1. proc' = Fails(p) /\ (proc[p].force => interrupted')
    BY <1>3 DEF setupClaudeIntegration
  <2> QED BY <1>1, <2>1, FailsWhole
<1> QED BY <1>2, <1>3

LEMMA RollbackWhole ==
    ASSUME AgreeInv, WholeInv, NEW p \in Procs,
           \/ \E ok \in BOOLEAN : RollbackConfig(p, ok)
           \/ \E left \in {"absent", "made", "installed"} : RollbackDirs(p, left)
    PROVE  WholeInv'
<1>1. ASSUME NEW ok \in BOOLEAN, RollbackConfig(p, ok) PROVE WholeInv'
  <2>1. AtWork(p) /\ proc[p].at = "rollback" /\ interrupted' = interrupted /\ proc[p] \in Commands /\ Types
    BY <1>1 DEF RollbackConfig, At, AtWork, AgreeInv, Types
  <2>2. PICK c : c = [proc[p] EXCEPT !.created = @ \ {"config"}]
    OBVIOUS
  <2>3. c.at = "rollback" /\ c.op = proc[p].op
    BY <2>1, <2>2 DEF Commands
  <2>4. Alone(p) /\ proc'[p] = c
    <3>1. CASE ~ok
      <4>1. proc' = [proc EXCEPT ![p] = c]
        BY <1>1, <2>2, <3>1 DEF RollbackConfig
      <4> QED BY <4>1, OneAlone
    <3>2. CASE ok
      <4>1. proc' = [q \in Procs |-> IF q = p THEN c
                                    ELSE IF proc[q].at = "write" /\ proc[q].path = ProjectConfig
                                    THEN [proc[q] EXCEPT !.at = "lost"] ELSE Others(p, ProjectConfig)[q]]
        BY <1>1, <2>2, <3>2 DEF RollbackConfig
      <4>2. ASSUME NEW q \in Procs
            PROVE  [proc[q] EXCEPT !.at = "lost"].op = proc[q].op /\ Others(p, ProjectConfig)[q].op = proc[q].op
        <5>1. proc[q] \in Commands
          BY <2>1 DEF Types
        <5> QED BY <5>1 DEF Others, Commands
      <4> QED BY <4>1, <4>2 DEF Alone
    <3> QED BY <3>1, <3>2
  <2>5. AtWork(p)'
    BY <2>1, <2>3, <2>4 DEF AtWork
  <2> QED BY <2>1, <2>3, <2>4, <2>5, AtWorkStep
<1>2. ASSUME NEW left \in {"absent", "made", "installed"}, RollbackDirs(p, left) PROVE WholeInv'
  <2>1. /\ AtWork(p) /\ proc' = [proc EXCEPT ![p] = Idle] /\ dirs' = left
        /\ interrupted' = (interrupted \/ left # "absent")
    BY <1>2 DEF RollbackDirs, At, AtWork
  <2>2. Alone(p) /\ ~AtWork(p)'
    BY <2>1, OneAlone, IdleCommand DEF AtWork
  <2> QED BY <2>1, <2>2, WorkEnds
<1> QED BY <1>1, <1>2

LEMMA NextWhole == AgreeInv /\ WholeInv /\ [Next]_vars => WholeInv'
<1> SUFFICES ASSUME AgreeInv, WholeInv, [Next]_vars PROVE WholeInv'
  OBVIOUS
<1>1. ASSUME NEW p \in Procs, Step(p) PROVE WholeInv'
  BY <1>1, StartWhole, LoadWhole, OpenWhole, SaveFailsWhole, LostWhole, WriteWhole, CrashWhole, DirectoriesWhole, InstallWhole,
     CreateWhole, ClaudeWhole, RollbackWhole DEF Step
<1>2. CASE UNCHANGED vars
  BY <1>2 DEF vars, WholeInv, AtWork, There
<1> QED BY <1>1, <1>2 DEF Next

\* However inits and other commands overlap: once .automatosx is there and no init is at work, it is complete and the
\* configuration file is there, unless since an init last began alone one has died or met another, has failed when it
\* was forced or while it made the directories, or could not remove them (ax init).
THEOREM InitWhole == Spec => []InitializedWhole
<1>1. Init => WholeInv
  BY IdleCommand DEF Init, WholeInv, AtWork
<1>2. WholeInv => InitializedWhole
  BY DEF WholeInv, InitializedWhole, Initializing, AtWork, There
<1> QED BY <1>1, <1>2, NextWhole, Agreement, PTL DEF Spec
=============================================================================
