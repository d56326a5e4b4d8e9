# AutomatosX in TLA+

AutomatosX (`ax`) runs AI agents: profiles in YAML whose prompts are given to the
command line tools of AI vendors (`claude`, `gemini`, `codex`). Agents have stages
with checkpoints, ask each other for help, share sessions and a memory. It is one
TypeScript program, started once per command or kept running as an MCP server;
everything in a process runs on one event loop, so what can interleave are
callbacks, timers, child processes and whatever happens at an `await`, and between
processes the files they share. This directory holds TLA+ modules of that program,
TLC configurations that check them, and TLAPS proofs.

All paths below are relative to the repository, `src/...` being its TypeScript
sources (`src/src/...` in `PROJECT.json`).

## 1. Inventory

| Component | State | Operations | Hard behaviour | What makes it correct |
|---|---|---|---|---|
| Stage execution and checkpoints (`core/stage-execution-controller.ts`, `core/checkpoint-manager.ts`, `core/prompt-manager.ts`, `cli/commands/resume.ts`, `runs.ts`) | stage states, results, previous outputs, loop index; `checkpoint.json` and `metadata.json` on disk | execute, resume, retry, skip, modify, abort, save, load, delete | a process dies in any step, file operations fail, users answer, another process resumes or deletes | order of stages, checkpoints that can be resumed from, nothing done twice, every run recorded |
| Sessions (`core/session-manager.ts`, `cli/commands/session.ts`) | table of sessions, debounce timer, pending save; `sessions.json` | create, join, complete, fail, cleanup, save, destroy | debounced saves that overlap, several processes, the await in `createSession` | file never torn, nothing saved is lost, bounded table, active sessions go last |
| Parallel execution (`agents/parallel-agent-executor.ts`, `dependency-graph.ts`, `execution-planner.ts`) | graph, levels, batches, status and timeline of agents | build graph, plan, run batches, give up, abort | failures beside running peers, an abort at any moment | an agent starts behind its completed dependencies, limits hold, independent work is done |
| Providers (`providers/*.ts`) | failures, circuit breaker, places in use, response cache, child processes | execute with retries and delays, time out, abort, health | calls that fail and succeed side by side, timers, processes that outlive their call | the breaker opens and closes, no process is forgotten, every call ends |
| Router (`core/router.ts`) | penalties, health checks | route with fallback, select, destroy | lists that are old when used | every call ends |
| Delegation (`agents/executor.ts`, `delegation-parser.ts`, `context-manager.ts`, `cli/commands/run.ts`) | runs in progress, chain, session | execute, time out, delegate one by one or as a graph, exit | refusals, failures and timeouts somewhere in a tree of runs | every request answered, bounded depth, a failure stays where it is |
| Memory (`core/memory-manager.ts`, `mcp/tools/*memory*.ts`, `cli/commands/memory.ts`) | a SQLite table; in each process a counter of its entries | add, search, update, delete, clear, clean up, back up, restore, export, import | awaits between reading and writing, several processes, clean-ups that fail or are overtaken | the counter is exact, the limit is kept, updates last, a refused import costs nothing |
| Response cache (`core/response-cache.ts`, `cli/commands/cache.ts`) | an LRU cache in each process, a SQLite table behind all of them | get, set, promote, evict, expire, clear | two levels that disagree, evictions of two processes, writes that fail or come late | no older response than before, what was cleared stays cleared, evictions spare what they mean to keep |
| Profiles and abilities (`agents/profile-loader.ts`, `abilities-manager.ts`, `core/cache.ts`, `cli/commands/agent/`) | two caches with limits on number and size; a map of display names | load, resolve a name, suggest, evict, expire, create, remove | a map that is built lazily, once, across awaits, while files come and go; replacement at the limit | a name means what it has meant; sizes add up |
| MCP server (`mcp/server.ts`) | input buffer, requests in progress, services | frame, dispatch, initialize, answer, exit | handlers that overlap on one buffer, chunks that end anywhere | requests are taken in order, answered once, by services made once |
| Configuration (`core/config.ts`, `utils/deep-merge.ts`, `cli/commands/config.ts`, `init.ts`) | up to four files, in YAML or JSON | load, merge, validate, set, reset, init with rollback | files written in place, commands that overlap or die, an init that fails half way | settings stay, an init leaves all or nothing, runs use what was set |
| Timeouts, retry, shutdown (`core/timeout-manager.ts`, `utils/retry.ts`, `utils/graceful-shutdown.ts`) | timers, handlers | resolve, warn | decides nothing | |
| Workspace, paths, provider detection, integrations, embeddings, logging | none that decisions depend on | | | |

How they interact: `ax run` makes the managers, a context (`ContextManager`: profile,
provider from the router, session, abilities, memory) and either a
`StageExecutionController`, which calls `AgentExecutor.execute` once per stage, or the
executor itself. The executor calls the provider of the context, looks for delegations
in its answer, and takes them up through itself or `ParallelAgentExecutor`, which calls
the provider directly. `ax resume` reads a checkpoint back. The MCP server keeps one
set of managers for all requests, so there several runs share providers, sessions,
profiles and one memory manager. Commands and server share `sessions.json`, the two
databases, checkpoints, profiles and configuration as files.

The hazards this code is exposed to are listed with their lines in `PROJECT.json`
(`hazards`), each with the properties that would catch it, or with the reason why
none does.

## 2. Modules

| Module | Models | Uses |
|---|---|---|
| `StageRun`, `MCStageRun`, `StageRunProofs` | one run of a multi-stage agent and its checkpoint directory | |
| `SessionStore`, `SessionProofs` | how the session table gets to disk | |
| `SessionTable`, `MCSessionTable` | who is in the session table; its proofs are in `SessionProofs` | |
| `TaskGraph` | abstract: what the execution of agents that depend on each other promises | |
| `ParallelExecution`, `MCParallelExecution`, `ParallelExecutionProofs` | graph, levels, plan, batches | implements `TaskGraph` |
| `Provider` | `BaseProvider.execute` and the CLI child processes | |
| `Router`, `MCRouter`, `RouterProofs` | routing over several providers | extends `Provider` |
| `Delegation`, `MCDelegation`, `DelegationProofs` | runs that delegate to runs, from `ax run` to its exit | steps of `TaskGraph`, `Subsequences` |
| `Memory`, `MCMemory`, `MemoryProofs` | the memory table and the managers on it | |
| `ResponseCache`, `MCResponseCache` | two levels of cached responses; its proofs are in `RouterProofs` | |
| `TTLCache` | operators: the cache in memory of `core/cache.ts` | `Subsequences` |
| `Subsequences` | operators: the elements of a sequence at some places, in their order | |
| `Profiles`, `MCProfiles` | profiles, display names, abilities, agent commands; its proofs are in `DelegationProofs` | `TTLCache`, once for each cache |
| `McpServer`, `MCMcpServer`, `McpServerProofs` | framing, dispatch and answers of the server | |
| `Configuration`, `MCConfiguration`, `ConfigurationProofs` | configuration files and the commands on them | |

### StageRun

`run[p]` is what process `p` has in memory (`Memory`): where it stands (`pc`), the mode
it was started with, the loop index `cur`, the stage states (`status`, `res`,
`retries`), `previousOutputs` (`outputs`), `failedStageIndex` (`failed`) and what the
save in progress was called with; the disk has `checkpoint.json` (`ckpt`) and
`metadata.json` (`meta`), each absent, torn, complete or mixed, when two processes have
written over each other, and `opened` says which processes hold one of them open. Actions are the
steps of the loop of `execute`: `BeginStage`, an attempt of `executeStage` that fails,
succeeds or throws, the answers to a failure, `saveCheckpoint` in five steps (open and
write of either file, then the directories behind them), the prompt between stages with
its answers, the final save. `SaveFails` makes any file operation throw, into the catch
block that the code has there; `Crash` ends the process anywhere. `ax resume`
(`resumeCommand`) loads the checkpoint, loads it once more (`Resume`), may ask the user
to confirm, and goes on with what it has loaded. Neither load looks whether another
process is at work on the run: two processes that are take turns in any order, and
`beside` remembers which those were. `ax runs delete` removes the directory, in steps, also under a run in
progress. Texts are the stage they belong to; a modified description is such a text, so
the answer "modify" is `ContinueStage`.

### SessionStore and SessionTable

The session manager is two modules because its two difficulties are independent:
how the table gets to disk does not depend on what is in it. `SessionStore` sees the
table as the set of changes that made it and follows the debounce timer, the steps of
`doSave`, and files as inodes, so that a save that holds the temporary file open
writes to whatever that inode is called by then; its processes are servers and
`ax session` commands, which exit without waiting for a save. Any number of saves may
be in progress, of one process or of several; a process starts with what is stored or,
when the file cannot be read, with an empty table. Histories mark what then goes
wrong: `shared` the temporary files that two saves had at once, `blind` the processes
whose table is no longer, or never was, that of the file, and `stale` the saves that
write such a table. `SessionTable` sees no
disk: it has the sessions with their status and agents, their order of use, the two
cleanups and the `await` between the cleanup and the insertion in `createSession`.

### TaskGraph and ParallelExecution

`ParallelExecution` computes levels pass by pass as `calculateLevels` does, looks for
cycles, and runs level after level, batch after batch; agents of a batch complete or
fail in any order, an abort comes at any moment. `TaskGraph` is the promise behind it:
an agent is started once, only when all it depends on has completed, ends once, and
what was given up is never taken up. The refinement is the identity on `deps` and
`status`; what is to show is that levels, batches and cancellation never do what the
abstract graph forbids.

### Provider and Router

A call passes through checks, an attempt (a child process or a cached response), the
delay before another attempt, and its end. Side by side with it run the process
itself, the breaker's timers, aborts and health checks. Time is not modelled: a timer
that has been set may fire. Several calls share a provider; its failure counter, its
places and its breaker are shared with them. `Router` adds the two ways a call gets a
provider: `Router.execute` with fallback and penalties, and `selectProvider`, which
the executor uses.

### Delegation

Runs are a stack, the user's run at the bottom, because a run that delegates one by
one waits for each delegation; a graph of agents is only ever on top. A run asks its
provider, its answer mentions agents, `Parse` keeps the mentions that are delegations,
and they are taken up one by one or as a graph. `Delegate` is `delegateToAgent` up to
the context, whose making (`StartRun`, `StartFails`) looks the session up again.
An agent has two names, that of its profile's file and the one its profile gives
(`NameOf`): requests and results are by the first, chains and the nodes of a graph by
the second, and each lookup is made with the name the code has at hand. `GraphStep` is a
step of `TaskGraph` over the nodes. Around them `ax run` checks its arguments, makes
the first context, ends on its own timeout or error and exits, which ends everything
else in its process; for another caller (the MCP server) the process lives on. The
timeout of the user's run, and sessions that others complete or remove, happen
meanwhile.

### Memory

The table is a function from ids to entries; an entry keeps its content, the fields
that updates gave its metadata (`meta`), those among them that were acknowledged
(`acked`) and the number of searches that found it. Each process has `open`, `count`
and what its configuration allows (`Limit`, `Headroom`, the thresholds and the strategy
of clean-ups). A call (`calls[c]`) is where its method waits: a clean-up between its
`await` and the insertion, `update` between reading and writing, `delete`, `clear`,
`restore` between the closing of the database and its copy, an import that reads, hashes
and adds entry by entry. What a transaction does is one step. `foreign[p]` records that
another process has changed the table since `p` counted it.

### ResponseCache

`l1[p]` is the LRU order of a process, `l2` the table. A response is its stamp, which
orders them by the time `set` took; `horizon` is what has expired. `set` writes L1 and
then L2, counts the rows and evicts in a step of its own, since other processes come
between; statements may fail, processes restart, and `ax cache` opens the table, does
one thing and closes it.

### Profiles

`local` are the local profiles, `displayNameMap` the display names; `cache` (profiles) and
`texts` (abilities) are two caches of `TTLCache`, whose operators are the methods of the
class with its running total. A call of `createContext` goes through `loadProfile`, the reading of
the directories, the map, and the abilities one by one, giving way to the others at
every await. An identifier that is not allowed as the name of a file (`Refused`; a space is
enough) fails in `getProfilePath`, before any file and the map are looked at. `past` are the local files as they have been since the process started,
which is what an identifier may have meant.

### McpServer

The input is a sequence of headers and two halves of bodies. A chunk takes any number of
them and may end within a character, which makes the body longer than its header says and
sets `unframed`. Every chunk starts a run of the data handler, which takes messages out of
`buffer` by `contentLength` and waits for its request; `working` are the requests that
runs wait for, `initialization` is the promise of the services, `responses` what has been
written.

### Configuration

A command is a process that reads, changes and writes a file in steps: `Torn` is a file
that has been opened for writing and not written. `set`, `reset`, `init` with its
rollback and commands that only load are actions over `loadConfigFile`, which merges with
the defaults (`deepMerge`), where `null` disables a section, and validates. History
variables record what users were told is set (`confirmed`), which files commands wrote
from an old version (`contested`), and what users had put there (`users`).
Every step of a command may fail or be the last of its process. What a rollback cannot
remove stays, whole or in part; what is written to a file that was removed meanwhile is
lost with it (`WriteLost`); `interrupted` records what an init could not undo.

## 3. What TLC checks

All runs finish within five minutes on two cores.

| Run | Properties | Bounds |
|---|---|---|
| `stage_run` | `StageOrder`, `CheckpointPrefixSettled`, `MetadataInStep`, `NoRepeat`, `CompletedStays`, `EndsRecorded` | 2 stages, one automatic retry, one by the user, two processes one after the other or side by side, one deletion, crashes and failing file operations |
| `session_store` | `FileIntact`, `NoRollback`, `EventuallySaved` | two servers restarted at will and an `ax session` command, 2 changes, two saves at once, crashes and failing file operations |
| `session_table` | `BoundedExcess`, `ActiveGoLast` | 4 session IDs, a table for one, two calls of `createSession` at once |
| `parallel_execution` | `ConcurrencyBounded`, `IndependentWorkDone`, `NothingStartedLate`, `ImplementsTasks`, `ExecuteReturns` | every graph of 4 agents with up to 4 dependencies, one of them perhaps unknown; two at once, one agent that runs alone |
| `provider_calls` | `BreakerHasTimer`, `FailingIsCutOff`, `NoProcessLeftRunning`, `CallsEnd` | two providers, two calls of the same prompt, two attempts, a breaker that opens at two failures |
| `delegation` | `AnsweredInFull`, `DelegationBounded`, `FailureContained`, `RunReturns` | four agents, two of which depend on each other, one of which has a broken profile and one the name of another, answers with up to two mentions of two tasks |
| `memory` | `CounterExact`, `UpdatesStay`, `LimitKept`, `RefusedImportSpares` | a server with two callers and an `ax memory` command, 4 entries, 4 calls |
| `response_cache` | `NoGoingBack`, `ClearedStaysCleared`, `EvictionSparing` | two processes and an `ax cache` command, 3 keys, 3 responses, a table for two, one of which an eviction keeps, and one response in memory |
| `profiles` | `ResolvedAsMeant`, `SizesCounted` | two calls, two `ax agent` commands, three agents and two display names, one agent and one display name with a space, one profile and two of three abilities in the caches, two starts, one expiry |
| `mcp_server` | `StartedInOrder`, `AnsweredOnce`, `InitializedForAll`, `Answered` | six scripts of four messages |
| `configuration` | `SettingsKept`, `InitializedWhole`, `RunsAsConfigured` | two processes, three commands, a YAML and a JSON file, any step failing or the last |
| `init_rollback` | `UserConfigSpared`, expected to be violated | one process, two commands |

Each property is violated by a mutant of a definition that models code
(`PROJECT.json`, `mutants`); the mutated forms stand in the modules, marked "Mutant".

Why the bounds are enough. Two stages are one that another follows and one that none
does, and two processes every pair of a dying and a resuming one, or of two that
overlap; a third would resume from a checkpoint of the same kind. The inductive
invariants of the proofs were checked with three stages too, without deletions, before
they were proved. Two changes by three processes fall before, into, between and behind
two saves, and two saves are what one temporary file can be shared by. A table for one session is smaller than the number of calls in
`createSession`, which is the only relation that matters there. Four agents make a
chain of four levels, a diamond, a cycle of three with one outside, and a level of
more agents than may run at once. Two providers, calls and attempts give each pair of
interfering steps on one provider and one fallback. Two mentions are one agent twice or
two agents, and two levels of runs are all there are (`DelegationBounded`). Four calls
on the memory are one each to fill the table, to change it, to overlap with that change
and to follow it; the entries whose updates are followed one by one are those
in `Followed`, since entries do not depend on each other. Three responses in a table for
two are what starts an eviction, and two processes suffice to overlap in it. One
profile in a cache that two calls use makes every load evict the other's; of the three
agents one is local, one built in and one both, under names and display names that meet,
and two commands can take a name from one agent and give it to another while a call has
read half of the files. Four messages
have one before, two beside and one behind an initialization, and their chunks end
at every place. Three commands are one that sets something and two that overlap
afterwards. For what is proved (section 4), no bound matters.

Bounds in guards: `MaxUserRetries`, `MaxProcesses`, `MaxDeletions` (StageRun),
`MaxChanges`, `MaxJobs` (SessionStore), `MaxCreating` (SessionTable), `MaxMentions`
(Delegation), `MaxId`, `MaxCalls`, `MaxUses` (Memory), `MaxStamp` (ResponseCache),
`MaxStarts`, `MaxExpiries` (Profiles), `MaxMessages` (McpServer), `MaxCommands`
(Configuration). `MaxRetries`, `MaxAgents`, `MaxSessions`, `MaxAttempts`, `Threshold`,
`Limit`, `MaxSize`, `Keep`, `MaxMemorySize`, `MaxProfiles`, `MaxAbilities` and
`MaxAbilitiesSize` are parameters of the code.

Deadlock is not checked where the system stops: a run has returned and nobody resumes
it (StageRun), all changes, IDs, calls, stamps, starts or commands are used up
(SessionStore, SessionTable, Memory, ResponseCache, Profiles, Configuration), the
executor has returned (ParallelExecution), the input has ended (McpServer).

### Fairness

* `StageRun`: weak fairness of the own steps of each process: a live process goes on. Not of
  crashes, resumes, deletions or failing file operations. That attempts end is the
  provider's timeout; that prompts end is the prompt manager's, but an interactive
  run is not claimed to end.
* `SessionStore`: of the debounce timer and of the steps of a save, which the event
  loop and the operating system owe, and of a command's going on to its exit; not of
  changes, failures or `destroy`.
* `ParallelExecution`: of the executor's loop and of each agent's end, which
  `CallsEnd` of the provider grants.
* `Router`: of a call's routing and of its entering, checking, timing out and waking.
  Not of answers: a process that never answers is ended by the timeout.
* `Delegation`: of the executor's own steps and of those of the command; again calls
  end by `CallsEnd`.
* `McpServer`: of the handler's turns, of the making of services, which ends one way or
  the other, and of the work on each request. Not of input, nor of the process's end.
* `Memory`, `ResponseCache`, `Profiles` and `Configuration` assume none: their
  properties are about what must not happen.

### Deviations: where documents and code disagree

One run is expected to find a violation of what a comment says. `init_rollback`:
`ax init` keeps a configuration file that is already there, but notes it as created; if the setup for Claude Code then fails, the rollback removes it
(`init.ts:134`, comment at `:82`).

Others were met while modelling and follow from definitions of the modules or from
code next to them; no run is devoted to them.

Stage runs:

* The checkpoint of a stage is written before its output is pushed to
  `previousOutputs` (`stage-execution-controller.ts:304`, `:336`), so a run that is
  resumed there goes on without that output although "Outputs from completed stages"
  are what the file should have.
* A resumed run reports a skipped stage twice, and runs a stage that the user told it
  to skip if no completed stage follows it (`NextIncomplete` is behind the last
  *completed* stage, `:531`).
* A run the user aborts may report success (`:428`), also one in which every stage was
  skipped; `failedStageIndex` stays set after a successful retry (`:252`).
* `metadata.json` never says "running" while a stage runs (`checkpoint-manager.ts:460`),
  as `docs/guide/checkpoints-and-resume.md:138` shows it.
* `checkpoint.json` is overwritten in place, so a crash can leave neither the old nor
  the new checkpoint (`checkpoint-manager.ts:126`; `TornFile`).
* A save that throws behind a completed stage makes its result both completed and
  failed in the results array (`stage-execution-controller.ts:337`), also when all that
  failed was the directory of artifacts or logs, which comes last
  (`checkpoint-manager.ts:142`): then both files count the stage and the run does not. The
  next save sets the checkpoint right before `metadata.json`, so that a process that dies, or
  a save that fails, in between leaves the metadata one completed stage ahead
  (`MetadataInStep`).
* `ax resume` does not look whether the run is in progress (`resume.ts:117`,
  `stage-execution-controller.ts:485`), and nothing else locks it: beside a live process
  it executes the same stages once more, and both write the same two files, which may be
  half of one and half of the other (`MixedFile`). The confirmation it asks for comes
  behind the load, so that what is confirmed may be old by then. `NoRepeat`,
  `MetadataInStep` and the second half of `EndsRecorded` are about processes that follow
  one another; the order of the stages and what a checkpoint that loads says hold for all.
* `ax runs delete` loads the checkpoint first, so a run whose checkpoint is torn or half
  deleted is listed for good; a run in progress that is deleted fails at its next save
  or comes back by it. `cleanupOldCheckpoints` is called by nobody.

Sessions:

* Two saves share one temporary file, of a process whose save outlasts the debounce time or
  of two processes (`session-manager.ts:735`); `sessions.json` may be half of one and half
  of the other, where the comment promises an atomic write (`shared`). Two
  saves of one process may also end in the other order, so that the older table is
  renamed last.
* `ax session` commands exit before the debounced save, so the change they acknowledge
  is lost (`commands/session.ts:71`); `ax session list --status completed` finds
  nothing, since it filters the active sessions.
* Two processes write their whole session tables over each other (`:814`), and a process
  that could not read the file, for any reason but its absence, starts with an empty table
  and writes that over it (`:858`): the sessions of the others are gone. `NoRollback` says
  that nothing else loses any (`stale`, `blind`). `destroy` stops the timer before
  `flushSave` looks at it, so what waits for it is not saved (`:648`, comment at
  `:636`); nothing calls `destroy`.

Agents and providers:

* Later batches of a level that is given up get no timeline entry and are in no list of
  the result (`parallel-agent-executor.ts:142`).
* On the parallel path, the default, an agent is given the task of the run that asked
  instead of the task it was asked for, and two tasks for one agent are one call
  (`parallel-agent-executor.ts:306`); the result names the delegated task all the same.
* A dependency on an unknown agent only earns a warning (`dependency-graph.ts:64`), but
  its agent is always skipped. `ax run` without `--parallel` takes the sequential path.
* A call that has been aborted is tried again as if its process had failed
  (`base-provider.ts:736`, `retry-errors.ts:18`).
* `Router.execute` is called by nothing under `src/src`: executors call the provider
  they were given, so the automatic fallback of `docs/guide/introduction.md:52` does
  not happen; neither rate limits nor retry policies are configured anywhere.
* A process that ignores SIGTERM is never killed: `child.killed` says that a signal
  has been sent (`claude-provider.ts:187`), and so with the other providers. A provider
  that is found through the environment or a custom path is not what is spawned.
* Breaker timers overlap: the first one closes a breaker that a later failure opened
  anew (`base-provider.ts:1072`); a slow success lifts a newer penalty (`router.ts:172`).
* `maxDelegationDepth` is read by `delegateToAgent` only: on the parallel path an agent
  with limit 0 ("no delegation allowed", `profile-loader.ts:630`) delegates like any
  other, and there is no check for cycles of delegation either (comment at
  `executor.ts:986`). `DelegationBounded` holds for another reason: agents of a graph
  never delegate.
* A run outside a session that delegates one by one makes a new session for each
  delegation (`Joined`), and completes none of them.
* A timeout rejects the promise of a run and leaves its delegations running
  (`executor.ts:285`, "Cancel the execution").
* Results of the parallel path are looked up by the `name` in a profile, delegations by
  the name of its file (`executor.ts:569`, `:644`). That the two are the same is only
  asked of authors (`docs/tutorials/first-agent.md:90`). The agent of a profile named
  otherwise is called, but nothing it says comes back; two profiles with one name are one
  node, for which the last of them is called (`dependency-graph.ts:59`) and the one whose
  file has that name gets the answer; and what such an agent delegates one by one is
  refused if no file has its name (`executor.ts:980`). `AnsweredInFull` says which agents
  have no result.

Memory and caches:

* The count of a process does not see what others do (`memory-manager.ts:272`): after
  another has cleared the table it may refuse additions to an empty one. `CounterExact`
  and `LimitKept` say so by `foreign`.
* Overlapping updates of an entry lose one of them (`:535`); an update that overlaps a
  restore may write to another entry that has its id by then (`raced` in `UpdatesStay`).
* A restore that fails leaves the manager closed for good (`:1088`).
* Two processes that count the same excess of responses both evict it
  (`response-cache.ts:415`); between a `set` and its eviction, and after a failed one, the
  table has more rows than `maxSize`.
* A display name with a space or any other character that the name of a file must not
  have is refused before the map is looked at: `getProfilePath` throws
  `AgentValidationError` (`profile-loader.ts:649`), which `resolveAgentName` passes on
  (`:212`, `:233`). The display names of profiles, as documents and tests show them, may
  have one; such an agent is found by the name of its file only, while `ax run` does suggest
  similar names.
* The map of display names is built once and never again (`profile-loader.ts:69`), so a
  display name keeps meaning what it meant then; and two calls that build it at once, or
  a directory that cannot be read, spoil it (`:74`; `unmapped`). `ResolvedAsMeant`
  promises no more than that: the agent found was called so at some time since the
  process started, and, unless the map was spoilt, none that was called so all the time and
  may be looked up was always before it. A call
  whose files change between its steps may find what no single moment had. Agents
  with the extension `.yml` are listed but never loaded. Removing a local agent may
  reveal a built-in one whose display name has been taken since; `ax agent create`
  checks for a file and writes it in separate steps.
* Replacing an entry takes its size off the total before the eviction that may take it
  off again (`cache.ts:175`), so abilities may exceed their "5MB total"; `shortfall` in
  `SizesCounted` is by how much.

MCP server and configuration:

* A chunk that ends within a character makes a body longer than its header says
  (`server.ts:901`), and the framing is wrong for good: the search for another header
  (`:940`) does not recover. The properties say so by `unframed`.
* When the initialization fails, its promise is never reset (`:658`), so every later
  `initialize` fails at once; the end of input exits while requests are in progress.
* The order in which configuration files are tried is hidden YAML, hidden JSON, root
  YAML, root JSON, which is not the order of `config.ts`'s header, and `ax config` looks
  for the root JSON and then for the hidden one: it may change a file that is not read.
* A section disabled by `null` is enabled again by the next `set` (`deep-merge.ts:65`).
* `--reset` loads the file before it replaces it, so it cannot repair one that is
  broken; a YAML file read while it is being written is empty, which means the defaults,
  in silence. Misspelt keys are saved as they are.
* `config-validator` wants `memory.maxEntries` to be at least 100, the memory accepts 1.
* An init that fails in `createDirectoryStructure` leaves `.automatosx` behind, because the
  directory is noted only behind it (`init.ts:108`); a rollback whose `rm` fails only warns
  (`:284`). Either way the next init refuses to start (`interrupted` in
  `InitializedWhole`), unless it is forced.
* An init whose configuration cannot be written to the end leaves an empty
  `automatosx.config.json`, which is noted only when it is complete (`:133`), and which no
  command can load; files under `.claude` are overwritten.

## 4. What is proved

TLAPS checks, for every value of the constants:

| Module | Theorem | Says |
|---|---|---|
| `StageRunProofs` | `StagesInOrder`, `CheckpointsSettled`, `CompletedStagesStay`, `NoStageRepeated`, `MetadataBehind` | `StageOrder`, `CheckpointPrefixSettled`, `CompletedStays`, `NoRepeat`, `MetadataInStep` |
| `SessionProofs` | `SessionsFileIntact`, `SavedStaysSaved` | `FileIntact`, `NoRollback`, for any number of processes and saves that overlap |
| | `TableBounded`, `FinishedGoFirst` | `BoundedExcess`, `ActiveGoLast` |
| `ParallelExecutionProofs` | `NeverTooMany`, `Implements`, `StopsStarting`, `AllWorkDone` | `ConcurrencyBounded`, `ImplementsTasks`, `NothingStartedLate`, `IndependentWorkDone` |
| | `AlwaysAChoice` | the steps that choose a level or cut a batch always find one |
| `RouterProofs` | `BreakerCloses`, `FailingCutOff`, `ProcessesAccounted` | `BreakerHasTimer`, `FailingIsCutOff`, `NoProcessLeftRunning` |
| | `PlacesExact` | the count of concurrent requests of a provider is the number of calls that hold a place |
| | `ClearedGone`, `ResponsesForward`, `EvictionsSpare` | `ClearedStaysCleared`, `NoGoingBack`, `EvictionSparing` |
| `DelegationProofs` | `DelegationEnds`, `FailuresStay`, `AnsweredAll` | `DelegationBounded`, `FailureContained`, `AnsweredInFull` |
| | `RunsDescend` | every step of a run brings the user's run nearer to its end (`EverNearer`) |
| | `ResolvedRight`, `SizesAddUp` | `ResolvedAsMeant`, `SizesCounted` |
| `MemoryProofs` | `CountsExact`, `UpdatesLast`, `LimitsKept`, `RefusalSpares` | `CounterExact`, `UpdatesStay`, `LimitKept`, `RefusedImportSpares` |
| `McpServerProofs` | `InOrderAlways`, `ServicesOnce`, `AnsweredExactly` | `StartedInOrder`, `InitializedForAll`, `AnsweredOnce` |
| `ConfigurationProofs` | `ConfirmedKept`, `RunsConfigured`, `InitWhole` | `SettingsKept`, `RunsAsConfigured`, `InitializedWhole` |
| `StageRunProofs`, `ParallelExecutionProofs`, `RouterProofs`, `MemoryProofs` | `TypeCorrect` | `TypeOK` of their modules, which no run lists since it is proved |

The assumptions are the named `ASSUME`s of the modules, which TLC evaluates in every
run. The arguments:

* **StageRun.** None of the properties is inductive: that a checkpoint points behind a
  settled prefix depends on what `saveCheckpoint` is about to write, which depends on
  how far the loop has come. `Sound` says of the memory of each process, whatever
  others do to the files: all before `cur` is settled (`PrefixDone`), nothing behind it is completed
  (`NoneAhead`), which stage a program point is at (`AtStage`), and what a save
  was called with (`SaveArgument`). Since it speaks of one process, each action is
  shown to keep it for the process that acts, and another one that resumes takes its
  state from a checkpoint of which it holds. For `NoRepeat` the invariant `Alone` adds
  that the checkpoint is at most one stage behind a process that works without another
  (`CheckpointBehind`), and who can be beside whom (`OverlapKnown`). `MetadataInStep` needs that
  what a save in progress is to put into the one file is in the other, at each of its
  steps (`Keeping`), and that what the metadata has more is the last stage, which failed behind
  its save (`LacksLast`).
* **SessionStore.** A temporary file that is not `shared` is one save's: empty until that is
  written, whole behind it (`TempOwned`), and so is what it becomes when it is renamed, to
  which no save writes any more (`FileOwned`). What is on disk stays because it is in the table
  of each process that is not `blind` and in each save that is not `stale` (`StoredKnown`).
  Nothing is assumed of the number of processes or saves.
* **SessionTable.** Removing entries down to the limit before each insertion does not
  bound the table by the limit; the invariant counts the calls between their cleanup
  and their insertion, each of which may add one.
* **ParallelExecution.** `BatchInLevel` and `AwaitsTurn` say which agents the loops
  have not come to; `FailureStops` that nothing is running or started behind a failure
  that ends the execution. The refinement needs `DoomedHopeless`: an agent that is
  given up depends, directly or not, on one that has failed, so that it would never
  have become ready. `IndependentWorkDone` rests on the levels: in a graph without cycles
  there is a set of agents that hold all they depend on at their right levels, and every
  pass over the agents adds one to it, so that as many passes as agents are enough, and a
  graph with a cycle is refused (`LevelsInv`, where the set is the one to be found; no
  induction over passes is needed). Then nobody is passed over (`WorkInv`).
  `AlwaysAChoice` keeps the model honest: no level is higher than the number of nodes
  visited (`LevelsBelow`), so that the bound `K*K` in `Relevel` excludes nothing the
  code would compute, and any set of agents has a first batch. Both follow from the
  smallest of a set of numbers, which is well-founded induction on a set and needs no
  operator as parameter.
* **Router.** The places in use are the calls at an attempt (`Counting`, by cardinality
  of the set of calls waiting), each breaker that is open has a timer, each process
  belongs to a call or to none. The proof first summarises what each action does to
  one provider and one call (`Effect`, `StepKinds`), so that each invariant is
  preserved by a few kinds of steps rather than by fifteen actions.
* **ResponseCache.** Stamps are never given twice (`StampsPast`, `RowsApart`), a response
  on its way to the table is in no other memory (`PendingNew`), what was cleared is
  neither in memory nor in the table (`Cleared`), and what a process can find next is at
  least as young as what it has found, unless another one has not written yet
  (`Recent`). Memories are sequences in the order of use; removing a key from one is
  described by its members.
* **Delegation.** The chain of a run is the chain of the run below it with that run's
  agent at its end (`Chains`), and only a run at the bottom delegates one by one, since
  agents of a graph and runs made by `delegateToAgent` take the path that does not
  (`DelegatesOnce`). A stack is described by what each of its runs was made for
  (`Stacked`), so that pushing and popping are two lemmas. For `AnsweredInFull` the
  invariant says how far each run is (`AllFull`): one that delegates one by one has
  the results of its first requests in their order, and one that waits for another has
  a request left. A graph answers all at once, node by node, and the results are
  joined; the number of results of an agent and a task after the first k mentions is
  the number of such requests once an agent of that name has been mentioned, and none
  before (`NodesAnswer`), since the node of a name is at its first mention (`IsNode`) and
  answers what the agent of that file was asked in all of them (`Owned`). What joining computes
  is a recursive definition; that it has a solution, and that the solution has this
  number, hold for all lengths because the set of lengths for which they hold has
  zero and the successors of its members, and the order of the numbers is well-founded
  (`AllNumbers`), which takes no induction theorem with an operator parameter.
  `EverNearer` compares what is left lexicographically: where the user's run is, how many
  of its delegations are open, where the delegated run is, how many agents of a graph
  are pending, how many are running. A delegated run that has not been made yet counts
  as furthest from its end, so that making one is progress, and its end settles a
  delegation of the run below. This is the part of `RunReturns` that holds of every step;
  that a step is always possible is what TLC's deadlock check adds, and that possible
  steps are taken is fairness.
* **Memory.** The count of a manager changes in a step apart from what it read; the
  invariant `Sound` says of every call in progress what its next step may still assume
  (`CallsSound`), of a backup that it is a table whose ids have been given out
  (`CopySound`), and `Exact` that the count is the cardinality of the table. For updates
  (`UpdatesInv`) what a call has read is current or its entry is marked as raced. Steps
  are sorted into those that change no entry, remove some, empty or write the table
  (`Quiet`, `Removes`, `Empties`, `Writes`), and each invariant is shown for the kinds.
* **Profiles.** What a call has seen of the files stays true of some files of the past
  (`Sound`), since `past` only grows. A map in the making gives each name added so far
  what it has always meant (`Scanned`), and those to come are behind them as the directories
  were listed (`Ordered`); `Mapped` puts this together for all calls, and says that one
  call at most is building while nothing has spoilt the map. That the cache returns only
  profiles that were there needs that its operations invent no keys. Where `TTLCache`
  picks entries in their order, the order exists because each number up to the size
  of a set of places is the rank of one of them (`Ranked`, `Counted`): a bijection, and
  no induction. `SizesAddUp` counts the same way: the size of entries is the number
  of units they consist of, which are disjoint at different places (`WeightsAdd`) and move
  with their entries (`WeightsMove`); `Accounted` says what the total lacks, and
  each operation of the cache keeps it (`GetTexts`, `CleanupTexts`, `ExpireTexts`,
  `SetTexts`). The assumption is `SizesAssumption`: sizes are natural numbers, and the
  limit is positive (`abilities-manager.ts` sets 5 MB).
* **Configuration.** A file that nobody has contested says what was confirmed for it
  (`FilesAgree`), and a command about to write what it read is about to write what
  it will confirm (`WriterAgrees`); `Agrees` goes through `deepMerge`, so the lemmas
  say of merging, setting and resetting which sections they touch. For `init` (`WholeInv`)
  at most one is at work, and only that one may leave `.automatosx` incomplete.
* **McpServer.** Runs of the handler share the buffer, so no run knows what is in it. What
  holds whatever the framing has come to is that the headers in the buffer and in the
  pipe ascend and are above everything started (`Ascends`, `StartedUp`); while the
  framing is right, the buffer and the pipe together are the rest of one message and
  the following ones, up to the last one sent (`Framed`). `RequestsOf` relates jobs and
  answers to what was started, one each, and `ServicesOf` says who was told
  "initialized" and can rely on it. There is one lemma for each turn of the handler's
  loop, because a run takes several turns in one step.

Only model-checked: what needs fairness (`EndsRecorded`, `EventuallySaved`,
`ExecuteReturns`, `CallsEnd`, `RunReturns`, `Answered`), which is outside the prover.
Every invariant and action property of a passing run is a theorem.

## 5. What is not modelled

* **StageRun**: execution hooks (no caller passes any: `run.ts:486`, `resume.ts:239`),
  progress display, the limit on the size of metadata, memory of stage results.
* **Provider**: streaming, embeddings, token accounting, rate limits (nothing
  configures them; the race between check and reservation at `base-provider.ts:821` does
  not arise without them), the router's own response cache (never configured). Response
  keys are collision-free in the model; in the code they are 32-bit hashes
  (`cache.ts:455`).
* **Delegation**: retries of whole runs (nothing asks for them), the regular
  expressions of the parser (which mentions they find is an input), prompts.
* **Memory**: which entries a query matches and in which order (any of them may be
  found), statistics, the formats of lists and exports.
* **Profiles**: the rules of `validateProfile` (a file is valid or not), teams, which are
  data that a profile is merged with, the texts of abilities and templates.
* **McpServer**: what tools do, which is `SessionTable`, `Memory` and `Delegation`; the
  rate limiter, which nothing uses.
* **Configuration**: all sections but two, environment variables, typed parsing of
  values, the example files that an init copies.
* `core/lazy-loader.ts`, `core/cache-warmer.ts`, `mcp/middleware/rate-limiter.ts`,
  `utils/retry.ts`, `utils/graceful-shutdown.ts` and `cli/commands/config/*.ts`: nothing
  under `src/src` calls them.
* Commands that list or show only read: `list`, `status`, `workspace`; `update` runs npm.
* Timeouts' warnings, workspace paths, provider detection, integrations with the files
  of other tools, embeddings, logging: they keep no state that a decision depends on,
  or are single file operations.
* The prover's limits: liveness under fairness and `ENABLED` are left to TLC.
