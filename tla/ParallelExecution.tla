-------------------------- MODULE ParallelExecution --------------------------
(***************************************************************************)
(* ParallelAgentExecutor.execute (src/agents/parallel-agent-executor.ts)   *)
(* on the graph of DependencyGraphBuilder (src/agents/dependency-graph.ts) *)
(* with the plan of ExecutionPlanner (src/agents/execution-planner.ts):    *)
(* agents are sorted into levels, a level is cut into batches, the agents  *)
(* of a batch run side by side, and a failure or an abort stops what       *)
(* has not been started.                                                   *)
(*                                                                         *)
(* Agents are numbers: the order of their names, in which batches are cut, *)
(* and of the graph's nodes.  Everything between two provider calls runs   *)
(* without interruption in the program; it is cut into steps here only     *)
(* where nobody can interfere.  A signal that has fired before execute was *)
(* called is never noticed, so an abort is one that happens meanwhile.     *)
(***************************************************************************)
EXTENDS Integers, Sequences, FiniteSets

CONSTANTS
    K,            \* number of agents
    Unknown,      \* names agents depend on that are not among the agents
    Serial,       \* agents with "parallel: false"
    MaxAgents,    \* maxConcurrentAgents, once resolveMaxConcurrency made it valid
    Graphs        \* the dependencies the agents may declare

Agents == 1..K
Names == Agents \cup Unknown

ASSUME ParallelExecutionAssumption ==
    /\ K \in Nat \ {0}
    /\ Unknown \cap Agents = {}
    /\ Serial \subseteq Agents
    /\ MaxAgents \in Nat \ {0}
    /\ Graphs \subseteq [Agents -> SUBSET Names]

Status == {"pending", "running", "completed", "failed", "skipped"}
Entry == {"completed", "failed", "skipped", "cancelled"}

VARIABLES
    pc,          \* what execute is at
    deps,        \* node.dependencies
    keepGoing,   \* options.continueOnFailure
    level,       \* node.level
    pass,        \* iteration of calculateLevels
    node,        \* the node it is at
    changed,     \* has this pass changed a level?
    current,     \* the level being executed
    todo,        \* its agents that are in no batch yet
    batch,       \* the agents of the batch being executed
    status,      \* node.status
    timeline,    \* the entries of an agent
    aborted      \* abortController.signal.aborted

plan == <<level, pass, node, changed>>
loop == <<current, todo, batch>>
vars == <<pc, deps, keepGoing, plan, loop, status, timeline, aborted>>

TypeOK ==
    /\ pc \in {"levels", "cycles", "level", "batch", "running", "levelEnd",
               "done", "rejected"}
    /\ deps \in [Agents -> SUBSET Names]
    /\ keepGoing \in BOOLEAN
    /\ level \in [Agents -> Nat]
    /\ pass \in 0..K-1 /\ node \in 1..K+1 /\ changed \in BOOLEAN
    /\ current \in Nat
    /\ todo \subseteq Agents /\ batch \subseteq Agents
    /\ status \in [Agents -> Status]
    /\ timeline \in [Agents -> Seq(Entry)]
    /\ aborted \in BOOLEAN

\* buildGraph: an agent's own name is dropped from its dependencies.
Init ==
    /\ pc = "levels"
    /\ \E g \in Graphs : deps = [a \in Agents |-> g[a] \ {a}]
    /\ keepGoing \in BOOLEAN
    /\ level = [a \in Agents |-> 0]
    /\ pass = 0 /\ node = 1 /\ changed = FALSE
    /\ current = 0 /\ todo = {} /\ batch = {}
    /\ status = [a \in Agents |-> "pending"]
    /\ timeline = [a \in Agents |-> <<>>]
    /\ aborted = FALSE

-----------------------------------------------------------------------------
\* The graph.

\* The level of a node: right above the highest of its known dependencies.
IsAbove(l, below) ==
    IF below = {} THEN l = 0
    ELSE /\ \A d \in below : level[d] < l
         /\ \E d \in below : level[d] = l - 1

\* calculateLevels, one node of one pass; no level outgrows K passes over K nodes.
Relevel ==
    /\ pc = "levels" /\ node <= K
    /\ \E l \in 0..K*K :
         /\ IsAbove(l, deps[node] \cap Agents)
         /\ level' = [level EXCEPT ![node] = l]
         /\ changed' = (changed \/ l # level[node])
    /\ node' = node + 1
    /\ UNCHANGED <<pc, deps, keepGoing, pass, loop, status, timeline, aborted>>

PassesLeft == pass + 1 < K

EndPass ==
    /\ pc = "levels" /\ node > K
    /\ IF changed /\ PassesLeft
       THEN pass' = pass + 1 /\ node' = 1 /\ changed' = FALSE /\ UNCHANGED pc
       ELSE pc' = "cycles" /\ UNCHANGED <<pass, node, changed>>
    /\ UNCHANGED <<deps, keepGoing, level, loop, status, timeline, aborted>>

\* Agents that all depend on one of each other.
Cyclic == \E S \in (SUBSET Agents) \ {{}} : \A a \in S : deps[a] \cap S # {}

DetectCycles ==
    /\ pc = "cycles"
    /\ pc' = IF Cyclic THEN "rejected" ELSE "level"
    /\ UNCHANGED <<deps, keepGoing, plan, loop, status, timeline, aborted>>

-----------------------------------------------------------------------------
\* The plan.

AgentsOf(l) == {a \in Agents : level[a] = l}

\* Mutant: only the agent itself is kept from running beside others.
WidthByAgent(l) ==
    IF AgentsOf(l) \subseteq Serial THEN 1 ELSE MaxAgents

\* One agent at a time in a level that has an agent which must run alone.
Width(l) == IF AgentsOf(l) \cap Serial = {} THEN MaxAgents ELSE 1

\* The next batch: the first agents by name, as many as may run.
IsNextBatch(B) ==
    /\ Cardinality(B) <= Width(current)
    /\ B = todo \/ Cardinality(B) = Width(current)
    /\ \A a \in B, b \in todo \ B : a < b

-----------------------------------------------------------------------------
\* The loops over levels and batches.

Pending == {a \in Agents : status[a] = "pending"}
Failed == {a \in Agents : status[a] = "failed"}
Running == {a \in Agents : status[a] = "running"}

\* These agents are given up, with an entry of that kind.
GiveUp(S, entry) ==
    /\ status' = [a \in Agents |-> IF a \in S THEN "skipped" ELSE status[a]]
    /\ timeline' = [a \in Agents |->
                      IF a \in S THEN Append(timeline[a], entry) ELSE timeline[a]]

From(l) == {a \in Pending : level[a] >= l}

\* Mutant: the last level is left out.
EnterLevelBelow ==
    /\ pc = "level" /\ ~aborted
    /\ IF \A a \in Agents : level[a] <= current
       THEN pc' = "done" /\ UNCHANGED todo
       ELSE pc' = "batch" /\ todo' = AgentsOf(current)
    /\ UNCHANGED <<deps, keepGoing, plan, current, batch, status, timeline, aborted>>

EnterLevel ==
    /\ pc = "level" /\ ~aborted
    /\ IF \A a \in Agents : level[a] < current
       THEN pc' = "done" /\ UNCHANGED todo
       ELSE pc' = "batch" /\ todo' = AgentsOf(current)
    /\ UNCHANGED <<deps, keepGoing, plan, current, batch, status, timeline, aborted>>

\* markRemainingAsCancelled; when no level is left nothing is looked at.
CancelLevels ==
    /\ pc = "level" /\ aborted
    /\ GiveUp(From(current), "cancelled")
    /\ pc' = "done"
    /\ UNCHANGED <<deps, keepGoing, plan, loop, aborted>>

\* Mutant: an unknown dependency is no reason to wait.
ReadyIfKnown(a) == \A d \in deps[a] \cap Agents : status[d] = "completed"

Ready(a) == \A d \in deps[a] : d \in Agents /\ status[d] = "completed"

\* executeBatchParallel and executeBatchSequential: the dependencies of all
\* agents of the batch are looked at before the first provider call is awaited.
StartBatch ==
    /\ pc = "batch" /\ todo # {} /\ ~aborted
    /\ \E B \in SUBSET todo :
         /\ IsNextBatch(B)
         /\ batch' = B /\ todo' = todo \ B
         /\ status' = [a \in Agents |->
                         IF a \notin B THEN status[a]
                         ELSE IF Ready(a) THEN "running" ELSE "skipped"]
         /\ timeline' = [a \in Agents |->
                           IF a \in B /\ ~Ready(a)
                           THEN Append(timeline[a], "skipped") ELSE timeline[a]]
    /\ pc' = "running"
    /\ UNCHANGED <<deps, keepGoing, plan, current, aborted>>

\* markBatchAsCancelled: this batch only, the ones behind it are left pending.
CancelBatch ==
    /\ pc = "batch" /\ todo # {} /\ aborted
    /\ \E B \in SUBSET todo :
         IsNextBatch(B) /\ GiveUp(B \cap Pending, "cancelled")
    /\ pc' = "levelEnd"
    /\ UNCHANGED <<deps, keepGoing, plan, loop, aborted>>

LevelDone ==
    /\ pc = "batch" /\ todo = {}
    /\ pc' = "levelEnd"
    /\ UNCHANGED <<deps, keepGoing, plan, loop, status, timeline, aborted>>

LeaveLevel ==
    /\ pc = "levelEnd"
    /\ IF ~keepGoing /\ AgentsOf(current) \cap Failed # {}
       THEN pc' = "done" /\ UNCHANGED current
       ELSE pc' = "level" /\ current' = current + 1
    /\ UNCHANGED <<deps, keepGoing, plan, todo, batch, status, timeline, aborted>>

-----------------------------------------------------------------------------
\* The agents of a batch.

Note(a, entry) == timeline' = [timeline EXCEPT ![a] = Append(@, entry)]

AgentCompletes(a) ==
    /\ pc = "running" /\ status[a] = "running"
    /\ status' = [status EXCEPT ![a] = "completed"]
    /\ Note(a, "completed")
    /\ UNCHANGED <<pc, deps, keepGoing, plan, loop, aborted>>

Dependents(S) == {b \in Pending : deps[b] \cap S # {}}

\* markDependentsAsSkipped: the pending agents reached from a over pending ones.
Doomed(a) ==
    {b \in Pending :
        \A S \in SUBSET Pending :
            Dependents({a}) \subseteq S /\ Dependents(S) \subseteq S => b \in S}

\* The dependents of a failed agent are marked, without an entry of their own.
AgentFails(a) ==
    /\ pc = "running" /\ status[a] = "running"
    /\ status' = [b \in Agents |->
                    IF b = a THEN "failed"
                    ELSE IF b \in Doomed(a) THEN "skipped" ELSE status[b]]
    /\ Note(a, "failed")
    /\ UNCHANGED <<pc, deps, keepGoing, plan, loop, aborted>>

\* Mutant: a failure ends the batch, not the level.
BatchDoneAnyway ==
    /\ pc = "running" /\ Running = {}
    /\ pc' = "batch"
    /\ UNCHANGED <<status, timeline, deps, keepGoing, plan, loop, aborted>>

\* Mutant: one rejected agent rejects the batch.
BatchDoneByAll ==
    /\ pc = "running" /\ \A a \in batch : status[a] = "completed"
    /\ pc' = "batch"
    /\ UNCHANGED <<status, timeline, deps, keepGoing, plan, loop, aborted>>

\* Behind a batch with a failure markRemainingAsSkipped gives up the levels
\* behind this one when agents are not to go on.
BatchDone ==
    /\ pc = "running" /\ Running = {}
    /\ IF ~keepGoing /\ batch \cap Failed # {}
       THEN /\ GiveUp(From(current + 1), "skipped")
            /\ pc' = "levelEnd"
       ELSE pc' = "batch" /\ UNCHANGED <<status, timeline>>
    /\ UNCHANGED <<deps, keepGoing, plan, loop, aborted>>

\* The signal fires while provider calls are awaited.
Abort ==
    /\ pc = "running" /\ Running # {} /\ ~aborted
    /\ aborted' = TRUE
    /\ UNCHANGED <<pc, deps, keepGoing, plan, loop, status, timeline>>

-----------------------------------------------------------------------------
Plan == Relevel \/ EndPass \/ DetectCycles

Loop ==
    \/ EnterLevel \/ CancelLevels
    \/ StartBatch \/ CancelBatch \/ BatchDone
    \/ LevelDone \/ LeaveLevel

AgentEnds == \E a \in Agents : AgentCompletes(a) \/ AgentFails(a)

Next == Plan \/ Loop \/ AgentEnds \/ Abort

Spec == Init /\ [][Next]_vars

\* The code between two awaits runs, and a provider call comes back.
FairSpec == Spec /\ WF_vars(Plan \/ Loop) /\ WF_vars(AgentEnds)

-----------------------------------------------------------------------------
\* Properties.

\* No more agents at once than were allowed, and an agent that must run alone
\* does, among all that share its level (execution-planner.ts:48).
ConcurrencyBounded ==
    /\ Cardinality(Running) <= MaxAgents
    /\ Running \cap Serial # {} => Cardinality(Running) = 1

\* When agents are to go on and nobody aborts, every agent whose dependencies
\* completed has been executed in the end, and only those: the level-wise
\* batches, the marks of failed agents' dependents and the check before a start
\* agree.
IndependentWorkDone ==
    pc = "done" /\ keepGoing /\ ~aborted =>
        \A a \in Agents : IF Ready(a) THEN status[a] \in {"completed", "failed"}
                                      ELSE status[a] = "skipped"

\* Nothing is started behind an abort, nor behind a failure when agents are not
\* to go on.
NothingStartedLate ==
    [][\A a \in Agents :
         status[a] # "running" /\ status'[a] = "running" =>
             ~aborted /\ (keepGoing \/ Failed = {})]_vars

\* The agents are executed as the abstract task graph allows.
Tasks == INSTANCE TaskGraph
ImplementsTasks == Tasks!Spec

\* execute comes back when the provider does, whatever fails or is aborted.
ExecuteReturns == <>(pc \in {"done", "rejected"})
=============================================================================
