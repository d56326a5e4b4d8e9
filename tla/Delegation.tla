------------------------------ MODULE Delegation ------------------------------
(***************************************************************************)
(* AgentExecutor (src/agents/executor.ts): an agent's answer may ask other *)
(* agents for help, the executor runs them and appends their results.      *)
(* Delegations are taken up one by one (executeDelegationsSequential), each *)
(* of them a run of its own whose answer may delegate again, or all at     *)
(* once as an agent graph (executeDelegationsParallel), whose agents are   *)
(* called directly and never delegate.                                     *)
(*                                                                         *)
(* The runs in progress form a stack, the user's run at the bottom.  What  *)
(* the agents of a graph do is TaskGraph, which ParallelExecution          *)
(* implements.  An agent stands for a profile and the name of its file;    *)
(* the name the profile gives the agent (profile-loader.ts:722) may be     *)
(* another one, which stands in chains and graphs.                         *)
(* The user is either the command `ax run` (src/cli/commands/run.ts), which *)
(* is modelled to its exit, or somebody else who executes an agent: the    *)
(* controller of stages, which sets a timeout, or a tool of the server.    *)
(* Retries of whole runs (executeWithRetry) are left out: nothing in src/  *)
(* asks for them.                                                          *)
(***************************************************************************)
EXTENDS Integers, Sequences, FiniteSets, SequencesExt, Subsequences

CONSTANTS
    Agents,      \* agents with a profile
    Strangers,   \* names that are no agents: an answer may mention them
    NameOf,      \* the name an agent's profile gives it
    Broken,      \* agents whose display name is known and whose profile is invalid
    Deps,        \* names of agents an agent's profile says it depends on
    Limit,       \* maxDelegationDepth of an agent
    Tasks,       \* what an answer may ask others to do
    UserTask,    \* what the user asks
    MaxMentions, \* bound: delegations mentioned in one answer
    Timed        \* may the user's run have a timeout?

ASSUME DelegationAssumption ==
    /\ IsFiniteSet(Agents) /\ Strangers \cap Agents = {} /\ Broken \subseteq Agents
    /\ NameOf \in [Agents -> Agents \cup Strangers]
    /\ Deps \in [Agents -> SUBSET (Agents \cup Strangers)]
    /\ \A a \in Agents : NameOf[a] \notin Deps[a]   \* validateProfile
    /\ Limit \in [Agents -> Nat]
    /\ MaxMentions \in Nat
    /\ Timed \in BOOLEAN

VARIABLES
    option,    \* when the user's run takes the parallel path
    stack,     \* runs in progress
    status,    \* of the names in the graph in progress
    sessions,  \* status of the sessions there have been
    outcome,   \* what the user is told
    aborted,   \* has the signal of the user's run fired?
    command    \* what `ax run` is at, "none" if the user is somebody else

vars == <<option, stack, status, sessions, outcome, aborted, command>>
user == <<aborted, command>>

Titles == Agents \cup Strangers
Request == [to : Agents, task : Tasks]
Result == [to : Agents, task : Tasks, ok : BOOLEAN, ran : Tasks \cup {UserTask}]

Run ==
    [agent : Agents, task : Tasks \cup {UserTask}, chain : Seq(Titles),
     session : Nat,              \* 0 for none
     way : {"preparing", "asking", "sequential", "parallel", "done"},
     asked : Seq(Request), results : Seq(Result)]

NewRun(agent, task, chain, session, way) ==
    [agent |-> agent, task |-> task, chain |-> chain, session |-> session,
     way |-> way, asked |-> <<>>, results |-> <<>>]

\* The user's run is in a session, which may have ended before, or in none.  Only
\* `ax run` sets options.
Init ==
    /\ command \in {"none", "running"}
    /\ option \in IF command = "none" THEN {"parallel"} ELSE {"parallel", "several", "sequential"}
    /\ \E a \in Agents, s \in {0, 1} :
         /\ stack = <<NewRun(a, UserTask, <<>>, s, "preparing")>>
         /\ sessions \in IF s = 1 THEN {<<"active">>, <<"ended">>} ELSE {<<>>}
    /\ status = [n \in Titles |-> "skipped"]
    /\ outcome = "waiting" /\ aborted = FALSE

-----------------------------------------------------------------------------
\* The run that is on.

Top == stack[Len(stack)]
On(way) == stack # <<>> /\ Top.way = way
WithTop(run) == [stack EXCEPT ![Len(stack)] = run]
Below == SubSeq(stack, 1, Len(stack) - 1)

\* The delegation a sequential run is at.
NextAsked(run) == run.asked[Len(run.results) + 1]

AnsweredBy(run, ok, ran) ==
    [run EXCEPT !.results =
        Append(@, [to |-> NextAsked(run).to, task |-> NextAsked(run).task, ok |-> ok, ran |-> ran])]

\* `ax run` does not take a late answer.
Told(ok) == IF ok /\ ~(aborted /\ command = "running") THEN "answered" ELSE "failed"

\* Mutant: a failed delegation fails the run that asked for it.
EndRunRethrowing(ok) ==
    /\ stack' = IF ok /\ Len(stack) > 1
                THEN [Below EXCEPT ![Len(Below)] = AnsweredBy(@, ok, Top.task)]
                ELSE <<>>
    /\ outcome' = IF stack' = <<>> /\ outcome = "waiting" THEN Told(ok) ELSE outcome

\* A run ends: a failed delegation is an answer like another; the user is told
\* unless the timeout has already done so.
EndRun(ok) ==
    /\ stack' = IF Len(stack) > 1
                THEN [Below EXCEPT ![Len(Below)] = AnsweredBy(@, ok, Top.task)]
                ELSE <<>>
    /\ outcome' = IF stack' = <<>> /\ outcome = "waiting" THEN Told(ok) ELSE outcome

-----------------------------------------------------------------------------
\* An answer and its delegations.

\* A mention in code, quotes, comments or examples asks nobody: it counts as one of a
\* stranger, like that of a name which no profile has.
AsksAnAgent(mention) == mention.to \notin Strangers

\* parse: mentions that ask nobody, and those of oneself, are skipped; in text order.
Parse(mentions, from) ==
    Only(mentions, {i \in DOMAIN mentions : AsksAnAgent(mentions[i]) /\ mentions[i].to # from})

\* Mutant: a delegated run takes the options of the user's run.
OptionInherited == option

\* A delegated run has the default options: always parallel.
OptionOf == IF Len(stack) = 1 THEN option ELSE "parallel"

TakesParallelPath(asked) ==
    \/ OptionOf = "parallel"
    \/ OptionOf = "several" /\ Len(asked) > 1

Asked(asked) == {asked[i].to : i \in DOMAIN asked}

\* The graph has a node for each name; of profiles with one name it takes the last.
Nodes(asked) == {NameOf[asked[i].to] : i \in DOMAIN asked}
ProfileOf(asked, n) == asked[Max({i \in DOMAIN asked : NameOf[asked[i].to] = n})].to
NodeDeps(asked) == [n \in Titles |-> IF n \in Nodes(asked) THEN Deps[ProfileOf(asked, n)] ELSE {}]

Cyclic(asked) ==
    \E S \in SUBSET Nodes(asked) : S # {} /\ \A n \in S : NodeDeps(asked)[n] \cap S # {}

\* The graph of the agents asked can be run.
IsRunnable(asked) == Asked(asked) \cap Broken = {} /\ ~Cyclic(asked)

\* The provider answers; executeInternal looks for delegations in it.
Respond(mentions) ==
    LET asked == Parse(mentions, NameOf[Top.agent]) IN
    /\ On("asking")
    /\ IF asked = <<>>
         THEN stack' = WithTop([Top EXCEPT !.way = "done"]) /\ UNCHANGED <<status, outcome>>
       ELSE IF ~TakesParallelPath(asked)
         THEN /\ stack' = WithTop([Top EXCEPT !.way = "sequential", !.asked = asked])
              /\ UNCHANGED <<status, outcome>>
       ELSE IF IsRunnable(asked)
         THEN /\ stack' = WithTop([Top EXCEPT !.way = "parallel", !.asked = asked])
              /\ status' = [n \in Titles |-> IF n \in Nodes(asked) THEN "pending" ELSE "skipped"]
              /\ UNCHANGED outcome
         ELSE EndRun(FALSE) /\ UNCHANGED status
    /\ UNCHANGED <<option, sessions, user>>

CallFails ==
    /\ On("asking")
    /\ EndRun(FALSE)
    /\ UNCHANGED <<option, status, sessions, user>>

RunEnds ==
    /\ On("done")
    /\ EndRun(TRUE)
    /\ UNCHANGED <<option, status, sessions, user>>

-----------------------------------------------------------------------------
\* One delegation after the other.

\* delegateToAgent: the profiles of the agent that asks, by its name, of the one asked
\* and of the user's; cycle and depth of the chain.
MayDelegate(run, to) ==
    LET from == NameOf[run.agent]
        initiator == IF run.chain = <<>> THEN from ELSE Head(run.chain)
    IN
    /\ {from, to, initiator} \subseteq Agents \ Broken
    /\ to \notin Range(run.chain)
    /\ Len(run.chain) < Limit[initiator]

\* Sequential runs that still have a delegation to take up.
Delegating == On("sequential") /\ Len(Top.results) < Len(Top.asked)

SessionClosed(run) == run.session > 0 /\ sessions[run.session] # "active"

\* The session of the run, or a new one for this delegation alone.
Joined == IF Top.session > 0 THEN sessions ELSE Append(sessions, "active")

Delegate ==
    LET d == NextAsked(Top)
        session == IF Top.session > 0 THEN Top.session ELSE Len(sessions) + 1
    IN
    /\ Delegating
    /\ MayDelegate(Top, d.to) /\ ~SessionClosed(Top)
    /\ sessions' = Joined
    /\ stack' = Append(stack, NewRun(d.to, d.task, Append(Top.chain, NameOf[Top.agent]),
                                     session, "preparing"))
    /\ UNCHANGED <<option, status, outcome, user>>

\* Mutant: a refused delegation is tried again.
RefuseAgain ==
    /\ Delegating
    /\ ~MayDelegate(Top, NextAsked(Top).to) \/ SessionClosed(Top)
    /\ UNCHANGED vars

Refuse ==
    /\ Delegating
    /\ ~MayDelegate(Top, NextAsked(Top).to) \/ SessionClosed(Top)
    /\ stack' = WithTop(AnsweredBy(Top, FALSE, NextAsked(Top).task))
    /\ UNCHANGED <<option, status, sessions, outcome, user>>

\* createContext: the profile is loaded, the session looked up again.
StartRun ==
    /\ On("preparing")
    /\ Top.agent \notin Broken
    /\ Top.session > 0 => sessions[Top.session] # "removed"
    /\ stack' = WithTop([Top EXCEPT !.way = "asking"])
    /\ UNCHANGED <<option, status, sessions, outcome, user>>

\* createContext: no such agent or session, or no provider is available.
StartFails ==
    /\ On("preparing")
    /\ EndRun(FALSE)
    /\ UNCHANGED <<option, status, sessions, user>>

\* `ax run` knows neither the agent nor one of that display name, or not the
\* session: it says so and exits.
NotFound ==
    /\ On("preparing") /\ Len(stack) = 1 /\ command = "running"
    /\ stack' = <<>> /\ outcome' = "failed" /\ command' = "exit 1"
    /\ UNCHANGED <<option, status, sessions, aborted>>

SequenceEnds ==
    /\ On("sequential") /\ Len(Top.results) = Len(Top.asked)
    /\ stack' = WithTop([Top EXCEPT !.way = "done"])
    /\ UNCHANGED <<option, status, sessions, outcome, user>>

-----------------------------------------------------------------------------
\* All delegations at once.

G == INSTANCE TaskGraph WITH Agents <- Titles, Names <- Titles, deps <- NodeDeps(Top.asked)

GraphStep ==
    /\ On("parallel")
    /\ \E n \in Nodes(Top.asked), s \in G!Status \ {"pending"} :
         /\ s # status[n] /\ G!May(n, s)
         /\ status' = [status EXCEPT ![n] = s]
    /\ UNCHANGED <<option, stack, sessions, outcome, user>>

\* The signal of the user's run, which alone has one, may leave agents pending.
IsOver ==
    \A n \in Nodes(Top.asked) :
        \/ status[n] \in {"completed", "failed", "skipped"}
        \/ status[n] = "pending" /\ Len(stack) = 1 /\ aborted

\* The nodes of the graph are in the order in which their names first come up.
IsNode(asked, i) == \A j \in 1 .. i - 1 : NameOf[asked[j].to] # NameOf[asked[i].to]

\* What the agent of that file was asked (delegationMap).
Own(asked, n) == Only(asked, {i \in DOMAIN asked : asked[i].to = n})

\* Mutant: one result for an agent, for the last it was asked.
ResultsOfLast(n) ==
    LET own == Own(Top.asked, n) IN
    IF own = <<>> THEN <<>>
    ELSE <<[to |-> n, task |-> own[Len(own)].task, ok |-> status[n] = "completed", ran |-> Top.task]>>

\* An agent is called once, with the task of the run.  Its name is taken for that of
\* a file: the result is that of everything the agent of that file was asked.
ResultsOf(n) ==
    LET own == Own(Top.asked, n) IN
    [i \in DOMAIN own |->
       [to |-> n, task |-> own[i].task, ok |-> status[n] = "completed", ran |-> Top.task]]

GraphEnds ==
    /\ On("parallel") /\ IsOver
    /\ stack' = WithTop([Top EXCEPT !.way = "done",
          !.results = FlattenSeq([i \in DOMAIN Top.asked |->
                                    IF IsNode(Top.asked, i) THEN ResultsOf(NameOf[Top.asked[i].to]) ELSE <<>>])])
    /\ UNCHANGED <<option, status, sessions, outcome, user>>

-----------------------------------------------------------------------------
\* What happens meanwhile.

\* The signal fires, which is made when the context is: executeWithTimeout tells
\* the user, while what is in progress goes on; `ax run` waits for that.
Timeout ==
    /\ Timed /\ outcome = "waiting" /\ ~aborted
    /\ stack[1].way # "preparing"
    /\ aborted' = TRUE
    /\ outcome' = IF command = "none" THEN "timed out" ELSE outcome
    /\ UNCHANGED <<option, stack, status, sessions, command>>

\* Somebody else completes, fails or removes a session.
SessionChanges ==
    /\ \E s \in DOMAIN sessions :
         \/ sessions[s] = "active" /\ sessions' = [sessions EXCEPT ![s] = "ended"]
         \/ sessions[s] # "removed" /\ sessions' = [sessions EXCEPT ![s] = "removed"]
    /\ UNCHANGED <<option, stack, status, outcome, user>>

-----------------------------------------------------------------------------
\* The end of `ax run`.

\* The answer is shown, then saved to a file and to the memory if the user asked
\* for it; a save that fails is mentioned.
SaveResult ==
    /\ command = "running" /\ outcome = "answered"
    /\ command' = "closing"
    /\ UNCHANGED <<option, stack, status, sessions, outcome, aborted>>

\* The memory is closed, the router destroyed.
CleanUp ==
    /\ command = "closing"
    /\ command' = "exit 0"
    /\ UNCHANGED <<option, stack, status, sessions, outcome, aborted>>

\* The catch block of the command, also for resources that cannot be closed.
DisplayError ==
    /\ \/ command = "running" /\ outcome = "failed"
       \/ command = "closing"
    /\ command' = "exit 1"
    /\ UNCHANGED <<option, stack, status, sessions, outcome, aborted>>

CommandStep == SaveResult \/ CleanUp \/ DisplayError

-----------------------------------------------------------------------------
Mentions == BoundedSeq([to : Agents \cup Strangers, task : Tasks], MaxMentions)

RunStep ==
    \/ \E mentions \in Mentions : Respond(mentions)
    \/ CallFails \/ RunEnds
    \/ Delegate \/ Refuse \/ StartRun \/ StartFails \/ NotFound \/ SequenceEnds
    \/ GraphStep \/ GraphEnds

Done == stack = <<>> /\ command \in {"none", "exit 0", "exit 1"} /\ UNCHANGED vars

Next == RunStep \/ CommandStep \/ Timeout \/ SessionChanges \/ Done

\* Provider calls end (Router!CallsEnd) and the executor goes on after them, as
\* does the command.
Spec == Init /\ [][Next]_vars /\ WF_vars(RunStep) /\ WF_vars(CommandStep)

-----------------------------------------------------------------------------
Count(d, run) ==
    <<Cardinality({i \in DOMAIN run.asked : run.asked[i] = d}),
      Cardinality({i \in DOMAIN run.results :
                     run.results[i].to = d.to /\ run.results[i].task = d.task})>>

\* A run that has dealt with its delegations has one result for each mention of
\* an agent in its answer, repeated ones and refused ones included, whichever
\* path they took (executeDelegationsSequential, executeDelegationsParallel).  The
\* exception is the agent of a graph whose profile has not the name of its file:
\* unless another one is called so, it has no result at all, never a part of them.
AnsweredInFull ==
    On("done") =>
        \A d \in Request :
            Count(d, Top)[2] = IF TakesParallelPath(Top.asked) /\ d.to \notin Nodes(Top.asked)
                               THEN 0 ELSE Count(d, Top)[1]

\* Agents cannot keep each other busy: the chain of a run names everybody it
\* works for, and because delegated runs take the parallel path, whose agents do
\* not delegate, nobody is more than two delegations away from the user's agent,
\* whatever the profiles allow.
DelegationBounded ==
    /\ \A i \in DOMAIN stack : stack[i].chain = [j \in 1..i-1 |-> NameOf[stack[j].agent]]
    /\ Len(stack) <= 2

\* A delegated run that ends, for whatever reason, is one more result of the run
\* that asked for it, which goes on (the catch in executeDelegationsSequential).
FailureContained ==
    [][Len(stack') < Len(stack) /\ Len(stack) > 1 =>
         /\ Len(stack') = Len(stack) - 1
         /\ Len(stack'[Len(stack')].results) = Len(stack[Len(stack')].results) + 1]_vars

\* The user's run comes to an end, and the user hears of it: the command exits,
\* with success only if the run has answered in time.
RunReturns ==
    <>(/\ stack = <<>> /\ outcome # "waiting"
       /\ \/ command = "none"
          \/ command = "exit 0" /\ outcome = "answered" /\ ~aborted
          \/ command = "exit 1")
===============================================================================
