----------------------- MODULE ParallelExecutionProofs -----------------------
(***************************************************************************)
(* Proofs about ParallelExecution, for any number of agents, any graph,    *)
(* any limit and any set of agents that run alone.  The inductive          *)
(* invariant keeps the agents that run inside the batch, the batch inside  *)
(* its limit, and says of every agent whose turn is still to come that it  *)
(* was not started, and was given up only for a dependency that can no     *)
(* longer complete.                                                        *)
(*                                                                         *)
(* Behind the refinement, the levels: with every pass over a graph without *)
(* cycles, a set of agents grows whose levels are right (LevelsInv), so    *)
(* that no level comes before what its agents depend on, and nobody is     *)
(* passed over (WorkInv).                                                  *)
(*                                                                         *)
(* Last, that the executor is never without a next step: no level exceeds  *)
(* the number of nodes visited (LevelsBelow), so the bound of Relevel      *)
(* excludes none, and every set of agents has a first one.                 *)
(***************************************************************************)
EXTENDS ParallelExecution, FiniteSetTheorems, SequenceTheorems,
        WellFoundedInduction, TLAPS

\* The batch, once it runs, and what is left of its level.
BatchInLevel ==
    /\ pc = "running" =>
         /\ batch \subseteq AgentsOf(current)
         /\ Cardinality(batch) <= Width(current)
         /\ Running \subseteq batch
    /\ pc \in {"batch", "running"} => todo \subseteq AgentsOf(current)
    /\ pc # "running" => Running = {}

\* Nothing will be started any more.
Stopped ==
    \/ aborted
    \/ pc \in {"done", "rejected"}
    \/ pc = "levelEnd" /\ ~keepGoing /\ AgentsOf(current) \cap Failed # {}

\* The turn of these agents is still to come.
ToCome(a) ==
    \/ pc \in {"levels", "cycles"}
    \/ level[a] > current
    \/ pc = "level" /\ level[a] = current
    \/ pc \in {"batch", "running"} /\ a \in todo

\* A dependency that is unknown, failed or was given up never completes.
Hopeless(a) == \E d \in deps[a] : d \in Agents => status[d] \in {"failed", "skipped"}

AwaitsTurn ==
    ~Stopped => \A a \in Agents :
        ToCome(a) => \/ status[a] = "pending"
                     \/ status[a] = "skipped" /\ Hopeless(a)

IInv == TypeOK /\ BatchInLevel /\ AwaitsTurn

-----------------------------------------------------------------------------
\* What is marked for a failed agent depends on it, or on another marked one.
LEMMA DoomedHopeless ==
    ASSUME NEW a \in Agents, NEW b \in Doomed(a)
    PROVE  deps[b] \cap ({a} \cup Doomed(a)) # {}
<1> DEFINE Closed(S) == Dependents({a}) \subseteq S /\ Dependents(S) \subseteq S
<1>1. SUFFICES ASSUME deps[b] \cap ({a} \cup Doomed(a)) = {} PROVE FALSE
  OBVIOUS
<1>2. /\ Doomed(a) \in SUBSET Pending
      /\ \A S \in SUBSET Pending : Closed(S) => Doomed(a) \subseteq S
  BY DEF Doomed
<1>3. Closed(Doomed(a))
  <2>1. \A S, T : S \subseteq T => Dependents(S) \subseteq Dependents(T)
    BY DEF Dependents
  <2>2. \A S : Dependents(S) \subseteq Pending
    BY DEF Dependents
  <2>3. ASSUME NEW c \in Dependents({a}) \cup Dependents(Doomed(a))
        PROVE  c \in Doomed(a)
    <3>1. c \in Pending
      BY <2>2, <2>3
    <3>2. ASSUME NEW S \in SUBSET Pending, Closed(S) PROVE c \in S
      <4>1. Doomed(a) \subseteq S
        BY <1>2, <3>2
      <4>2. Dependents(Doomed(a)) \subseteq Dependents(S)
        BY <2>1, <4>1
      <4> QED BY <2>3, <3>2, <4>2
    <3> QED BY <3>1, <3>2 DEF Doomed
  <2> QED BY <2>3
<1>4. Closed(Doomed(a) \ {b})
  BY <1>1, <1>3 DEF Dependents
<1>5. Doomed(a) \subseteq Doomed(a) \ {b}
  BY <1>2, <1>4
<1> QED BY <1>5

LEMMA InitIInv == Init => IInv
<1> SUFFICES ASSUME Init PROVE IInv
  OBVIOUS
<1>1. deps \in [Agents -> SUBSET Names]
  BY ParallelExecutionAssumption DEF Init
<1>2. TypeOK
  <2>1. /\ status \in [Agents -> Status] /\ level \in [Agents -> Nat]
        /\ timeline \in [Agents -> Seq(Entry)]
    BY EmptySeq DEF Init, Status
  <2>2. 0 \in 0..K-1 /\ 1 \in 1..K+1
    BY ParallelExecutionAssumption
  <2> QED BY <1>1, <2>1, <2>2 DEF Init, TypeOK
<1> QED BY <1>2 DEF Init, IInv, BatchInLevel, AwaitsTurn, Running

-----------------------------------------------------------------------------
\* Type correctness.

LEMMA GiveUpTypes ==
    ASSUME TypeOK, NEW S, NEW e \in Entry, GiveUp(S, e)
    PROVE  status' \in [Agents -> Status] /\ timeline' \in [Agents -> Seq(Entry)]
BY DEF TypeOK, GiveUp, Status

LEMMA NextTypes ==
    ASSUME TypeOK, [Next]_vars
    PROVE  TypeOK'
<1> USE ParallelExecutionAssumption DEF TypeOK, plan, loop
<1>1. CASE Relevel
  <2>1. level' \in [Agents -> Nat] /\ changed' \in BOOLEAN
    <3>1. PICK l \in 0..K*K : /\ level' = [level EXCEPT ![node] = l]
                             /\ changed' = (changed \/ l # level[node])
      BY <1>1 DEF Relevel
    <3>2. l \in Nat
      OBVIOUS
    <3> QED BY <3>1, <3>2
  <2>2. node' \in 1..K+1
    BY <1>1 DEF Relevel
  <2> QED BY <1>1, <2>1, <2>2 DEF Relevel
<1>2. CASE EndPass
  <2>1. CASE changed /\ PassesLeft
    <3>1. pass' \in 0..K-1 /\ node' \in 1..K+1
      BY <1>2, <2>1 DEF EndPass, PassesLeft
    <3> QED BY <1>2, <2>1, <3>1 DEF EndPass
  <2>2. CASE ~(changed /\ PassesLeft)
    BY <1>2, <2>2 DEF EndPass
  <2> QED BY <2>1, <2>2
<1>3. CASE DetectCycles
  BY <1>3 DEF DetectCycles
<1>4. CASE EnterLevel
  BY <1>4 DEF EnterLevel, AgentsOf
<1>5. CASE CancelLevels
  BY <1>5, GiveUpTypes DEF CancelLevels, Entry
<1>6. CASE StartBatch
  <2>1. status' \in [Agents -> Status] /\ timeline' \in [Agents -> Seq(Entry)]
    BY <1>6 DEF StartBatch, Status, Entry
  <2> QED BY <1>6, <2>1 DEF StartBatch
<1>7. CASE CancelBatch
  <2>1. PICK B \in SUBSET todo : GiveUp(B \cap Pending, "cancelled")
    BY <1>7 DEF CancelBatch
  <2>2. status' \in [Agents -> Status] /\ timeline' \in [Agents -> Seq(Entry)]
    BY <2>1, GiveUpTypes DEF Entry
  <2> QED BY <1>7, <2>2 DEF CancelBatch
<1>8. CASE BatchDone
  <2>1. status' \in [Agents -> Status] /\ timeline' \in [Agents -> Seq(Entry)]
    BY <1>8, GiveUpTypes DEF BatchDone, Entry
  <2> QED BY <1>8, <2>1 DEF BatchDone
<1>9. CASE LevelDone \/ LeaveLevel
  BY <1>9 DEF LevelDone, LeaveLevel
<1>10. ASSUME NEW a \in Agents, AgentCompletes(a) PROVE TypeOK'
  <2>1. timeline' \in [Agents -> Seq(Entry)]
    BY <1>10 DEF AgentCompletes, Note, Entry
  <2> QED BY <1>10, <2>1 DEF AgentCompletes, Status
<1>11. ASSUME NEW a \in Agents, AgentFails(a) PROVE TypeOK'
  <2>1. timeline' \in [Agents -> Seq(Entry)]
    BY <1>11 DEF AgentFails, Note, Entry
  <2>2. status' \in [Agents -> Status]
    BY <1>11 DEF AgentFails, Status
  <2> QED BY <1>11, <2>1, <2>2 DEF AgentFails
<1>12. CASE Abort \/ UNCHANGED vars
  BY <1>12 DEF Abort, vars
<1> QED
  BY <1>1, <1>2, <1>3, <1>4, <1>5, <1>6, <1>7, <1>8, <1>9, <1>10, <1>11, <1>12
  DEF Next, Plan, Loop, AgentEnds

-----------------------------------------------------------------------------
\* The batch.

LEMMA NextBatchInLevel ==
    ASSUME TypeOK, BatchInLevel, [Next]_vars
    PROVE  BatchInLevel'
<1> USE DEF BatchInLevel, AgentsOf, Running, plan, loop
<1>1. CASE Relevel \/ EndPass \/ DetectCycles
  BY <1>1 DEF Relevel, EndPass, DetectCycles
<1>2. CASE EnterLevel
  BY <1>2 DEF EnterLevel
<1>3. CASE CancelLevels
  BY <1>3 DEF CancelLevels, GiveUp
<1>4. CASE StartBatch
  <2>1. PICK B \in SUBSET todo :
          /\ IsNextBatch(B)
          /\ batch' = B
          /\ status' = [a \in Agents |->
                          IF a \notin B THEN status[a]
                          ELSE IF Ready(a) THEN "running" ELSE "skipped"]
    BY <1>4 DEF StartBatch
  <2>2. pc = "batch" /\ pc' = "running" /\ level' = level /\ current' = current
    BY <1>4 DEF StartBatch
  <2>3. Width(current)' = Width(current)
    BY <2>2 DEF Width
  <2>4. Running' \subseteq B /\ Cardinality(B) <= Width(current)
    BY <2>1, <2>2 DEF IsNextBatch
  <2>5. todo' \subseteq todo
    BY <1>4 DEF StartBatch
  <2> QED BY <2>1, <2>2, <2>3, <2>4, <2>5
<1>5. CASE CancelBatch
  BY <1>5 DEF CancelBatch, GiveUp
<1>6. CASE BatchDone
  <2>1. Running' = {}
    BY <1>6 DEF BatchDone, GiveUp
  <2> QED BY <1>6, <2>1 DEF BatchDone
<1>7. CASE LevelDone \/ LeaveLevel
  BY <1>7 DEF LevelDone, LeaveLevel
<1>8. ASSUME NEW a \in Agents, AgentCompletes(a) \/ AgentFails(a)
      PROVE  BatchInLevel'
  <2>1. Running' \subseteq Running
    BY <1>8 DEF AgentCompletes, AgentFails, TypeOK
  <2>2. pc = "running" /\ UNCHANGED <<pc, batch, todo, level, current>>
    BY <1>8 DEF AgentCompletes, AgentFails
  <2>3. Width(current)' = Width(current)
    BY <2>2 DEF Width
  <2> QED BY <2>1, <2>2, <2>3
<1>9. CASE Abort \/ UNCHANGED vars
  <2>1. UNCHANGED <<pc, batch, todo, level, current, status>>
    BY <1>9 DEF Abort, vars
  <2>2. Width(current)' = Width(current)
    BY <2>1 DEF Width
  <2> QED BY <2>1, <2>2
<1> QED
  BY <1>1, <1>2, <1>3, <1>4, <1>5, <1>6, <1>7, <1>8, <1>9
  DEF Next, Plan, Loop, AgentEnds

-----------------------------------------------------------------------------
\* Whose turn is still to come.

LEMMA NextAwaitsTurn ==
    ASSUME IInv, [Next]_vars
    PROVE  AwaitsTurn'
<1>1. TypeOK /\ BatchInLevel /\ AwaitsTurn
  BY DEF IInv
<1> DEFINE Waits(a) == \/ status[a] = "pending"
                       \/ status[a] = "skipped" /\ Hopeless(a)
\* It is enough that no turn comes back and that waiting agents keep waiting.
<1>2. SUFFICES ASSUME ~Stopped', NEW a \in Agents, ToCome(a)'
               PROVE  Waits(a)'
  BY DEF AwaitsTurn
<1>3. ASSUME UNCHANGED <<deps, status>>, Stopped => Stopped',
             ToCome(a)' => ToCome(a)
      PROVE  Waits(a)'
  BY <1>1, <1>2, <1>3 DEF AwaitsTurn, Hopeless
<1> USE DEF plan, loop, ToCome, Stopped, AgentsOf
<1>4. CASE Relevel \/ EndPass \/ DetectCycles
  BY <1>3, <1>4 DEF Relevel, EndPass, DetectCycles
<1>5. CASE EnterLevel
  BY <1>1, <1>2, <1>3, <1>5 DEF EnterLevel
<1>6. CASE CancelLevels \/ CancelBatch
  BY <1>2, <1>6 DEF CancelLevels, CancelBatch
<1>7. CASE StartBatch
  <2>1. PICK B \in SUBSET todo :
          /\ todo' = todo \ B
          /\ status' = [c \in Agents |->
                          IF c \notin B THEN status[c]
                          ELSE IF Ready(c) THEN "running" ELSE "skipped"]
    BY <1>7 DEF StartBatch
  <2>2. /\ pc = "batch" /\ pc' = "running" /\ ~aborted
        /\ UNCHANGED <<deps, level, current, aborted>>
    BY <1>7 DEF StartBatch
  <2>3. \A c \in Agents : ToCome(c) => Waits(c)
    BY <1>1, <2>2 DEF AwaitsTurn
  <2>4. \A c \in B : c \in Agents /\ level[c] = current /\ Waits(c)
    BY <1>1, <2>1, <2>2, <2>3 DEF BatchInLevel
  <2>5. \A c : Hopeless(c) => ~Ready(c)
    BY DEF Hopeless, Ready
  <2>6. \A d \in Agents : status[d] \in {"failed", "skipped"}
                            => status'[d] \in {"failed", "skipped"}
    BY <2>1, <2>4, <2>5
  <2>7. ToCome(a) /\ a \notin B
    BY <1>1, <1>2, <2>1, <2>2, <2>4 DEF TypeOK
  <2>8. Waits(a) /\ status'[a] = status[a]
    BY <2>1, <2>3, <2>7
  <2> QED BY <2>2, <2>6, <2>8 DEF Hopeless
<1>8. CASE BatchDone
  <2>1. CASE ~keepGoing /\ batch \cap Failed # {}
    <3>1. pc' = "levelEnd" /\ UNCHANGED <<keepGoing, level, current, aborted>>
      BY <1>8, <2>1 DEF BatchDone
    <3>2. batch \cap Failed \subseteq Failed'
      BY <1>8, <2>1 DEF BatchDone, GiveUp, Failed, From, Pending
    <3>3. AgentsOf(current)' \cap Failed' # {}
      BY <1>1, <1>8, <2>1, <3>1, <3>2 DEF BatchDone, BatchInLevel
    <3> QED BY <1>2, <2>1, <3>1, <3>3
  <2>2. CASE ~(~keepGoing /\ batch \cap Failed # {})
    BY <1>2, <1>3, <1>8, <2>2 DEF BatchDone
  <2> QED BY <2>1, <2>2
<1>9. CASE LevelDone
  BY <1>1, <1>2, <1>3, <1>9 DEF LevelDone
<1>10. CASE LeaveLevel
  BY <1>1, <1>2, <1>3, <1>10 DEF LeaveLevel, TypeOK
<1>11. ASSUME NEW b \in Agents, AgentCompletes(b) PROVE Waits(a)'
  BY <1>1, <1>2, <1>11 DEF AgentCompletes, AwaitsTurn, Hopeless, TypeOK
<1>12. ASSUME NEW b \in Agents, AgentFails(b) PROVE Waits(a)'
  <2>1. /\ UNCHANGED <<pc, deps, level, current, todo, aborted>>
        /\ pc = "running" /\ status[b] = "running"
        /\ status' = [c \in Agents |->
                        IF c = b THEN "failed"
                        ELSE IF c \in Doomed(b) THEN "skipped" ELSE status[c]]
    BY <1>12 DEF AgentFails
  <2>2. Waits(a)
    BY <1>1, <1>2, <2>1 DEF AwaitsTurn
  <2>3. \A d \in Agents : status[d] \in {"failed", "skipped"} \/ d \in {b} \cup Doomed(b)
                            => status'[d] \in {"failed", "skipped"}
    BY <2>1
  <2>4. CASE a \in Doomed(b)
    <3>1. PICK d \in deps[a] : d \in {b} \cup Doomed(b)
      BY <2>4, DoomedHopeless
    <3>2. Hopeless(a)'
      BY <2>1, <2>3, <3>1 DEF Hopeless
    <3>3. status'[a] = "skipped"
      BY <2>1, <2>2, <2>4
    <3> QED BY <3>2, <3>3
  <2>5. CASE a \notin Doomed(b)
    <3>1. status'[a] = status[a]
      BY <2>1, <2>2, <2>5
    <3> QED BY <2>1, <2>2, <2>3, <3>1 DEF Hopeless
  <2> QED BY <2>4, <2>5
<1>13. CASE Abort
  BY <1>2, <1>13 DEF Abort
<1>14. CASE UNCHANGED vars
  BY <1>3, <1>14 DEF vars, Failed
<1> QED
  BY <1>4, <1>5, <1>6, <1>7, <1>8, <1>9, <1>10, <1>11, <1>12, <1>13, <1>14
  DEF Next, Plan, Loop, AgentEnds

LEMMA NextIInv == IInv /\ [Next]_vars => IInv'
BY NextTypes, NextBatchInLevel, NextAwaitsTurn DEF IInv

THEOREM InductiveInvariant == Spec => []IInv
BY InitIInv, NextIInv, PTL DEF Spec

-----------------------------------------------------------------------------
\* The properties the run checks.

\* In every behaviour every variable has its type.
THEOREM TypeCorrect == Spec => []TypeOK
BY InductiveInvariant, PTL DEF IInv

\* However many agents a level has, no more than maxConcurrentAgents run at
\* once, and one that must run alone does.
THEOREM NeverTooMany == Spec => []ConcurrencyBounded
<1>1. IInv => ConcurrencyBounded
  <2> SUFFICES ASSUME IInv PROVE ConcurrencyBounded
    OBVIOUS
  <2>1. TypeOK /\ BatchInLevel /\ MaxAgents \in Nat \ {0} /\ K \in Nat
    BY ParallelExecutionAssumption DEF IInv
  <2>2. IsFiniteSet(Agents)
    BY <2>1, FS_Interval DEF Agents
  <2>3. CASE Running = {}
    BY <2>1, <2>3, FS_EmptySet DEF ConcurrencyBounded
  <2>4. CASE Running # {}
    <3>1. /\ batch \subseteq AgentsOf(current) /\ Running \subseteq batch
          /\ Cardinality(batch) <= Width(current)
      BY <2>1, <2>4 DEF BatchInLevel
    <3>2. IsFiniteSet(batch)
      BY <2>1, <2>2, FS_Subset DEF TypeOK
    <3>3. /\ Cardinality(Running) \in Nat /\ Cardinality(batch) \in Nat
          /\ Cardinality(Running) <= Cardinality(batch)
      BY <3>1, <3>2, FS_Subset, FS_CardinalityType
    <3>4. Cardinality(Running) # 0
      BY <2>4, <3>1, <3>2, FS_Subset, FS_EmptySet
    <3>5. Running \cap Serial # {} => Width(current) = 1
      BY <3>1 DEF Width
    <3> QED BY <2>1, <3>1, <3>3, <3>4, <3>5 DEF Width, ConcurrencyBounded
  <2> QED BY <2>3, <2>4
<1> QED BY <1>1, InductiveInvariant, PTL

-----------------------------------------------------------------------------
\* The abstract task graph.

LEMMA InitTasks == Init => Tasks!Init
<1> SUFFICES ASSUME Init PROVE Tasks!Init
  OBVIOUS
<1>1. deps \in [Agents -> SUBSET Names]
  BY ParallelExecutionAssumption DEF Init
<1> QED BY <1>1 DEF Init, Tasks!Init

LEMMA StepTasks ==
    ASSUME IInv, [Next]_vars
    PROVE  [Tasks!Advance]_(Tasks!vars)
<1>1. TypeOK /\ TypeOK' /\ BatchInLevel /\ AwaitsTurn
  BY NextTypes DEF IInv
<1> USE DEF Tasks!May, Tasks!Ready, Tasks!Status, Tasks!vars, plan, loop
<1>2. SUFFICES (\A a \in Agents : Tasks!May(a, status'[a])) /\ UNCHANGED deps
  BY <1>1 DEF TypeOK, Status, Tasks!Advance
<1>3. CASE UNCHANGED <<status, deps>>
  BY <1>3
<1>4. ASSUME NEW S \in SUBSET Pending, NEW e, GiveUp(S, e), UNCHANGED deps
      PROVE  (\A a \in Agents : Tasks!May(a, status'[a])) /\ UNCHANGED deps
  BY <1>4 DEF GiveUp, Pending
<1>5. CASE CancelLevels
  BY <1>4, <1>5 DEF CancelLevels, From
<1>6. CASE CancelBatch
  BY <1>4, <1>6 DEF CancelBatch
<1>7. CASE BatchDone
  BY <1>3, <1>4, <1>7 DEF BatchDone, From
<1>8. CASE StartBatch
  <2>1. PICK B \in SUBSET todo :
          status' = [c \in Agents |->
                       IF c \notin B THEN status[c]
                       ELSE IF Ready(c) THEN "running" ELSE "skipped"]
    BY <1>8 DEF StartBatch
  <2>2. \A c \in B : \/ status[c] = "pending"
                     \/ status[c] = "skipped" /\ ~Ready(c)
    BY <1>1, <1>8, <2>1
    DEF StartBatch, AwaitsTurn, ToCome, Stopped, TypeOK, Hopeless, Ready
  <2> QED BY <1>8, <2>1, <2>2 DEF StartBatch, Ready
<1>9. ASSUME NEW a \in Agents, AgentCompletes(a) \/ AgentFails(a)
      PROVE  (\A b \in Agents : Tasks!May(b, status'[b])) /\ UNCHANGED deps
  BY <1>1, <1>9 DEF AgentCompletes, AgentFails, Doomed, Pending, TypeOK
<1> QED
  BY <1>3, <1>5, <1>6, <1>7, <1>8, <1>9
  DEF Next, Plan, Loop, AgentEnds, Relevel, EndPass, DetectCycles, EnterLevel,
      LevelDone, LeaveLevel, Abort, vars

\* Every step of the executor is one the task graph allows: agents are started
\* once, behind their dependencies, and what was given up stays so.
THEOREM Implements == Spec => ImplementsTasks
BY InitTasks, StepTasks, InductiveInvariant, PTL
DEF Spec, ImplementsTasks, Tasks!Spec

-----------------------------------------------------------------------------
\* Failures that stop.

\* When agents are not to go on, a failure lies in the batch that runs, or the
\* loops are on their way out.
FailureStops ==
    ~keepGoing /\ Failed # {} =>
        \/ pc = "running" /\ batch \cap Failed # {}
        \/ pc = "levelEnd" /\ AgentsOf(current) \cap Failed # {}
        \/ pc = "done"

LEMMA NextFailureStops ==
    ASSUME IInv, FailureStops, [Next]_vars
    PROVE  FailureStops'
<1>1. TypeOK /\ BatchInLevel
  BY DEF IInv
<1>2. SUFFICES ASSUME ~keepGoing', Failed' # {}
               PROVE  \/ pc' = "running" /\ (batch \cap Failed)' # {}
                      \/ pc' = "levelEnd" /\ (AgentsOf(current) \cap Failed)' # {}
                      \/ pc' = "done"
  BY DEF FailureStops
<1> USE DEF plan, loop, Failed, AgentsOf
<1>3. CASE UNCHANGED status
  BY <1>1, <1>2, <1>3
  DEF Next, Plan, Loop, AgentEnds, Relevel, EndPass, DetectCycles, EnterLevel,
      CancelLevels, StartBatch, CancelBatch, BatchDone, BatchInLevel, LevelDone,
      LeaveLevel, AgentCompletes, AgentFails, Abort, vars, FailureStops
<1>4. CASE CancelLevels
  BY <1>4 DEF CancelLevels
<1>5. CASE StartBatch
  <2>1. Failed = {}
    BY <1>2, <1>5 DEF StartBatch, FailureStops
  <2> QED BY <1>2, <1>5, <2>1 DEF StartBatch
<1>6. CASE CancelBatch
  <2>1. Failed = {}
    BY <1>2, <1>6 DEF CancelBatch, FailureStops
  <2> QED BY <1>2, <1>6, <2>1 DEF CancelBatch, GiveUp
<1>7. CASE BatchDone /\ ~(UNCHANGED status)
  <2>1. batch \cap Failed \subseteq Failed'
    BY <1>7 DEF BatchDone, GiveUp, From, Pending
  <2> QED BY <1>1, <1>7, <2>1 DEF BatchDone, BatchInLevel
<1>8. ASSUME NEW a \in Agents, AgentCompletes(a) PROVE FailureStops'
  <2>1. Failed' = Failed /\ pc = "running" /\ UNCHANGED <<pc, keepGoing, batch>>
    BY <1>1, <1>8 DEF AgentCompletes, TypeOK
  <2> QED BY <2>1 DEF FailureStops
<1>9. ASSUME NEW a \in Agents, AgentFails(a) PROVE FailureStops'
  <2>1. a \in batch /\ a \in Failed' /\ pc' = "running" /\ batch' = batch
    BY <1>1, <1>9 DEF AgentFails, BatchInLevel, Running, TypeOK
  <2> QED BY <2>1 DEF FailureStops
<1> QED
  BY <1>2, <1>3, <1>4, <1>5, <1>6, <1>7, <1>8, <1>9
  DEF Next, Plan, Loop, AgentEnds, Relevel, EndPass, DetectCycles, EnterLevel,
      LevelDone, LeaveLevel, Abort, vars, FailureStops

\* Nothing is started behind an abort, nor behind a failure when agents are not
\* to go on: a batch is begun only while neither has happened.
THEOREM StopsStarting == Spec => NothingStartedLate
<1> DEFINE Late == \A a \in Agents :
                     status[a] # "running" /\ status'[a] = "running" =>
                         ~aborted /\ (keepGoing \/ Failed = {})
<1>1. Init => FailureStops
  BY DEF Init, FailureStops, Failed
<1>2. ASSUME IInv, FailureStops, [Next]_vars PROVE Late
  <2> SUFFICES ASSUME NEW a \in Agents, status[a] # "running",
                      status'[a] = "running"
               PROVE  ~aborted /\ (keepGoing \/ Failed = {})
    OBVIOUS
  <2>1. StartBatch
    BY <1>2
    DEF Next, Plan, Loop, AgentEnds, Relevel, EndPass, DetectCycles, EnterLevel,
        CancelLevels, CancelBatch, BatchDone, LevelDone, LeaveLevel, GiveUp,
        AgentCompletes, AgentFails, Abort, vars, plan, loop, IInv, TypeOK
  <2> QED BY <1>2, <2>1 DEF StartBatch, FailureStops
<1>3. IInv /\ FailureStops /\ [Next]_vars => [Late]_vars
  BY <1>2
<1> QED
  BY <1>1, <1>3, NextFailureStops, InductiveInvariant, PTL
  DEF Spec, NothingStartedLate

-----------------------------------------------------------------------------
\* The levels.  A set of agents that hold all they depend on, each with its
\* right level, keeps its levels; every pass over an acyclic graph adds an agent
\* to it, so that K passes are enough.

Below(a) == deps[a] \cap Agents
Right(a) == IsAbove(level[a], Below(a))

Grounded(S) == \A a \in S : Below(a) \subseteq S /\ Right(a)

\* How far the pass has brought it: it has one agent more than passes were
\* ended, or meets that agent before the pass ends.
Grows(S) ==
    \/ S = Agents
    \/ Cardinality(S) >= pass + 1
    \/ /\ Cardinality(S) >= pass
       /\ \E a \in Agents \ S : Below(a) \subseteq S /\ a >= node

LevelsInv ==
    /\ pc = "levels" => /\ ~Cyclic => \E S \in SUBSET Agents : Grounded(S) /\ Grows(S)
                        /\ ~changed => \A a \in Agents : a < node => Right(a)
    /\ pc # "levels" /\ ~Cyclic => \A a \in Agents : Right(a)
    /\ pc \notin {"levels", "cycles", "rejected"} => ~Cyclic

\* Some agent depends on none of those that are left.
LEMMA NextGrounded ==
    ASSUME ~Cyclic, NEW S \in SUBSET Agents, S # Agents
    PROVE  \E a \in Agents \ S : Below(a) \subseteq S
<1>1. Agents \ S \in (SUBSET Agents) \ {{}}
  OBVIOUS
<1>2. PICK a \in Agents \ S : deps[a] \cap (Agents \ S) = {}
  BY <1>1 DEF Cyclic
<1> QED BY <1>2 DEF Below

LEMMA OneLevel ==
    ASSUME TypeOK, NEW below \in SUBSET Agents, NEW l \in Nat, NEW m \in Nat,
           IsAbove(l, below), IsAbove(m, below)
    PROVE  l = m
<1>1. CASE below = {}
  BY <1>1 DEF IsAbove
<1>2. CASE below # {}
  <2>1. PICK d \in below : level[d] = l - 1
    BY <1>2 DEF IsAbove
  <2>2. PICK e \in below : level[e] = m - 1
    BY <1>2 DEF IsAbove
  <2>3. level[d] < m /\ level[e] < l
    BY <1>2 DEF IsAbove
  <2>4. level[d] \in Nat /\ level[e] \in Nat
    BY DEF TypeOK
  <2> QED BY <2>1, <2>2, <2>3, <2>4
<1> QED BY <1>1, <1>2

\* What a step of a pass does to agents that do not depend on its node.
LEMMA RelevelKeeps ==
    ASSUME TypeOK, NEW n \in Agents, NEW l \in Nat, level' = [level EXCEPT ![n] = l], deps' = deps,
           NEW a \in Agents, Right(a), a # n, n \notin Below(a)
    PROVE  Right(a)'
<1>1. \A b \in Agents : b # n => level'[b] = level[b]
  BY DEF TypeOK
<1>2. Below(a)' = Below(a) /\ Below(a) \subseteq Agents
  BY DEF Below
<1> QED BY <1>1, <1>2 DEF Right, IsAbove

LEMMA RelevelSettles ==
    ASSUME TypeOK, NEW n \in Agents, NEW l \in Nat, level' = [level EXCEPT ![n] = l], deps' = deps,
           IsAbove(l, Below(n)), n \notin Below(n)
    PROVE  Right(n)'
<1>1. level'[n] = l /\ \A b \in Agents : b # n => level'[b] = level[b]
  BY DEF TypeOK
<1>2. Below(n)' = Below(n) /\ Below(n) \subseteq Agents
  BY DEF Below
<1> QED BY <1>1, <1>2 DEF Right, IsAbove

LEMMA RelevelLevels ==
    ASSUME TypeOK, LevelsInv, Relevel
    PROVE  LevelsInv'
<1>1. PICK n \in Agents :
      /\ n = node /\ node' = n + 1 /\ pc = "levels" /\ pc' = "levels"
      /\ pass' = pass /\ deps' = deps /\ K \in Nat /\ pass \in Nat
  BY ParallelExecutionAssumption DEF Relevel, TypeOK, Agents
<1>2. PICK l \in Nat : /\ IsAbove(l, Below(n))
                       /\ level' = [level EXCEPT ![n] = l]
                       /\ changed' = (changed \/ l # level[n])
  <2>1. K * K \in Nat
    BY <1>1
  <2>2. \A l \in 0..K*K : l \in Nat
    BY <2>1
  <2> QED BY <1>1, <2>2 DEF Relevel, Below
<1>3. level[n] \in Nat /\ Below(n) \in SUBSET Agents
  BY <1>1 DEF TypeOK, Below
<1>4. l = level[n] => level' = level
  BY <1>1, <1>2 DEF TypeOK
<1>5. (\A a \in Agents : Below(a)' = Below(a)) /\ (Cyclic' <=> Cyclic)
  BY <1>1 DEF Below, Cyclic
<1>6. ASSUME ~Cyclic PROVE \E S \in SUBSET Agents : Grounded(S)' /\ Grows(S)'
  <2>1. n \notin Below(n)
    <3>1. {n} \in (SUBSET Agents) \ {{}}
      BY <1>1
    <3> QED BY <1>6, <3>1 DEF Cyclic, Below
  <2>2. PICK S \in SUBSET Agents : Grounded(S) /\ Grows(S)
    BY <1>1, <1>6 DEF LevelsInv
  <2>3. CASE n \in S
    <3>1. l = level[n]
      BY <1>2, <1>3, <2>2, <2>3, OneLevel DEF Grounded, Right
    <3>2. Grounded(S)'
      BY <1>4, <1>5, <2>2, <3>1 DEF Grounded, Right, IsAbove
    <3>3. \A a \in Agents \ S : a >= node => a >= node'
      BY <1>1, <2>3 DEF Agents
    <3>4. Grows(S)'
      BY <1>1, <1>5, <2>2, <3>3 DEF Grows
    <3> QED BY <3>2, <3>4
  <2>4. CASE n \notin S
    <3>1. \A a \in S : Below(a) \subseteq S /\ Right(a)'
      BY <1>1, <1>2, <2>2, <2>4, RelevelKeeps DEF Grounded
    <3>2. CASE Below(n) \subseteq S
      <4>1. Right(n)'
        BY <1>1, <1>2, <2>1, RelevelSettles
      <4>2. Grounded(S \cup {n})'
        BY <1>5, <3>1, <3>2, <4>1 DEF Grounded
      <4>3. IsFiniteSet(S) /\ Cardinality(S) \in Nat
        <5>1. IsFiniteSet(Agents)
          BY <1>1, FS_Interval DEF Agents
        <5> QED BY <5>1, FS_Subset, FS_CardinalityType
      <4>4. Cardinality(S \cup {n}) = Cardinality(S) + 1
        BY <2>4, <4>3, FS_AddElement
      <4>5. Cardinality(S) >= pass
        BY <1>1, <2>2, <2>4, <4>3 DEF Grows
      <4>6. Grows(S \cup {n})'
        <5>1. Cardinality(S \cup {n}) >= pass' + 1
          BY <1>1, <4>3, <4>4, <4>5
        <5> QED BY <5>1 DEF Grows
      <4>7. S \cup {n} \in SUBSET Agents
        BY <1>1
      <4> QED BY <4>2, <4>6, <4>7
    <3>3. CASE ~(Below(n) \subseteq S)
      <4>1. \A a \in Agents : Below(a) \subseteq S /\ a >= node => a >= node'
        BY <1>1, <3>3 DEF Agents
      <4>2. Grows(S)'
        BY <1>1, <1>5, <2>2, <4>1 DEF Grows
      <4>3. Grounded(S)'
        BY <1>5, <3>1 DEF Grounded
      <4> QED BY <4>2, <4>3
    <3> QED BY <3>2, <3>3
  <2> QED BY <2>3, <2>4
<1>7. ASSUME ~changed' PROVE \A a \in Agents : a < node' => Right(a)'
  <2>1. ~changed /\ l = level[n] /\ level' = level
    BY <1>2, <1>4, <1>7
  <2>2. \A a \in Agents : a < node' => a < node \/ a = n
    BY <1>1 DEF Agents
  <2>3. \A a \in Agents : a < node' => Right(a)
    BY <1>1, <1>2, <2>1, <2>2 DEF LevelsInv, Right
  <2> QED BY <1>5, <2>1, <2>3 DEF Right, IsAbove
<1> QED BY <1>1, <1>5, <1>6, <1>7 DEF LevelsInv

LEMMA EndPassLevels ==
    ASSUME TypeOK, LevelsInv, EndPass
    PROVE  LevelsInv'
<1>1. /\ pc = "levels" /\ node = K + 1 /\ UNCHANGED <<deps, level>>
      /\ K \in Nat \ {0} /\ pass \in Nat
  BY ParallelExecutionAssumption DEF EndPass, TypeOK
<1>2. /\ Cyclic' <=> Cyclic
      /\ \A a \in Agents : Below(a)' = Below(a) /\ (Right(a)' <=> Right(a))
  BY <1>1 DEF Cyclic, Below, Right, IsAbove
<1>3. \A a \in Agents : 1 <= a /\ a < node
  BY <1>1 DEF Agents
<1>4. ASSUME ~Cyclic
      PROVE  \E S \in SUBSET Agents : Grounded(S) /\ (S = Agents \/ Cardinality(S) >= pass + 1)
  <2>1. PICK S \in SUBSET Agents : Grounded(S) /\ Grows(S)
    BY <1>1, <1>4 DEF LevelsInv
  <2>2. \A a \in Agents : ~(a >= node)
    BY <1>1 DEF Agents
  <2> QED BY <2>1, <2>2 DEF Grows
<1>5. CASE changed /\ PassesLeft
  <2>1. pc' = pc /\ pass' = pass + 1 /\ node' = 1 /\ changed' = FALSE
    BY <1>5 DEF EndPass
  <2>2. ASSUME ~Cyclic PROVE \E S \in SUBSET Agents : Grounded(S)' /\ Grows(S)'
    <3>1. PICK S \in SUBSET Agents : Grounded(S) /\ (S = Agents \/ Cardinality(S) >= pass + 1)
      BY <1>4, <2>2
    <3>2. Grounded(S)'
      BY <1>2, <3>1 DEF Grounded
    <3>3. S # Agents => \E a \in Agents \ S : Below(a)' \subseteq S /\ a >= node'
      <4>1. \A a \in Agents : a >= node'
        BY <2>1 DEF Agents
      <4> QED BY <1>2, <2>2, <4>1, NextGrounded
    <3>4. S = Agents \/ Cardinality(S) >= pass'
      BY <2>1, <3>1
    <3> QED BY <3>2, <3>3, <3>4 DEF Grows
  <2>3. \A a \in Agents : ~(a < node')
    BY <2>1 DEF Agents
  <2> QED BY <1>1, <1>2, <2>1, <2>2, <2>3 DEF LevelsInv
<1>6. CASE ~(changed /\ PassesLeft)
  <2>1. pc' = "cycles"
    BY <1>6 DEF EndPass
  <2>2. ASSUME ~Cyclic PROVE \A a \in Agents : Right(a)
    <3>1. CASE ~changed
      BY <1>1, <1>3, <3>1 DEF LevelsInv
    <3>2. CASE changed
      <4>1. pass + 1 >= K
        BY <1>1, <1>6, <3>2 DEF PassesLeft
      <4>2. PICK S \in SUBSET Agents : Grounded(S) /\ (S = Agents \/ Cardinality(S) >= pass + 1)
        BY <1>4, <2>2
      <4>3. IsFiniteSet(Agents) /\ Cardinality(Agents) = K
        BY <1>1, FS_Interval DEF Agents
      <4>4. S = Agents
        <5>1. /\ IsFiniteSet(S) /\ Cardinality(S) \in Nat /\ Cardinality(S) <= K
              /\ Cardinality(S) = K => S = Agents
          BY <4>3, FS_Subset, FS_CardinalityType
        <5> QED BY <1>1, <4>1, <4>2, <5>1
      <4> QED BY <4>2, <4>4 DEF Grounded
    <3> QED BY <3>1, <3>2
  <2> QED BY <1>2, <2>1, <2>2 DEF LevelsInv
<1> QED BY <1>5, <1>6

LEMMA NextLevels ==
    ASSUME TypeOK, LevelsInv, [Next]_vars
    PROVE  LevelsInv'
<1>1. CASE UNCHANGED vars
  BY <1>1 DEF vars, plan, LevelsInv, Cyclic, Grounded, Grows, Below, Right, IsAbove
<1>2. ASSUME UNCHANGED <<deps, level>>, pc # "levels", pc' # "levels",
             pc' \notin {"cycles", "rejected"} => ~Cyclic
      PROVE  LevelsInv'
  <2>1. /\ Cyclic' <=> Cyclic
        /\ \A a \in Agents : Right(a) => Right(a)'
    BY <1>2 DEF Cyclic, Below, Right, IsAbove
  <2> QED BY <1>2, <2>1 DEF LevelsInv
<1>3. CASE DetectCycles
  BY <1>2, <1>3 DEF DetectCycles, plan
<1>4. CASE EnterLevel \/ CancelLevels \/ StartBatch \/ CancelBatch \/ BatchDone \/ LevelDone \/ LeaveLevel
           \/ Abort \/ AgentEnds
  <2>1. /\ UNCHANGED <<deps, level>>
        /\ pc \notin {"levels", "cycles", "rejected"} /\ pc' # "levels"
    BY <1>4
    DEF EnterLevel, CancelLevels, StartBatch, CancelBatch, BatchDone, LevelDone, LeaveLevel,
        Abort, AgentEnds, AgentCompletes, AgentFails, plan
  <2>2. ~Cyclic
    BY <2>1 DEF LevelsInv
  <2> QED BY <1>2, <2>1, <2>2
<1> QED
  BY <1>1, <1>3, <1>4, RelevelLevels, EndPassLevels DEF Next, Plan, Loop

-----------------------------------------------------------------------------
\* The work.

\* These agents had their turn.
Past(a) ==
    \/ pc = "done"
    \/ level[a] < current
    \/ level[a] = current /\ pc = "levelEnd"
    \/ level[a] = current /\ pc \in {"batch", "running"} /\ a \notin todo

\* While nothing stops the executor: what was started had all it depends on,
\* what was skipped can have it no more, and nobody is passed over.
WorkInv ==
    /\ pc \in {"levels", "cycles"} => current = 0
    /\ keepGoing /\ ~aborted => \A a \in Agents :
         /\ status[a] \in {"running", "completed", "failed"} => Ready(a)
         /\ status[a] = "skipped" => Hopeless(a)
         /\ Past(a) => status[a] # "pending"

\* What one agent may rely on in its dependencies stays.
LEMMA EndsStay ==
    ASSUME UNCHANGED deps,
           \A d \in Agents : status[d] \in {"completed", "failed", "skipped"} => status'[d] = status[d]
    PROVE  \A a \in Agents : (Ready(a) => Ready(a)') /\ (Hopeless(a) => Hopeless(a)')
BY DEF Ready, Hopeless

LEMMA StartWork ==
    ASSUME IInv, LevelsInv, WorkInv, StartBatch, keepGoing, ~aborted, NEW a \in Agents
    PROVE  /\ status'[a] \in {"running", "completed", "failed"} => Ready(a)'
           /\ status'[a] = "skipped" => Hopeless(a)'
           /\ Past(a)' => status'[a] # "pending"
<1>1. PICK B \in SUBSET todo :
        /\ todo' = todo \ B
        /\ status' = [c \in Agents |->
                        IF c \notin B THEN status[c]
                        ELSE IF Ready(c) THEN "running" ELSE "skipped"]
  BY DEF StartBatch
<1>2. pc = "batch" /\ pc' = "running" /\ UNCHANGED <<deps, level, current>>
  BY DEF StartBatch, plan
<1>3. \A c \in B : /\ c \in Agents /\ level[c] = current
                   /\ status[c] = "pending" \/ (status[c] = "skipped" /\ Hopeless(c))
  <2>1. ~Stopped /\ AwaitsTurn
    BY <1>2 DEF Stopped, IInv
  <2>2. \A c \in B : c \in Agents /\ level[c] = current /\ ToCome(c)
    BY <1>1, <1>2 DEF IInv, BatchInLevel, AgentsOf, ToCome
  <2>3. \A c \in Agents : ToCome(c) => status[c] = "pending" \/ (status[c] = "skipped" /\ Hopeless(c))
    BY <2>1 DEF AwaitsTurn
  <2> QED BY <2>2, <2>3
<1>4. \A c : Hopeless(c) => ~Ready(c)
  BY DEF Hopeless, Ready
<1>5. \A d \in Agents : status[d] \in {"completed", "failed", "skipped"} => status'[d] = status[d]
  BY <1>1, <1>3, <1>4
<1>6. (Ready(a) => Ready(a)') /\ (Hopeless(a) => Hopeless(a)')
  BY <1>2, <1>5, EndsStay
<1>7. CASE a \notin B
  <2>1. status'[a] = status[a]
    BY <1>1, <1>7
  <2>2. Past(a)' => Past(a)
    BY <1>1, <1>2, <1>7 DEF Past
  <2> QED BY <1>6, <2>1, <2>2 DEF WorkInv
<1>8. CASE a \in B /\ Ready(a)
  BY <1>1, <1>6, <1>8
<1>9. CASE a \in B /\ ~Ready(a)
  <2>1. status'[a] = "skipped"
    BY <1>1, <1>9
  <2>2. PICK d \in deps[a] : ~(d \in Agents /\ status[d] = "completed")
    BY <1>9 DEF Ready
  <2>3. CASE d \in Agents
    <3>1. Right(a)
      BY <1>2 DEF LevelsInv
    <3>2. level[d] < current
      BY <1>3, <1>9, <2>2, <2>3, <3>1 DEF Right, IsAbove, Below
    <3>3. status[d] # "pending"
      BY <2>3, <3>2 DEF WorkInv, Past
    <3>4. status[d] # "running"
      BY <1>2, <2>3 DEF IInv, BatchInLevel, Running
    <3>5. status[d] \in {"failed", "skipped"}
      BY <2>2, <2>3, <3>3, <3>4 DEF IInv, TypeOK, Status
    <3> QED BY <1>6, <2>1, <2>2, <3>5 DEF Hopeless
  <2>4. CASE d \notin Agents
    BY <1>6, <2>1, <2>2, <2>4 DEF Hopeless
  <2> QED BY <2>3, <2>4
<1> QED BY <1>7, <1>8, <1>9

LEMMA EndWork ==
    ASSUME IInv, WorkInv, NEW b \in Agents, AgentCompletes(b) \/ AgentFails(b), keepGoing, ~aborted,
           NEW a \in Agents
    PROVE  /\ status'[a] \in {"running", "completed", "failed"} => Ready(a)'
           /\ status'[a] = "skipped" => Hopeless(a)'
           /\ Past(a)' => status'[a] # "pending"
<1>1. /\ pc = "running" /\ status[b] = "running"
      /\ UNCHANGED <<pc, deps, level, current, todo>>
  BY DEF AgentCompletes, AgentFails, plan, loop
<1>2. PICK D \in SUBSET Pending :
        /\ D = {} \/ (D = Doomed(b) /\ status'[b] = "failed")
        /\ status'[b] \in {"completed", "failed"}
        /\ \A c \in Agents \ {b} : status'[c] = IF c \in D THEN "skipped" ELSE status[c]
  <2>1. CASE AgentCompletes(b)
    <3>1. status'[b] = "completed" /\ \A c \in Agents \ {b} : status'[c] = status[c]
      BY <2>1 DEF AgentCompletes, IInv, TypeOK
    <3>2. {} \in SUBSET Pending
      OBVIOUS
    <3> QED BY <3>1, <3>2
  <2>2. CASE AgentFails(b)
    <3>1. Doomed(b) \in SUBSET Pending
      BY DEF Doomed
    <3>2. /\ status'[b] = "failed"
          /\ \A c \in Agents \ {b} : status'[c] = IF c \in Doomed(b) THEN "skipped" ELSE status[c]
      BY <2>2 DEF AgentFails
    <3> QED BY <3>1, <3>2
  <2> QED BY <2>1, <2>2
<1>3. \A d \in Agents : status[d] \in {"completed", "failed", "skipped"} => status'[d] = status[d]
  BY <1>1, <1>2 DEF Pending
<1>4. (Ready(a) => Ready(a)') /\ (Hopeless(a) => Hopeless(a)')
  BY <1>1, <1>3, EndsStay
<1>5. Past(a)' => Past(a)
  BY <1>1 DEF Past
<1>6. CASE a = b
  BY <1>1, <1>2, <1>4, <1>6 DEF WorkInv
<1>7. CASE a # b /\ a \in D
  <2>1. D = Doomed(b) /\ status'[b] = "failed" /\ status'[a] = "skipped"
    BY <1>2, <1>7
  <2>2. PICK d \in deps[a] : d \in {b} \cup Doomed(b)
    BY <1>7, <2>1, DoomedHopeless
  <2>3. d = b \/ (d \in Agents /\ d # b /\ d \in D)
    BY <2>1, <2>2 DEF Doomed, Pending
  <2>4. status'[d] \in {"failed", "skipped"}
    BY <1>2, <2>1, <2>3
  <2> QED BY <1>1, <2>1, <2>2, <2>4 DEF Hopeless
<1>8. CASE a # b /\ a \notin D
  <2>1. status'[a] = status[a]
    BY <1>2, <1>8
  <2> QED BY <1>4, <1>5, <2>1 DEF WorkInv
<1> QED BY <1>6, <1>7, <1>8

LEMMA NextWork ==
    ASSUME IInv, LevelsInv, WorkInv, [Next]_vars
    PROVE  WorkInv'
<1>1. TypeOK
  BY DEF IInv
<1>2. pc' \in {"levels", "cycles"} => current' = 0
  BY DEF Next, Plan, Loop, AgentEnds, Relevel, EndPass, DetectCycles, EnterLevel, CancelLevels, StartBatch,
         CancelBatch, BatchDone, LevelDone, LeaveLevel, AgentCompletes, AgentFails, Abort, vars, plan, loop,
         WorkInv
<1>3. SUFFICES ASSUME keepGoing', ~aborted', NEW a \in Agents
               PROVE  /\ status'[a] \in {"running", "completed", "failed"} => Ready(a)'
                      /\ status'[a] = "skipped" => Hopeless(a)'
                      /\ Past(a)' => status'[a] # "pending"
  BY <1>2 DEF WorkInv
<1>4. keepGoing /\ ~aborted
  <2>1. keepGoing' = keepGoing /\ (aborted' = aborted \/ aborted' = TRUE)
    BY DEF Next, Plan, Loop, AgentEnds, Relevel, EndPass, DetectCycles, EnterLevel, CancelLevels, StartBatch,
           CancelBatch, BatchDone, LevelDone, LeaveLevel, AgentCompletes, AgentFails, Abort, vars
  <2> QED BY <1>3, <2>1
<1>5. ASSUME UNCHANGED <<deps, status>>, Past(a)' => Past(a)
      PROVE  /\ status'[a] \in {"running", "completed", "failed"} => Ready(a)'
             /\ status'[a] = "skipped" => Hopeless(a)'
             /\ Past(a)' => status'[a] # "pending"
  BY <1>4, <1>5 DEF WorkInv, Ready, Hopeless
<1>6. level[a] \in Nat /\ current \in Nat
  BY <1>1 DEF TypeOK
<1>7. CASE Relevel \/ EndPass \/ DetectCycles
  <2>1. UNCHANGED <<deps, status>> /\ pc' \in {"levels", "cycles", "level", "rejected"} /\ current' = 0
    BY <1>7 DEF Relevel, EndPass, DetectCycles, plan, loop, WorkInv
  <2>2. level'[a] \in Nat
    BY <1>1, NextTypes DEF TypeOK
  <2>3. ~Past(a)'
    BY <2>1, <2>2 DEF Past
  <2> QED BY <1>5, <2>1, <2>3
<1>8. CASE EnterLevel
  BY <1>5, <1>8 DEF EnterLevel, Past, AgentsOf, plan
<1>9. CASE LevelDone
  BY <1>5, <1>9 DEF LevelDone, Past, plan, loop
<1>10. CASE LeaveLevel
  BY <1>4, <1>5, <1>6, <1>10 DEF LeaveLevel, Past, plan
<1>11. CASE BatchDone
  BY <1>4, <1>5, <1>11 DEF BatchDone, Past, plan, loop
<1>12. CASE UNCHANGED vars
  BY <1>5, <1>12 DEF vars, Past, plan, loop
<1>13. CASE CancelLevels \/ CancelBatch \/ Abort
  BY <1>3, <1>4, <1>13 DEF CancelLevels, CancelBatch, Abort
<1> QED
  BY <1>4, <1>7, <1>8, <1>9, <1>10, <1>11, <1>12, <1>13, StartWork, EndWork DEF Next, Plan, Loop, AgentEnds

\* When agents are to go on and nobody aborts, the levels, the batches, the marks
\* of failed agents' dependents and the check before a start agree in the end:
\* who could run did, and nobody else.
THEOREM AllWorkDone == Spec => []IndependentWorkDone
<1>1. Init => LevelsInv /\ WorkInv
  <2> SUFFICES ASSUME Init PROVE LevelsInv /\ WorkInv
    OBVIOUS
  <2>1. pc = "levels" /\ node = 1 /\ pass = 0 /\ current = 0 /\ aborted = FALSE
    BY DEF Init
  <2>2. \A a \in Agents : status[a] = "pending" /\ level[a] = 0 /\ a >= node /\ ~(a < node)
    BY <2>1 DEF Init, Agents
  <2>3. ASSUME ~Cyclic PROVE \E S \in SUBSET Agents : Grounded(S) /\ Grows(S)
    <3>1. PICK S \in SUBSET Agents : S = {}
      OBVIOUS
    <3>2. Cardinality(S) >= pass
      BY <2>1, <3>1, FS_EmptySet
    <3>3. S # Agents => \E a \in Agents \ S : Below(a) \subseteq S
      BY <2>3, NextGrounded
    <3> QED BY <2>2, <3>1, <3>2, <3>3 DEF Grounded, Grows
  <2>4. \A a \in Agents : ~Past(a)
    BY <2>1, <2>2 DEF Past
  <2> QED BY <2>1, <2>2, <2>3, <2>4 DEF LevelsInv, WorkInv
<1>2. IInv /\ LevelsInv /\ WorkInv /\ [Next]_vars => LevelsInv' /\ WorkInv'
  BY NextLevels, NextWork DEF IInv
<1>3. IInv /\ WorkInv => IndependentWorkDone
  <2> SUFFICES ASSUME IInv, WorkInv, pc = "done", keepGoing, ~aborted, NEW a \in Agents
               PROVE  IF Ready(a) THEN status[a] \in {"completed", "failed"} ELSE status[a] = "skipped"
    BY DEF IndependentWorkDone
  <2>1. status[a] \in {"completed", "failed", "skipped"}
    BY DEF WorkInv, Past, IInv, TypeOK, Status, BatchInLevel, Running
  <2>2. Hopeless(a) => ~Ready(a)
    BY DEF Hopeless, Ready
  <2> QED BY <2>1, <2>2 DEF WorkInv
<1> QED BY <1>1, <1>2, <1>3, InductiveInvariant, PTL DEF Spec

-----------------------------------------------------------------------------
\* Steps that choose a level or a batch always have one to choose.
ChoicesExist ==
    /\ pc = "levels" /\ node <= K => \E l \in 0..K*K : IsAbove(l, deps[node] \cap Agents)
    /\ pc = "batch" /\ todo # {} => \E B \in SUBSET todo : IsNextBatch(B)

\* No level is higher than the number of nodes that have been visited.
Visited == pass * K + node - 1
LevelsBelow == pc = "levels" => \A a \in Agents : level[a] <= Visited

-----------------------------------------------------------------------------
\* Numbers have a smallest one among them.
LEMMA Smallest ==
    ASSUME NEW T \in SUBSET Nat, T # {}
    PROVE  \E n \in T : \A j \in T : n <= j
<1>1. PICK n \in T : \A j \in T : ~(<<j, n>> \in OpToRel(<, Nat))
  BY NatLessThanWellFounded, WFMin
<1>2. ASSUME NEW j \in T PROVE n <= j
  <2>1. ~(j < n)
    BY <1>1 DEF OpToRel
  <2> QED BY <2>1
<1> QED BY <1>2

\* Numbers that count upwards reach any bound.
LEMMA Upwards ==
    ASSUME NEW S \in SUBSET Nat, 0 \in S, \A n \in S : n + 1 \in S, NEW m \in Nat
    PROVE  m \in S
<1> SUFFICES ASSUME m \notin S PROVE FALSE
  OBVIOUS
<1>1. PICK T : T = Nat \ S
  OBVIOUS
<1>2. T \in SUBSET Nat /\ T # {}
  BY <1>1
<1>3. PICK n \in T : \A j \in T : n <= j
  BY <1>2, Smallest
<1>4. n \in Nat /\ n # 0 /\ n \notin S
  BY <1>1
<1>5. n - 1 \in Nat /\ ~(n <= n - 1) /\ n - 1 + 1 = n
  BY <1>4
<1>6. n - 1 \in S
  BY <1>1, <1>3, <1>5
<1> QED BY <1>4, <1>5, <1>6

\* Above numbers up to m there is one, of m + 1 at most, right above the highest.
LEMMA RightAbove ==
    ASSUME TypeOK, NEW D \in SUBSET Agents, NEW m \in Nat, \A d \in D : level[d] <= m
    PROVE  \E l \in 0..(m + 1) : IsAbove(l, D)
<1>1. CASE D = {}
  <2>1. IsAbove(0, D) /\ 0 \in 0..(m + 1)
    BY <1>1 DEF IsAbove
  <2> QED BY <2>1
<1>2. CASE D # {}
  <2>0. \A d \in D : level[d] \in Nat
    BY DEF TypeOK
  <2>1. PICK T : T = {l \in Nat : \A d \in D : level[d] < l}
    OBVIOUS
  <2>2. m + 1 \in T
    BY <2>0, <2>1
  <2>3. T \in SUBSET Nat /\ T # {}
    BY <2>1, <2>2
  <2>4. PICK l \in T : \A j \in T : l <= j
    BY <2>3, Smallest
  <2>5. l \in Nat /\ l <= m + 1 /\ \A d \in D : level[d] < l
    BY <2>1, <2>2, <2>4
  <2>6. \E d \in D : level[d] = l - 1
    <3> SUFFICES ASSUME \A d \in D : level[d] # l - 1 PROVE FALSE
      OBVIOUS
    <3>1. \A d \in D : level[d] < l - 1
      BY <2>0, <2>5
    <3>2. l - 1 \in Nat
      BY <1>2, <2>0, <2>5
    <3>3. l - 1 \in T
      BY <2>1, <3>1, <3>2
    <3> QED BY <2>4, <2>5, <3>3
  <2>7. IsAbove(l, D) /\ l \in 0..(m + 1)
    BY <1>2, <2>5, <2>6 DEF IsAbove
  <2> QED BY <2>7
<1> QED BY <1>1, <1>2

\* Passes times nodes.
LEMMA Products ==
    /\ \A p \in 0..K-1, n \in 1..K+1 : p * K + n - 1 \in Nat
    /\ \A p \in 0..K-1, n \in 1..K : p * K + n - 1 + 1 <= K * K
    /\ \A p \in Nat : (p + 1) * K = p * K + K
<1>0. K \in Nat \ {0}
  BY ParallelExecutionAssumption
<1>1. \A p \in Nat : p * K \in Nat /\ (p + 1) * K = p * K + K
  BY <1>0
<1>2. ASSUME NEW p \in 0..K-1 PROVE p * K + K <= K * K
  <2>1. PICK q \in Nat : q = K - 1 - p
    BY <1>0
  <2>2. K = q + 1 + p
    BY <1>0, <2>1
  <2>3. (q + 1 + p) * K = q * K + K + p * K
    BY <1>0, <2>1
  <2>4. q * K \in Nat /\ p * K \in Nat
    BY <1>0, <1>1, <2>1
  <2>5. PICK x \in Nat, y \in Nat : x = q * K /\ y = p * K
    BY <2>4
  <2>6. K * K = x + K + y
    BY <2>2, <2>3, <2>5
  <2> QED BY <1>0, <2>5, <2>6
<1>3. ASSUME NEW p \in 0..K-1, NEW n \in 1..K+1
      PROVE  p * K + n - 1 \in Nat /\ (n <= K => p * K + n - 1 + 1 <= K * K)
  <2>1. PICK y \in Nat : y = p * K
    BY <1>0, <1>1
  <2>2. PICK z \in Nat : z = K * K
    BY <1>0, <1>1
  <2>3. y + K <= z
    BY <1>2, <2>1, <2>2
  <2>4. y + n - 1 \in Nat /\ (n <= K => y + n - 1 + 1 <= z)
    BY <1>0, <2>3
  <2> QED BY <2>1, <2>2, <2>4
<1>4. \A n \in 1..K : n \in 1..K+1 /\ n <= K
  BY <1>0
<1> QED BY <1>1, <1>3, <1>4

\* The first agents of some, as many as wanted.
LEMMA FirstOf ==
    ASSUME NEW T \in SUBSET Agents, NEW m \in Nat, m <= Cardinality(T)
    PROVE  \E B \in SUBSET T : Cardinality(B) = m /\ \A a \in B, b \in T \ B : a < b
<1>0. K \in Nat /\ IsFiniteSet(T) /\ Cardinality(T) \in Nat /\ \A a \in T : a \in Nat
  <2>1. K \in Nat \ {0}
    BY ParallelExecutionAssumption
  <2>2. 1 \in Int /\ K \in Int
    BY <2>1
  <2>3. IsFiniteSet(1..K)
    BY <2>2, FS_Interval
  <2>4. IsFiniteSet(T)
    BY <2>3, FS_Subset DEF Agents
  <2> QED BY <2>1, <2>4, FS_CardinalityType DEF Agents
<1>1. PICK S : S = {n \in Nat : n <= Cardinality(T) =>
                      \E B \in SUBSET T : Cardinality(B) = n /\ \A a \in B, b \in T \ B : a < b}
  OBVIOUS
<1>2. 0 \in S
  <2>1. Cardinality({}) = 0
    BY FS_EmptySet
  <2>2. {} \in SUBSET T /\ \A a \in {}, b \in T \ {} : a < b
    OBVIOUS
  <2> QED BY <1>1, <2>1, <2>2
<1>3. ASSUME NEW n \in S PROVE n + 1 \in S
  <2>0. n \in Nat
    BY <1>1
  <2> SUFFICES ASSUME n + 1 <= Cardinality(T)
               PROVE  \E B \in SUBSET T : Cardinality(B) = n + 1 /\ \A a \in B, b \in T \ B : a < b
    BY <1>1, <2>0
  <2>1. PICK B \in SUBSET T : Cardinality(B) = n /\ \A a \in B, b \in T \ B : a < b
    BY <1>0, <1>1, <2>0
  <2>2. T \ B # {}
    <3> SUFFICES ASSUME T \ B = {} PROVE FALSE
      OBVIOUS
    <3>1. B = T
      OBVIOUS
    <3> QED BY <1>0, <2>0, <2>1, <3>1
  <2>3. T \ B \in SUBSET Nat
    BY <1>0
  <2>4. PICK c \in T \ B : \A j \in T \ B : c <= j
    BY <2>2, <2>3, Smallest
  <2>5. PICK C : C = B \union {c}
    OBVIOUS
  <2>6. Cardinality(C) = n + 1
    <3>1. IsFiniteSet(B) /\ c \notin B
      BY <1>0, FS_Subset
    <3> QED BY <2>1, <2>5, <3>1, FS_AddElement
  <2>7. ASSUME NEW a \in C, NEW b \in T \ C PROVE a < b
    <3>1. b \in T \ B /\ b # c /\ c <= b /\ b \in Nat /\ c \in Nat
      BY <1>0, <2>4, <2>5
    <3>2. CASE a = c
      BY <3>1, <3>2
    <3>3. CASE a \in B
      BY <2>1, <3>1, <3>3
    <3> QED BY <2>5, <3>2, <3>3
  <2>8. C \in SUBSET T
    BY <2>5
  <2> QED BY <2>6, <2>7, <2>8
<1>4. S \in SUBSET Nat
  BY <1>1
<1>5. m \in S
  BY <1>2, <1>3, <1>4, Upwards
<1> QED BY <1>1, <1>5

LEMMA LevelChosen ==
    ASSUME TypeOK, LevelsBelow, pc = "levels", node <= K
    PROVE  /\ Visited + 1 \in 0..K*K
           /\ \E l \in 0..(Visited + 1) : IsAbove(l, deps[node] \cap Agents)
<1>0. K \in Nat \ {0}
  BY ParallelExecutionAssumption
<1>1. pass \in 0..K-1 /\ node \in 1..K+1 /\ node \in 1..K
  BY <1>0 DEF TypeOK
<1>2. Visited \in Nat /\ Visited + 1 <= K * K
  BY <1>1, Products DEF Visited
<1>3. deps[node] \cap Agents \in SUBSET Agents
  OBVIOUS
<1>4. \A d \in deps[node] \cap Agents : level[d] <= Visited
  BY DEF LevelsBelow
<1>5. \E l \in 0..(Visited + 1) : IsAbove(l, deps[node] \cap Agents)
  BY <1>2, <1>3, <1>4, RightAbove
<1>6. K * K \in Nat
  BY <1>0
<1>7. Visited + 1 \in 0..K*K
  BY <1>2, <1>6
<1> QED BY <1>5, <1>7

LEMMA NextLevelsBelow == TypeOK /\ LevelsBelow /\ [Next]_vars => LevelsBelow'
<1> SUFFICES ASSUME TypeOK, LevelsBelow, [Next]_vars, pc' = "levels" PROVE \A a \in Agents : level'[a] <= Visited'
  BY DEF LevelsBelow
<1>0. K \in Nat \ {0} /\ pass \in 0..K-1 /\ node \in 1..K+1 /\ level \in [Agents -> Nat]
  BY ParallelExecutionAssumption DEF TypeOK
<1>1. CASE Relevel
  <2>1. pc = "levels" /\ node \in 1..K /\ node <= K
    BY <1>0, <1>1 DEF Relevel
  <2>2. PICK l \in 0..K*K : IsAbove(l, deps[node] \cap Agents) /\ level' = [level EXCEPT ![node] = l]
    BY <1>1 DEF Relevel
  <2>3. PICK v \in Nat : v = Visited /\ Visited' = v + 1
    <3>1. Visited \in Nat
      BY <1>0, Products DEF Visited
    <3>2. PICK y : y = pass * K
      OBVIOUS
    <3>3. pass * K \in Nat
      BY <1>0
    <3>4. pass' = pass /\ node' = node + 1
      BY <1>1 DEF Relevel
    <3>5. Visited = y + node - 1 /\ Visited' = y + (node + 1) - 1
      BY <3>2, <3>4 DEF Visited
    <3>6. y + (node + 1) - 1 = y + node - 1 + 1
      BY <1>0, <3>2, <3>3
    <3> QED BY <3>1, <3>5, <3>6
  <2>4. \A a \in Agents : level[a] \in Nat /\ level[a] <= v
    BY <1>0, <2>1, <2>3 DEF LevelsBelow
  <2>5. l <= v + 1
    <3>0. l \in Nat
      <4>1. K * K \in Nat
        BY <1>0
      <4> QED BY <2>2, <4>1
    <3>1. CASE deps[node] \cap Agents = {}
      BY <2>2, <3>1 DEF IsAbove
    <3>2. CASE deps[node] \cap Agents # {}
      <4>1. PICK d \in Agents : level[d] = l - 1
        BY <2>2, <3>2 DEF IsAbove
      <4> QED BY <2>4, <3>0, <4>1
    <3> QED BY <3>1, <3>2
  <2>6. ASSUME NEW a \in Agents PROVE level'[a] <= v + 1
    <3>1. level'[a] = IF a = node THEN l ELSE level[a]
      BY <1>0, <2>2
    <3> QED BY <2>4, <2>5, <3>1
  <2> QED BY <2>3, <2>6
<1>2. CASE EndPass
  <2>1. pc = "levels" /\ node = K + 1 /\ pass' = pass + 1 /\ node' = 1 /\ level' = level
    BY <1>0, <1>2 DEF EndPass
  <2>2. PICK y \in Nat : y = pass * K
    BY <1>0
  <2>3. (pass + 1) * K = y + K
    BY <1>0, <2>2, Products
  <2>4. Visited = y + (K + 1) - 1 /\ Visited' = (y + K) + 1 - 1
    BY <2>1, <2>2, <2>3 DEF Visited
  <2>5. Visited' = Visited
    BY <1>0, <2>4
  <2> QED BY <2>1, <2>5 DEF LevelsBelow
<1>3. CASE pc = "levels" /\ UNCHANGED <<pass, node, level>>
  BY <1>3 DEF LevelsBelow, Visited
<1>4. ASSUME DetectCycles \/ Loop \/ AgentEnds PROVE FALSE
  BY <1>4 DEF DetectCycles, Loop, EnterLevel, CancelLevels, StartBatch, CancelBatch, BatchDone, LevelDone, LeaveLevel,
              AgentEnds, AgentCompletes, AgentFails
<1>5. CASE Abort \/ UNCHANGED vars
  BY <1>3, <1>5 DEF Abort, vars, plan
<1> QED BY <1>1, <1>2, <1>4, <1>5 DEF Next, Plan

\* A level up to the number of nodes visited is high enough for any graph, so that calculateLevels always finds one
\* within the bound of Relevel, and of the agents left in a level there are always some to make the next batch of
\* (buildBatches): neither the graph nor the limit of agents can leave the executor without a next step.
THEOREM AlwaysAChoice == Spec => []ChoicesExist
<1>1. TypeOK /\ LevelsBelow => ChoicesExist
  <2> SUFFICES ASSUME TypeOK, LevelsBelow PROVE ChoicesExist
    OBVIOUS
  <2>1. ASSUME pc = "levels", node <= K PROVE \E l \in 0..K*K : IsAbove(l, deps[node] \cap Agents)
    <3>1. PICK l \in 0..(Visited + 1) : IsAbove(l, deps[node] \cap Agents)
      BY <2>1, LevelChosen
    <3>2. Visited + 1 \in 0..K*K
      BY <2>1, LevelChosen
    <3>3. K * K \in Nat
      BY ParallelExecutionAssumption
    <3>4. l \in 0..K*K
      BY <3>1, <3>2, <3>3
    <3> QED BY <3>1, <3>4
  <2>2. ASSUME todo # {} PROVE \E B \in SUBSET todo : IsNextBatch(B)
    <3>1. PICK w \in Nat : w = Width(current) /\ w >= 1
      BY ParallelExecutionAssumption DEF Width
    <3>2. todo \in SUBSET Agents
      BY DEF TypeOK
    <3>3. Cardinality(todo) \in Nat
      <4>1. 1 \in Int /\ K \in Int
        BY ParallelExecutionAssumption
      <4>2. IsFiniteSet(1..K)
        BY <4>1, FS_Interval
      <4> QED BY <3>2, <4>2, FS_Subset, FS_CardinalityType DEF Agents
    <3>4. CASE Cardinality(todo) <= w
      <4>1. IsNextBatch(todo)
        BY <3>1, <3>4 DEF IsNextBatch
      <4> QED BY <4>1
    <3>5. CASE w <= Cardinality(todo)
      <4>1. PICK B \in SUBSET todo : Cardinality(B) = w /\ \A a \in B, b \in todo \ B : a < b
        BY <3>1, <3>2, <3>5, FirstOf
      <4>2. IsNextBatch(B)
        BY <3>1, <4>1 DEF IsNextBatch
      <4> QED BY <4>1, <4>2
    <3> QED BY <3>1, <3>3, <3>4, <3>5
  <2> QED BY <2>1, <2>2 DEF ChoicesExist
<1>2. Init => LevelsBelow
  <2> SUFFICES ASSUME Init PROVE \A a \in Agents : level[a] <= Visited
    BY DEF LevelsBelow
  <2>1. Visited = 0 * K + 1 - 1 /\ \A a \in Agents : level[a] = 0
    BY DEF Init, Visited
  <2>2. 0 * K + 1 - 1 = 0
    BY ParallelExecutionAssumption
  <2> QED BY <2>1, <2>2
<1> QED BY <1>1, <1>2, NextLevelsBelow, TypeCorrect, PTL DEF Spec
=============================================================================
