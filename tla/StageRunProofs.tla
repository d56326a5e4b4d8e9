--------------------------- MODULE StageRunProofs ---------------------------
(***************************************************************************)
(* Proofs about StageRun, for any number of stages, retries, processes and *)
(* any set of faults.  The inductive invariant says of every process how   *)
(* far its loop has come: everything before cur is settled, nothing behind *)
(* it is completed, and what saveCheckpoint is about to write is a settled *)
(* prefix.  None of it depends on what other processes do meanwhile.       *)
(***************************************************************************)
EXTENDS StageRun, SequenceTheorems, TLAPS

\* Every stage before the loop variable is settled.
PrefixDone(r) == \A s \in 1..r.cur-1 : r.status[s] \in Settled

\* No stage behind the loop variable is completed, and the stage itself is not
\* while it still has to run.
NoneAhead(r) ==
    /\ \A s \in r.cur+1..N : r.status[s] # "completed"
    /\ r.pc \in {"down", "resuming", "confirm", "loop", "execute", "ask"}
         => (r.cur \in Stages => r.status[r.cur] # "completed")

\* Where the loop variable is a stage, and what is known of that stage.
AtStage(r) ==
    /\ r.pc \in {"down", "resuming"} => r.cur = 1
    /\ r.pc \in {"execute", "ask"} => r.cur \in Stages
    /\ r.pc \in {"next", "prompt"} =>
         r.cur \in Stages /\ r.status[r.cur] = "completed"
    /\ r.pc = "prompt" => r.cur < N

\* A stage is running only while the process executes it.
OneRuns(r) ==
    \A s \in Stages : r.status[s] = "running" => r.pc = "execute" /\ s = r.cur

\* What saveCheckpoint was called with.
SaveArgument(r) ==
    r.pc \in SavePoints =>
        /\ r.saving = "stage" =>
             r.cur \in Stages /\ r.last = r.cur /\ r.status[r.cur] = "completed"
        /\ r.saving = "final" => IsLastCompleted(r.status, r.last)

Sound(r) ==
    r.pc # "returned" =>
        /\ PrefixDone(r)
        /\ NoneAhead(r)
        /\ AtStage(r)
        /\ OneRuns(r)
        /\ SaveArgument(r)

\* No stage is running in a checkpoint: saves are made between stages.
CheckpointAtRest ==
    ckpt.kind = "ok" => \A s \in Stages : ckpt.status[s] # "running"

IInv ==
    /\ TypeOK
    /\ \A p \in Processes : Sound(run[p])
    /\ CheckpointPrefixSettled /\ CheckpointAtRest

-----------------------------------------------------------------------------
\* A checkpoint that can be loaded has the fields of one.
LEMMA LoadedCheckpoint ==
    ASSUME TypeOK, ckpt.kind = "ok"
    PROVE  ckpt \in Checkpoint
BY DEF TypeOK, NoRecord, NoFile, TornFile, MixedFile

\* The memory a process starts with, or that of none.
LEMMA FreshSound ==
    ASSUME NEW m \in Mode,
           NEW point \in {"loop", "down", "resuming", "confirm", "returned"}
    PROVE  Fresh(m, point) \in Memory /\ Sound(Fresh(m, point))
<1>1. Fresh(m, point) \in Memory
  BY StageRunAssumption, EmptySeq
  DEF Fresh, Memory, Points, Status, Stages
<1>2. Sound(Fresh(m, point))
  BY StageRunAssumption
  DEF Fresh, Sound, PrefixDone, NoneAhead, AtStage, OneRuns, SaveArgument, Stages,
      SavePoints
<1> QED BY <1>1, <1>2

LEMMA DownSound == Down \in Memory /\ Sound(Down)
BY FreshSound DEF Down, Mode

LEMMA InitIInv == Init => IInv
<1> SUFFICES ASSUME Init PROVE IInv
  OBVIOUS
<1>1. PICK m \in Modes :
        run = [p \in Processes |-> IF p = 1 THEN Fresh(m, "loop") ELSE Down]
  BY DEF Init
<1>2. m \in Mode
  BY StageRunAssumption
<1>3. \A p \in Processes : run[p] \in Memory /\ Sound(run[p])
  BY <1>1, <1>2, FreshSound, DownSound
<1>4. run \in [Processes -> Memory]
  BY <1>1, <1>3
<1>5. /\ processes \in Processes
  BY StageRunAssumption DEF Init, Processes
<1>6. /\ beside \subseteq Processes /\ opened \subseteq Processes
      /\ dir \in BOOLEAN /\ removal \in {"none", "asked", "removing"}
  BY DEF Init
<1>7. ckpt \in NoRecord \cup Checkpoint /\ meta \in NoRecord \cup Metadata
  BY DEF Init, NoRecord
<1>8. deletions \in 0..MaxDeletions
  BY StageRunAssumption DEF Init
<1> QED
  BY <1>3, <1>4, <1>5, <1>6, <1>7, <1>8 DEF IInv, TypeOK, Init, CheckpointPrefixSettled, CheckpointAtRest,
      NoFile

-----------------------------------------------------------------------------
\* The steps of a process, on its own memory.

\* All that a process does to itself, and not to the others.
Acts(p) == ProcessStep(p) \/ SaveFails(p) \/ Crash(p) \/ ResumeStep(p)

LEMMA OnlyItself ==
    ASSUME TypeOK, NEW p \in Processes, NEW r, Becomes(p, r)
    PROVE  /\ run'[p] = r
           /\ \A q \in Processes \ {p} : run'[q] = run[q]
           /\ r \in Memory => run' \in [Processes -> Memory]
BY DEF Becomes, TypeOK

\* What a step writes of a stage keeps the types of the fields.
LEMMA MarkedTypes ==
    ASSUME NEW r \in Memory, NEW s \in Stages
    PROVE  /\ \A v \in Status : [r.status EXCEPT ![s] = v] \in [Stages -> Status]
           /\ \A v \in ResultStatus \cup {"none"} :
                [r.res EXCEPT ![s] = v] \in [Stages -> ResultStatus \cup {"none"}]
           /\ [r.retries EXCEPT ![s] = r.retries[s] + 1] \in [Stages -> Nat]
           /\ Append(r.outputs, s) \in Seq(Stages)
<1>1. /\ r.status \in [Stages -> Status] /\ r.outputs \in Seq(Stages)
      /\ r.res \in [Stages -> ResultStatus \cup {"none"}]
      /\ r.retries \in [Stages -> Nat]
  BY DEF Memory
<1>2. r.retries[s] + 1 \in Nat
  BY <1>1
<1> QED BY <1>1, <1>2

\* The fields of a failed stage, of the next one, and of a process at its end.
LEMMA StepFields ==
    ASSUME NEW r \in Memory
    PROVE  /\ FailureIn(r).status = [r.status EXCEPT ![r.cur] = "error"]
           /\ FailureIn(r).pc \in {"ask", "finish"}
           /\ FailureIn(r).cur = r.cur /\ FailureIn(r).failed = r.cur
           /\ Returned(r).status = r.status /\ Returned(r).pc = "returned"
BY DEF FailureIn, Returned, Fresh, Memory

LEMMA AdvanceFields ==
    ASSUME NEW r \in Memory, NEW next
    PROVE  /\ Advance(r, next).status = r.status
           /\ Advance(r, next).pc = "loop" /\ Advance(r, next).cur = next
           /\ Advance(r, next).failed = r.failed
BY DEF Advance, Memory

LEMMA FailureTyped ==
    ASSUME NEW r \in Memory, r.cur \in Stages
    PROVE  FailureIn(r) \in Memory
<1>1. /\ [r.status EXCEPT ![r.cur] = "error"] \in [Stages -> Status]
      /\ [r.res EXCEPT ![r.cur] = "error"] \in [Stages -> ResultStatus \cup {"none"}]
  BY MarkedTypes DEF Status, ResultStatus
<1>2. r.cur \in 0..N /\ 0 \in 0..MaxRetries
  BY StageRunAssumption DEF Stages
<1> QED BY <1>1, <1>2 DEF FailureIn, Memory, Points

LEMMA AdvanceTyped ==
    ASSUME NEW r \in Memory, r.cur \in Stages, NEW next \in 1..N+1
    PROVE  Advance(r, next) \in Memory
<1>1. Append(r.outputs, r.cur) \in Seq(Stages)
  BY MarkedTypes
<1> QED BY <1>1 DEF Advance, Memory, Points

LEMMA ReturnedSound ==
    ASSUME NEW r \in Memory
    PROVE  Returned(r) \in Memory /\ Sound(Returned(r))
<1>1. Fresh(r.mode, "returned") \in Memory
  BY FreshSound DEF Memory
<1> QED BY <1>1 DEF Returned, Memory, Sound, Fresh

\* A failing save leaves the stage failed, or the process is at its end.
LEMMA ThrowSound ==
    ASSUME TypeOK, NEW p \in Processes, Sound(run[p]), run[p].pc \in SavePoints,
           Throw(p)
    PROVE  \E r \in Memory : Becomes(p, r) /\ Sound(r)
<1> DEFINE r == run[p]
<1>1. r \in Memory /\ N \in Nat \ {0} /\ Stages = 1..N /\ Sound(r)
      /\ r.cur \in 1..N+1 /\ r.status \in [Stages -> Status]
  BY StageRunAssumption DEF TypeOK, Memory, Stages
<1>2. CASE r.saving = "stage"
  <2>1. Becomes(p, FailureIn(r)) /\ r.cur \in Stages
    BY <1>1, <1>2 DEF Throw, Sound, SaveArgument, SavePoints
  <2>2. FailureIn(r) \in Memory
    BY <1>1, <2>1, FailureTyped
  <2>3. Sound(FailureIn(r))
    BY <1>1, <2>1 DEF FailureIn, Sound, PrefixDone, NoneAhead, AtStage, OneRuns,
                      SaveArgument, SavePoints, Memory
  <2> QED BY <2>1, <2>2, <2>3
<1>3. CASE r.saving # "stage"
  BY <1>3, DownSound DEF Throw
<1> QED BY <1>2, <1>3

\* A process that goes on with what it has in memory.
LEMMA StepSound ==
    ASSUME TypeOK, NEW p \in Processes, Sound(run[p]), ProcessStep(p)
    PROVE  \E r \in Memory : Becomes(p, r) /\ Sound(r)
<1> DEFINE r == run[p]
<1>1. r \in Memory /\ N \in Nat \ {0} /\ Stages = 1..N /\ Sound(r)
      /\ r.cur \in 1..N+1 /\ r.status \in [Stages -> Status]
  BY StageRunAssumption DEF TypeOK, Memory, Stages
<1> USE <1>1 DEF At, Goes
<1>2. CASE BeginStage(p)
  <2> DEFINE q == [r EXCEPT !.status[r.cur] = "running", !.pc = "execute"]
  <2>1. Becomes(p, q) /\ r.pc = "loop" /\ r.cur \in Stages
    BY <1>2 DEF BeginStage
  <2>2. q \in Memory
    BY <2>1 DEF Memory, Points, Status
  <2>3. Sound(q)
    BY <2>1 DEF Sound, PrefixDone, NoneAhead, AtStage, OneRuns, SaveArgument,
                SavePoints, Memory
  <2> HIDE DEF q
  <2> QED BY <2>1, <2>2, <2>3
<1>3. CASE LoopEnd(p) \/ AbortRun(p) \/ AbortAtCheckpoint(p)
  <2> DEFINE q == [r EXCEPT !.pc = "finish"]
  <2>1. Becomes(p, q) /\ r.pc \in {"loop", "ask", "prompt"}
        /\ (r.pc = "loop" => r.cur > N)
    BY <1>3 DEF LoopEnd, AbortRun, AbortAtCheckpoint
  <2>2. q \in Memory
    BY <2>1 DEF Memory, Points
  <2>3. Sound(q)
    BY <2>1 DEF Sound, PrefixDone, NoneAhead, AtStage, OneRuns, SaveArgument,
                SavePoints, Memory
  <2> HIDE DEF q
  <2> QED BY <2>1, <2>2, <2>3
<1>4. CASE AttemptFails(p)
  <2> DEFINE q == [r EXCEPT !.attempt = @ + 1]
  <2>1. Becomes(p, q) /\ r.pc = "execute" /\ r.attempt < MaxRetries
    BY <1>4 DEF AttemptFails
  <2>2. q \in Memory
    <3>1. r.attempt + 1 \in 0..MaxRetries
      BY <2>1, StageRunAssumption DEF Memory
    <3> QED BY <3>1 DEF Memory
  <2>3. Sound(q)
    BY <2>1 DEF Sound, PrefixDone, NoneAhead, AtStage, OneRuns, SaveArgument,
                SavePoints, Memory
  <2> HIDE DEF q
  <2> QED BY <2>1, <2>2, <2>3
<1>5. CASE StageFails(p) \/ StageThrows(p)
  <2> DEFINE q == FailureIn(r)
  <2>1. Becomes(p, q) /\ r.pc = "execute" /\ r.cur \in Stages
    BY <1>5 DEF StageFails, StageThrows, Sound, AtStage
  <2>2. q \in Memory
    BY <2>1, FailureTyped
  <2>3. Sound(q)
    BY <2>1 DEF Sound, PrefixDone, NoneAhead, AtStage, OneRuns, SaveArgument,
                SavePoints, Memory, FailureIn
  <2> HIDE DEF q
  <2> QED BY <2>1, <2>2, <2>3
<1>6. CASE StageSucceeds(p)
  <2> DEFINE done == [r EXCEPT !.res[r.cur] = "completed",
                               !.status[r.cur] = "completed", !.attempt = 0]
             q == IF r.mode.resumable
                  THEN [done EXCEPT !.pc = "save", !.saving = "stage",
                                    !.last = r.cur]
                  ELSE [done EXCEPT !.pc = "next"]
  <2>1. Becomes(p, q) /\ r.pc = "execute" /\ r.cur \in Stages
    BY <1>6 DEF StageSucceeds, Sound, AtStage
  <2>2. q \in Memory
    <3>1. /\ [r.status EXCEPT ![r.cur] = "completed"] \in [Stages -> Status]
          /\ [r.res EXCEPT ![r.cur] = "completed"]
               \in [Stages -> ResultStatus \cup {"none"}]
      BY <2>1, MarkedTypes DEF Status, ResultStatus
    <3>2. r.cur \in 0..N /\ 0 \in 0..MaxRetries
      BY <2>1, StageRunAssumption
    <3> QED BY <3>1, <3>2 DEF Memory, Points, SavePoints
  <2>3. Sound(q)
    BY <2>1 DEF Sound, PrefixDone, NoneAhead, AtStage, OneRuns, SaveArgument,
                SavePoints, Memory, Settled
  <2> HIDE DEF q
  <2> QED BY <2>1, <2>2, <2>3
<1>7. CASE RetryStage(p)
  <2> DEFINE q == [r EXCEPT !.res[r.cur] = "none", !.retries[r.cur] = @ + 1,
                             !.pc = "loop"]
  <2>1. Becomes(p, q) /\ r.pc = "ask" /\ r.cur \in Stages
    BY <1>7 DEF RetryStage, Sound, AtStage
  <2>2. q \in Memory
    <3>1. /\ [r.retries EXCEPT ![r.cur] = r.retries[r.cur] + 1] \in [Stages -> Nat]
          /\ [r.res EXCEPT ![r.cur] = "none"]
               \in [Stages -> ResultStatus \cup {"none"}]
      BY <2>1, MarkedTypes
    <3> QED BY <3>1 DEF Memory, Points
  <2>3. Sound(q)
    BY <2>1 DEF Sound, PrefixDone, NoneAhead, AtStage, OneRuns, SaveArgument,
                SavePoints, Memory
  <2> HIDE DEF q
  <2> QED BY <2>1, <2>2, <2>3
<1>8. CASE SkipStage(p)
  <2> DEFINE q == [r EXCEPT !.res[r.cur] = "skipped",
                             !.status[r.cur] = "skipped",
                             !.cur = @ + 1, !.pc = "loop"]
  <2>1. Becomes(p, q) /\ r.pc = "ask" /\ r.cur \in Stages
    BY <1>8 DEF SkipStage, Sound, AtStage
  <2>2. q \in Memory
    <3>1. /\ [r.status EXCEPT ![r.cur] = "skipped"] \in [Stages -> Status]
          /\ [r.res EXCEPT ![r.cur] = "skipped"]
               \in [Stages -> ResultStatus \cup {"none"}]
      BY <2>1, MarkedTypes DEF Status, ResultStatus
    <3>2. r.cur + 1 \in 1..N+1
      BY <2>1
    <3> QED BY <3>1, <3>2 DEF Memory, Points
  <2>3. Sound(q)
    <3>1. /\ q.pc = "loop" /\ q.cur = r.cur + 1
          /\ q.status = [r.status EXCEPT ![r.cur] = "skipped"]
      BY <2>1 DEF Memory
    <3>2. PrefixDone(q) /\ NoneAhead(q) /\ OneRuns(q)
      BY <2>1, <3>1, SMTT(60) DEF Sound, PrefixDone, NoneAhead, AtStage, OneRuns,
                        SavePoints, Memory, Settled
    <3>3. AtStage(q) /\ SaveArgument(q)
      BY <2>1, <3>1, SMTT(60) DEF AtStage, SaveArgument, SavePoints
    <3> QED BY <3>2, <3>3 DEF Sound
  <2> HIDE DEF q
  <2> QED BY <2>1, <2>2, <2>3
<1>9. CASE PromptUser(p)
  <2> DEFINE q == [r EXCEPT !.pc = "prompt"]
  <2>1. Becomes(p, q) /\ r.pc = "next" /\ r.cur < N
    BY <1>9 DEF PromptUser, AsksUser
  <2>2. q \in Memory
    BY <2>1 DEF Memory, Points
  <2>3. Sound(q)
    <3>1. q.pc = "prompt" /\ q.cur = r.cur /\ q.status = r.status
      BY <2>1 DEF Memory
    <3>2. PrefixDone(q) /\ NoneAhead(q) /\ OneRuns(q)
      BY <2>1, <3>1, SMTT(60) DEF Sound, PrefixDone, NoneAhead, AtStage, OneRuns,
                        SavePoints, Memory, Settled
    <3>3. AtStage(q) /\ SaveArgument(q)
      BY <2>1, <3>1, SMTT(60) DEF Sound, AtStage, SaveArgument, SavePoints
    <3> QED BY <3>2, <3>3 DEF Sound
  <2> HIDE DEF q
  <2> QED BY <2>1, <2>2, <2>3
<1>10. CASE OpenCheckpoint(p) \/ WriteCheckpoint(p) \/ OpenMetadata(p) \/ WriteMetadata(p)
  <2> DEFINE q == [r EXCEPT !.pc =
                    IF r.pc = "save" THEN "write"
                    ELSE IF r.pc = "write" THEN "meta"
                    ELSE IF r.pc = "meta" THEN "writeMeta" ELSE "dirs"]
  <2>1. Becomes(p, q) /\ r.pc \in {"save", "write", "meta", "writeMeta"}
    <3>1. CASE OpenCheckpoint(p)
      BY <3>1 DEF OpenCheckpoint
    <3>2. CASE WriteCheckpoint(p)
      BY <3>2 DEF WriteCheckpoint
    <3>3. CASE OpenMetadata(p)
      BY <3>3 DEF OpenMetadata
    <3>4. CASE WriteMetadata(p)
      BY <3>4 DEF WriteMetadata
    <3> QED BY <1>10, <3>1, <3>2, <3>3, <3>4
  <2>2. q \in Memory
    <3>1. \A point \in Points : [r EXCEPT !.pc = point] \in Memory
      BY DEF Memory
    <3>2. {"write", "meta", "writeMeta", "dirs"} \subseteq Points
      BY DEF Points, SavePoints
    <3> QED BY <3>1, <3>2
  <2>3. Sound(q)
    <3>1. /\ q.pc \in {"write", "meta", "writeMeta", "dirs"}
          /\ q.cur = r.cur /\ q.status = r.status
          /\ q.saving = r.saving /\ q.last = r.last
      BY <2>1 DEF Memory
    <3>2. r.pc \in SavePoints /\ r.pc # "returned"
      BY <2>1 DEF SavePoints
    <3>3. PrefixDone(q) /\ NoneAhead(q) /\ OneRuns(q)
      BY <3>1, <3>2, <2>1, SMTT(60) DEF Sound, PrefixDone, NoneAhead, OneRuns
    <3>4. AtStage(q) /\ SaveArgument(q)
      BY <3>1, <3>2, <2>1, SMTT(60) DEF Sound, AtStage, SaveArgument
    <3> QED BY <3>3, <3>4 DEF Sound
  <2> HIDE DEF q
  <2> QED BY <2>1, <2>2, <2>3
<1>11. CASE MakeDirectories(p)
  <2>1. CASE r.saving = "stage"
    <3> DEFINE q == [r EXCEPT !.pc = "next"]
    <3>1. Becomes(p, q) /\ r.pc = "dirs"
      BY <1>11, <2>1 DEF MakeDirectories
    <3>2. q \in Memory
      BY <3>1 DEF Memory, Points
    <3>3. Sound(q)
      BY <2>1, <3>1 DEF Sound, PrefixDone, NoneAhead, AtStage, OneRuns,
                        SaveArgument, SavePoints, Memory
    <3> HIDE DEF q
    <3> QED BY <3>1, <3>2, <3>3
  <2>2. CASE r.saving # "stage"
    BY <1>11, <2>2, ReturnedSound DEF MakeDirectories
  <2> QED BY <2>1, <2>2
<1>12. CASE MetadataFails(p)
  BY <1>12, ThrowSound DEF MetadataFails, SavePoints
<1>13. CASE NextStage(p) \/ ContinueStage(p)
  <2>1. Becomes(p, Advance(r, r.cur + 1)) /\ r.pc \in {"next", "prompt"}
        /\ r.cur \in Stages
    BY <1>13 DEF NextStage, ContinueStage, Sound, AtStage
  <2>2. Advance(r, r.cur + 1) \in Memory
    <3>1. r.cur + 1 \in 1..N+1
      BY <2>1
    <3> QED BY <2>1, <3>1, AdvanceTyped
  <2>3. Sound(Advance(r, r.cur + 1))
    BY <2>1 DEF Advance, Sound, PrefixDone, NoneAhead, AtStage, OneRuns,
                SaveArgument, SavePoints, Memory, Settled
  <2> QED BY <2>1, <2>2, <2>3
<1>14. CASE SkipNext(p)
  <2> DEFINE q == [r EXCEPT !.status[r.cur + 1] = "skipped"]
  <2>1. Becomes(p, Advance(q, r.cur + 2)) /\ r.pc = "prompt"
        /\ r.cur \in Stages /\ r.cur < N
    BY <1>14 DEF SkipNext, Sound, AtStage
  <2>2. Advance(q, r.cur + 2) \in Memory
    <3>1. [r.status EXCEPT ![r.cur + 1] = "skipped"] \in [Stages -> Status]
      BY <2>1, MarkedTypes DEF Status
    <3>2. q \in Memory /\ q.cur = r.cur
      BY <3>1 DEF Memory
    <3>3. r.cur + 2 \in 1..N+1
      BY <2>1
    <3> HIDE DEF q
    <3> QED BY <2>1, <3>2, <3>3, AdvanceTyped
  <2> DEFINE w == Advance(q, r.cur + 2)
  <2>3. /\ w.pc = "loop" /\ w.cur = r.cur + 2
        /\ \A s \in Stages :
             w.status[s] = IF s = r.cur + 1 THEN "skipped" ELSE r.status[s]
    BY <2>1 DEF Advance, Memory
  <2>4. Sound(w)
    <3> HIDE DEF w
    <3>1. /\ PrefixDone(r) /\ NoneAhead(r) /\ OneRuns(r)
          /\ r.status[r.cur] = "completed"
      BY <2>1 DEF Sound, AtStage
    <3>2. PrefixDone(w)
      <4> SUFFICES ASSUME NEW s \in 1..w.cur-1
                   PROVE  w.status[s] \in {"completed", "skipped"}
        BY DEF PrefixDone, Settled
      <4>1. s \in Stages /\ (s \in 1..r.cur-1 \/ s = r.cur \/ s = r.cur + 1)
        BY <2>1, <2>3
      <4> QED BY <2>3, <3>1, <4>1 DEF PrefixDone, Settled
    <3>3. NoneAhead(w)
      <4>1. \A s \in r.cur+2..N : w.status[s] # "completed"
        BY <2>1, <2>3, <3>1 DEF NoneAhead
      <4> QED BY <2>1, <2>3, <4>1 DEF NoneAhead
    <3>4. OneRuns(w)
      BY <2>1, <2>3, <3>1 DEF OneRuns
    <3> QED
      BY <2>3, <3>2, <3>3, <3>4 DEF Sound, AtStage, SaveArgument, SavePoints
  <2> QED BY <2>1, <2>2, <2>4
<1>15. CASE Finish(p)
  <2>1. CASE ~r.mode.resumable
    BY <1>15, <2>1, ReturnedSound DEF Finish
  <2>2. CASE r.mode.resumable
    <3>1. PICK l \in 0..N :
            /\ IsLastCompleted(r.status, l)
            /\ Becomes(p, [r EXCEPT !.last = l, !.saving = "final", !.pc = "save"])
      BY <1>15, <2>2 DEF Finish
    <3> DEFINE q == [r EXCEPT !.last = l, !.saving = "final", !.pc = "save"]
    <3>2. r.pc = "finish"
      BY <1>15 DEF Finish
    <3>3. q \in Memory
      BY <3>1 DEF Memory, Points, SavePoints
    <3>4. Sound(q)
      BY <3>1, <3>2 DEF Sound, PrefixDone, NoneAhead, AtStage, OneRuns,
                        SaveArgument, SavePoints, Memory
    <3> HIDE DEF q
    <3> QED BY <3>1, <3>3, <3>4 DEF q
  <2> QED BY <2>1, <2>2
<1> QED
  BY <1>2, <1>3, <1>4, <1>5, <1>6, <1>7, <1>8, <1>9, <1>10, <1>11, <1>12, <1>13,
     <1>14, <1>15
  DEF ProcessStep, ExecuteStage, AnswerFailure, SaveCheckpoint, HandleCheckpoint

\* The steps around a resume, a death and a failing save.
LEMMA BreakSound ==
    ASSUME TypeOK, NEW p \in Processes, Sound(run[p]), CheckpointPrefixSettled,
           CheckpointAtRest, SaveFails(p) \/ Crash(p) \/ ResumeStep(p)
    PROVE  \E r \in Memory : Becomes(p, r) /\ Sound(r)
<1> DEFINE r == run[p]
<1>1. r \in Memory /\ r.mode \in Mode
  BY DEF TypeOK, Memory
<1>2. CASE SaveFails(p)
  BY <1>2, ThrowSound DEF SaveFails
<1>3. CASE Crash(p) \/ ResumeFails(p) \/ CancelResume(p)
  BY <1>3, DownSound DEF Crash, ResumeFails, CancelResume
<1>4. ASSUME NEW m \in ResumeModes, resumeCommand(p, m)
      PROVE  \E q \in Memory : Becomes(p, q) /\ Sound(q)
  <2>1. m \in Mode
    BY <1>4, StageRunAssumption DEF ResumeModes
  <2> QED BY <1>4, <2>1, FreshSound DEF resumeCommand
<1>5. CASE Resume(p)
  <2> DEFINE point == IF r.mode.interactive /\ ~r.mode.autoConfirm
                      THEN "confirm" ELSE "loop"
             q == [Fresh(r.mode, point)
                   EXCEPT !.cur = NextIncomplete, !.status = ckpt.status,
                          !.res = ckpt.res, !.retries = ckpt.retries,
                          !.outputs = ckpt.outputs]
  <2>1. Becomes(p, q)
    BY <1>5 DEF Resume
  <2>2. ckpt \in Checkpoint /\ ckpt.kind = "ok"
    BY <1>5, LoadedCheckpoint DEF Resume, Loads
  <2>3. Fresh(r.mode, point) \in Memory /\ Fresh(r.mode, point).pc = point
    BY <1>1, FreshSound DEF Fresh
  <2>4. NextIncomplete = ckpt.last + 1 /\ NextIncomplete \in 1..N+1
    BY <2>2, StageRunAssumption DEF NextIncomplete, Checkpoint
  <2>5. q \in Memory
    BY <2>2, <2>3, <2>4 DEF Memory, Checkpoint
  <2>6. /\ q.pc \in {"confirm", "loop"} /\ q.cur = ckpt.last + 1
        /\ q.status = ckpt.status
    BY <2>3, <2>4 DEF Memory
  <2>7. Sound(q)
    <3> HIDE DEF q
    <3> QED
      BY <2>2, <2>6, StageRunAssumption
      DEF Sound, PrefixDone, NoneAhead, AtStage, OneRuns, SaveArgument,
          CheckpointPrefixSettled, CheckpointAtRest, Checkpoint, SavePoints, Stages
  <2> QED BY <2>1, <2>5, <2>7
<1>6. CASE ConfirmResume(p)
  <2> DEFINE q == [r EXCEPT !.pc = "loop"]
  <2>1. Becomes(p, q) /\ r.pc = "confirm"
    BY <1>6 DEF ConfirmResume, Goes, At
  <2>2. q \in Memory
    BY <1>1 DEF Memory, Points
  <2>3. Sound(q)
    BY <1>1, <2>1 DEF Sound, PrefixDone, NoneAhead, AtStage, OneRuns,
                      SaveArgument, SavePoints, Memory
  <2> HIDE DEF q
  <2> QED BY <2>1, <2>2, <2>3
<1> QED
  BY <1>2, <1>3, <1>4, <1>5, <1>6 DEF ResumeStep

LEMMA ActsSound ==
    ASSUME IInv, NEW p \in Processes, Acts(p)
    PROVE  /\ run' \in [Processes -> Memory]
           /\ \A q \in Processes : Sound(run[q])'
           /\ \A q \in Processes \ {p} : run'[q] = run[q]
<1>1. PICK r \in Memory : Becomes(p, r) /\ Sound(r)
  BY StepSound, BreakSound DEF IInv, Acts
<1>2. /\ run'[p] = r /\ run' \in [Processes -> Memory]
      /\ \A q \in Processes \ {p} : run'[q] = run[q]
  BY <1>1, OnlyItself DEF IInv
<1>3. \A q \in Processes : Sound(run'[q])
  BY <1>1, <1>2 DEF IInv
<1> QED BY <1>2, <1>3 DEF Sound, PrefixDone, NoneAhead, AtStage, OneRuns, SaveArgument, IsLastCompleted

-----------------------------------------------------------------------------
\* The steps of a process, on the files.

\* A checkpoint is written from the stages as they are: what makes its
\* argument right makes its contents right.
LEMMA SnapshotSettled ==
    ASSUME NEW r \in Memory, Sound(r), r.pc \in SavePoints
    PROVE  /\ \A s \in 1..r.last : r.status[s] \in Settled
           /\ \A s \in r.last+1..N : r.status[s] # "completed"
           /\ \A s \in Stages : r.status[s] # "running"
<1>1. /\ N \in Nat /\ r.cur \in 1..N+1 /\ r.last \in 0..N
      /\ r.saving \in {"stage", "final"}
      /\ PrefixDone(r) /\ NoneAhead(r) /\ SaveArgument(r) /\ OneRuns(r)
  BY StageRunAssumption DEF Memory, Sound, SavePoints
<1>2. CASE r.saving = "stage"
  BY <1>1, <1>2 DEF PrefixDone, NoneAhead, SaveArgument, Settled, OneRuns, SavePoints
<1>3. CASE r.saving = "final"
  <2>1. IsLastCompleted(r.status, r.last)
    BY <1>1, <1>3 DEF SaveArgument
  <2>2. r.last <= r.cur
    BY <1>1, <2>1 DEF IsLastCompleted, NoneAhead, Stages
  <2> QED
    BY <1>1, <2>1, <2>2 DEF IsLastCompleted, PrefixDone, Settled, OneRuns, SavePoints
<1> QED BY <1>1, <1>2, <1>3

\* What a process may do to checkpoint.json.
LEMMA ActsCheckpoint ==
    ASSUME TypeOK, NEW p \in Processes, Acts(p)
    PROVE  \/ UNCHANGED ckpt
           \/ OpenCheckpoint(p) /\ ckpt' = TornFile
           \/ WriteCheckpoint(p) /\ ckpt' \in {Snapshot(run[p]), MixedFile}
<1>1. CASE WriteCheckpoint(p)
  BY <1>1 DEF WriteCheckpoint, Written
<1>2. CASE OpenCheckpoint(p)
  BY <1>2 DEF OpenCheckpoint
<1>3. CASE ~WriteCheckpoint(p) /\ ~OpenCheckpoint(p)
  BY <1>3
  DEF Acts, ProcessStep, SaveFails, Crash, BeginStage, LoopEnd, ExecuteStage,
      AttemptFails, StageFails, StageThrows, StageSucceeds, AnswerFailure,
      RetryStage, SkipStage, AbortRun, SaveCheckpoint, OpenMetadata,
      WriteMetadata, MakeDirectories, MetadataFails, Throw, NextStage,
      HandleCheckpoint, PromptUser, ContinueStage, SkipNext, AbortAtCheckpoint,
      Finish, ResumeStep, resumeCommand, Resume, ResumeFails, ConfirmResume,
      CancelResume, disk
<1> QED BY <1>1, <1>2, <1>3

LEMMA ActsMetadata ==
    ASSUME TypeOK, NEW p \in Processes, Acts(p)
    PROVE  \/ UNCHANGED meta
           \/ OpenMetadata(p) /\ meta' = TornFile
           \/ /\ WriteMetadata(p)
              /\ meta' \in {MetadataOf(run[p].status), MixedFile}
<1>1. CASE WriteMetadata(p)
  BY <1>1 DEF WriteMetadata, Written
<1>2. CASE OpenMetadata(p)
  BY <1>2 DEF OpenMetadata
<1>3. CASE ~WriteMetadata(p) /\ ~OpenMetadata(p)
  BY <1>3
  DEF Acts, ProcessStep, SaveFails, Crash, BeginStage, LoopEnd, ExecuteStage,
      AttemptFails, StageFails, StageThrows, StageSucceeds, AnswerFailure,
      RetryStage, SkipStage, AbortRun, SaveCheckpoint, OpenCheckpoint,
      WriteCheckpoint, MakeDirectories, MetadataFails, Throw, NextStage,
      HandleCheckpoint, PromptUser, ContinueStage, SkipNext, AbortAtCheckpoint,
      Finish, ResumeStep, resumeCommand, Resume, ResumeFails, ConfirmResume,
      CancelResume, disk
<1> QED BY <1>1, <1>2, <1>3

\* What a process may do to the rest.
LEMMA ActsOthers ==
    ASSUME TypeOK, NEW p \in Processes, Acts(p)
    PROVE  /\ dir' \in BOOLEAN /\ opened' \subseteq Processes
           /\ UNCHANGED <<removal, deletions>>
           /\ \/ Resume(p)
              \/ ~Resume(p) /\ UNCHANGED <<processes, beside>>
<1>1. UNCHANGED <<removal, deletions>> /\ (Resume(p) \/ UNCHANGED <<processes, beside>>)
  BY DEF Acts, ProcessStep, SaveFails, Crash, BeginStage, LoopEnd, ExecuteStage,
      AttemptFails, StageFails, StageThrows, StageSucceeds, AnswerFailure,
      RetryStage, SkipStage, AbortRun, SaveCheckpoint, OpenCheckpoint,
      WriteCheckpoint, OpenMetadata, WriteMetadata, MakeDirectories,
      MetadataFails, Throw, NextStage, HandleCheckpoint, PromptUser,
      ContinueStage, SkipNext, AbortAtCheckpoint, Finish, ResumeStep,
      resumeCommand, Resume, ResumeFails, ConfirmResume, CancelResume, others
<1>2. dir' \in BOOLEAN /\ opened' \subseteq Processes
  BY DEF TypeOK, Acts, ProcessStep, SaveFails, Crash, BeginStage, LoopEnd,
      ExecuteStage, AttemptFails, StageFails, StageThrows, StageSucceeds,
      AnswerFailure, RetryStage, SkipStage, AbortRun, SaveCheckpoint,
      OpenCheckpoint, WriteCheckpoint, OpenMetadata, WriteMetadata,
      MakeDirectories, MetadataFails, Throw, NextStage, HandleCheckpoint,
      PromptUser, ContinueStage, SkipNext, AbortAtCheckpoint, Finish, ResumeStep,
      resumeCommand, Resume, ResumeFails, ConfirmResume, CancelResume, disk
<1> QED BY <1>1, <1>2

LEMMA ActsIInv ==
    ASSUME IInv, NEW p \in Processes, Acts(p)
    PROVE  IInv'
<1>1. /\ run' \in [Processes -> Memory]
      /\ \A q \in Processes : Sound(run[q])'
  BY ActsSound
<1>2. /\ dir' \in BOOLEAN /\ opened' \subseteq Processes
      /\ UNCHANGED <<removal, deletions>>
      /\ processes' \in Processes /\ beside' \subseteq Processes
  <2>1. CASE Resume(p)
    <3>1. processes' = p /\ beside' \subseteq Processes
      BY <2>1 DEF Resume, Working, IInv, TypeOK
    <3> QED BY <3>1, ActsOthers DEF IInv
  <2>2. CASE ~Resume(p)
    BY <2>2, ActsOthers DEF IInv, TypeOK
  <2> QED BY <2>1, <2>2
<1>3. /\ ckpt' \in NoRecord \cup Checkpoint
      /\ (CheckpointPrefixSettled /\ CheckpointAtRest)'
  <2>1. CASE UNCHANGED ckpt
    BY <2>1 DEF IInv, TypeOK, CheckpointPrefixSettled, CheckpointAtRest
  <2>2. CASE ckpt' \in {TornFile, MixedFile}
    BY <2>2 DEF NoRecord, TornFile, MixedFile, CheckpointPrefixSettled,
                CheckpointAtRest
  <2>3. CASE WriteCheckpoint(p) /\ ckpt' = Snapshot(run[p])
    <3>1. run[p] \in Memory /\ Sound(run[p]) /\ run[p].pc \in SavePoints
      BY <2>3 DEF WriteCheckpoint, At, IInv, TypeOK, SavePoints
    <3>2. Snapshot(run[p]) \in Checkpoint
      BY <3>1 DEF Snapshot, Checkpoint, Memory
    <3> QED
      BY <2>3, <3>1, <3>2, SnapshotSettled
      DEF Snapshot, CheckpointPrefixSettled, CheckpointAtRest
  <2> QED BY <2>1, <2>2, <2>3, ActsCheckpoint DEF IInv
<1>4. meta' \in NoRecord \cup Metadata
  <2>1. MetadataOf(run[p].status) \in Metadata
    BY DEF MetadataOf, CompletedIn, RunStatusOf, Metadata, RunStatus
  <2> QED BY <2>1, ActsMetadata DEF IInv, TypeOK, NoRecord
<1> QED BY <1>1, <1>2, <1>3, <1>4 DEF IInv, TypeOK

\* Whatever "ax runs delete" does leaves the processes as they are, and of each
\* file the old one or none.
LEMMA CommandsBystanding ==
    ASSUME TypeOK, runsCommand
    PROVE  /\ TypeOK'
           /\ UNCHANGED <<run, processes, beside>>
           /\ ckpt' \in {ckpt, NoFile} /\ meta' \in {meta, NoFile}
<1> USE StageRunAssumption DEF TypeOK, disk
<1>1. CASE deleteRunCommand
  BY <1>1 DEF deleteRunCommand
<1>2. CASE Cancelled \/ RemovalFails
  BY <1>2 DEF Cancelled, RemovalFails
<1>3. CASE RemoveDirectory
  BY <1>3 DEF RemoveDirectory
<1>4. CASE deleteCheckpoint
  BY <1>4 DEF deleteCheckpoint, NoRecord
<1> QED BY <1>1, <1>2, <1>3, <1>4 DEF runsCommand

LEMMA NextIInv == IInv /\ [Next]_vars => IInv'
<1> SUFFICES ASSUME IInv, [Next]_vars PROVE IInv'
  OBVIOUS
<1>1. ASSUME NEW p \in Processes, Acts(p) PROVE IInv'
  BY <1>1, ActsIInv
<1>2. CASE runsCommand
  BY <1>2, CommandsBystanding
  DEF IInv, Sound, PrefixDone, NoneAhead, AtStage, OneRuns, SaveArgument,
      IsLastCompleted, CheckpointPrefixSettled, CheckpointAtRest, NoFile
<1>3. CASE UNCHANGED vars
  BY <1>3 DEF vars, disk, others, IInv, TypeOK, Sound, PrefixDone, NoneAhead,
              AtStage, OneRuns, SaveArgument, IsLastCompleted,
              CheckpointPrefixSettled, CheckpointAtRest
<1> QED BY <1>1, <1>2, <1>3 DEF Next, Acts

THEOREM InductiveInvariant == Spec => []IInv
BY InitIInv, NextIInv, PTL DEF Spec

-----------------------------------------------------------------------------
\* The properties the runs check.

\* In every behaviour every variable has its type.
THEOREM TypeCorrect == Spec => []TypeOK
BY InductiveInvariant, PTL DEF IInv

\* Every process executes a stage only behind settled stages, whoever resumes the
\* run, also beside a process that is still at it.
THEOREM StagesInOrder == Spec => []StageOrder
<1>1. IInv => StageOrder
  BY DEF IInv, Sound, PrefixDone, StageOrder, At
<1> QED BY <1>1, InductiveInvariant, PTL

\* A checkpoint that loads has its last completed stage behind a settled prefix
\* and before no completed stage, at whatever step processes died or failed and
\* however many of them wrote it.
THEOREM CheckpointsSettled == Spec => []CheckpointPrefixSettled
BY InductiveInvariant, PTL DEF IInv

\* What a process does with a stage that is completed.
LEMMA ActsKeepCompleted ==
    ASSUME IInv, NEW p \in Processes, Acts(p), NEW s \in Stages,
           run[p].status[s] = "completed", run'[p].pc # "down"
    PROVE  \/ run'[p].status[s] = "completed"
           \/ s = run[p].cur /\ run[p].pc \in SavePoints /\ run[p].saving = "stage"
<1> DEFINE r == run[p]
<1>1. /\ r \in Memory /\ N \in Nat /\ Stages = 1..N /\ Sound(r)
      /\ r.cur \in 1..N+1 /\ r.status \in [Stages -> Status]
      /\ run \in [Processes -> Memory]
  BY StageRunAssumption DEF IInv, TypeOK, Memory, Stages
<1> USE <1>1 DEF At, Goes, Becomes
<1>2. r.pc \notin {"down", "resuming"}
  BY DEF Sound, NoneAhead, AtStage
<1>3. CASE run'[p].status = r.status
  BY <1>3
<1>4. CASE BeginStage(p)
  BY <1>4 DEF BeginStage, Sound, NoneAhead, Memory
<1>5. CASE StageFails(p) \/ StageThrows(p)
  <2>1. run'[p] = FailureIn(r) /\ r.cur # s
    BY <1>5 DEF StageFails, StageThrows, Sound, NoneAhead, AtStage
  <2>2. FailureIn(r).status = [r.status EXCEPT ![r.cur] = "error"]
    BY StepFields
  <2>3. FailureIn(r).status[s] = "completed"
    BY <2>1, <2>2
  <2> QED BY <2>1, <2>3
<1>6. CASE StageSucceeds(p)
  BY <1>6 DEF StageSucceeds, Memory
<1>7. CASE SkipStage(p)
  BY <1>7 DEF SkipStage, Sound, NoneAhead, AtStage, Memory
<1>8. CASE SkipNext(p)
  <2>1. r.cur + 1 # s
    BY <1>8 DEF SkipNext, Sound, NoneAhead, AtStage
  <2> QED BY <1>8, <2>1 DEF SkipNext, Advance, Memory
<1>9. CASE Throw(p) /\ r.pc \in SavePoints
  <2>1. CASE r.saving = "stage"
    BY <1>9, <2>1, StepFields DEF Throw
  <2>2. CASE r.saving # "stage"
    BY <1>9, <2>2 DEF Throw, Down, Fresh
  <2> QED BY <2>1, <2>2
<1>10. ASSUME NEW point \in Points, run'[p] = [r EXCEPT !.pc = point]
       PROVE  run'[p].status[s] = "completed"
  BY <1>10 DEF Memory
<1>19. CASE LoopEnd(p) \/ AbortRun(p) \/ AbortAtCheckpoint(p) \/ PromptUser(p)
           \/ ConfirmResume(p)
  BY <1>10, <1>19 DEF LoopEnd, AbortRun, AbortAtCheckpoint, PromptUser,
                      ConfirmResume, Points
<1>17. CASE AttemptFails(p)
  BY <1>17 DEF AttemptFails, Memory
<1>18. CASE RetryStage(p)
  BY <1>18 DEF RetryStage, Memory
<1>11. CASE OpenCheckpoint(p) \/ WriteCheckpoint(p) \/ OpenMetadata(p)
           \/ WriteMetadata(p)
  BY <1>10, <1>11 DEF OpenCheckpoint, WriteCheckpoint, OpenMetadata, WriteMetadata,
                      Points, SavePoints
<1>12. CASE MakeDirectories(p)
  <2>1. \/ run'[p] = [r EXCEPT !.pc = "next"]
        \/ run'[p] = Returned(r)
    BY <1>12 DEF MakeDirectories
  <2>2. Returned(r).status = r.status
    BY StepFields
  <2> QED BY <1>10, <2>1, <2>2 DEF Points
<1>13. CASE NextStage(p) \/ ContinueStage(p)
  <2>1. run'[p] = Advance(r, r.cur + 1)
    BY <1>13 DEF NextStage, ContinueStage
  <2>2. Advance(r, r.cur + 1).status = r.status
    BY AdvanceFields
  <2> QED BY <2>1, <2>2
<1>14. CASE Finish(p)
  <2>1. CASE r.mode.resumable
    <3>1. PICK l \in 0..N :
            run'[p] = [r EXCEPT !.last = l, !.saving = "final", !.pc = "save"]
      BY <1>14, <2>1 DEF Finish
    <3>2. run'[p].status = r.status
      BY <3>1 DEF Memory
    <3> QED BY <3>2
  <2>2. CASE ~r.mode.resumable
    <3>1. run'[p] = Returned(r) /\ Returned(r).status = r.status
      BY <1>14, <2>2, StepFields DEF Finish
    <3> QED BY <3>1
  <2> QED BY <2>1, <2>2
<1>15. CASE Crash(p) \/ CancelResume(p)
  BY <1>15 DEF Crash, CancelResume, Down, Fresh
<1>16. ~Resume(p) /\ ~ResumeFails(p) /\ \A m \in ResumeModes : ~resumeCommand(p, m)
  BY <1>2 DEF Resume, ResumeFails, resumeCommand
<1> QED
  BY <1>4, <1>5, <1>6, <1>7, <1>8, <1>9, <1>10, <1>11, <1>12, <1>13, <1>14, <1>15,
     <1>16, <1>17, <1>18, <1>19
  DEF Acts, ProcessStep, ExecuteStage, AnswerFailure, SaveCheckpoint,
      HandleCheckpoint, SaveFails, MetadataFails, ResumeStep, SavePoints

\* A completed stage is given up by the process that completed it only when the
\* save right after it throws.
THEOREM CompletedStagesStay == Spec => CompletedStays
<1> DEFINE Stays ==
      \A p \in Processes, s \in Stages :
        (run[p].status[s] = "completed" /\ run'[p].pc # "down") =>
            \/ run'[p].status[s] = "completed"
            \/ /\ s = run[p].cur
               /\ run[p].pc \in SavePoints /\ run[p].saving = "stage"
<1>1. ASSUME IInv, [Next]_vars PROVE Stays
  <2> SUFFICES ASSUME NEW p \in Processes, NEW s \in Stages,
                      run[p].status[s] = "completed", run'[p].pc # "down"
               PROVE  \/ run'[p].status[s] = "completed"
                      \/ /\ s = run[p].cur
                         /\ run[p].pc \in SavePoints /\ run[p].saving = "stage"
    OBVIOUS
  <2>1. CASE run'[p] = run[p]
    BY <2>1
  <2>2. CASE Acts(p)
    BY <1>1, <2>2, ActsKeepCompleted
  <2>3. ASSUME NEW q \in Processes \ {p}, Acts(q) PROVE run'[p] = run[p]
    BY <1>1, <2>3, ActsSound
  <2>4. CASE runsCommand
    BY <1>1, <2>1, <2>4, CommandsBystanding DEF IInv
  <2>5. CASE UNCHANGED vars
    BY <2>1, <2>5 DEF vars
  <2> QED BY <1>1, <2>1, <2>2, <2>3, <2>4, <2>5 DEF Next, Acts
<1>2. IInv /\ [Next]_vars => [Stays]_vars
  BY <1>1
<1> QED BY <1>2, InductiveInvariant, PTL DEF Spec, CompletedStays

-----------------------------------------------------------------------------
\* A process that works alone, against the checkpoint on disk.

\* Who works while another does is known to.
OverlapKnown == \A p, q \in Working : p # q => p \in beside

\* Nothing behind the loop variable is completed in the checkpoint, and the stage
\* itself is, when it is to run, only after its own failure.
Behind(r, file) ==
    /\ r.pc = "ask" => r.failed = r.cur
    /\ file.kind = "ok" =>
         /\ \A s \in r.cur+1..N : file.status[s] # "completed"
         /\ /\ r.pc \in {"confirm", "loop", "execute", "ask"}
            /\ r.cur \in Stages /\ file.status[r.cur] = "completed"
            => r.failed = r.cur

CheckpointBehind == \A p \in Working \ beside : Behind(run[p], ckpt)

\* Only a resume makes a process work.
LEMMA WorkingSteps ==
    ASSUME IInv, NEW p \in Processes, Acts(p)
    PROVE  /\ ~Resume(p) => p \in Working \/ run'[p].pc \in {"down", "resuming"}
           /\ Resume(p) => p \notin Working
<1>1. CASE Resume(p)
  BY <1>1 DEF Resume, At, Working
<1>2. CASE \E m \in ResumeModes : resumeCommand(p, m)
  BY <1>2 DEF resumeCommand, Becomes, Fresh, IInv, TypeOK, Resume, At
<1>3. CASE ResumeFails(p) \/ CancelResume(p)
  BY <1>3 DEF ResumeFails, CancelResume, Becomes, Down, Fresh, IInv, TypeOK, Resume, At
<1>4. CASE Crash(p)
  <2>1. run'[p].pc = "down"
    BY <1>4 DEF Crash, Becomes, Down, Fresh, IInv, TypeOK
  <2>2. Resume(p) => p \notin Working
    BY DEF Resume, At, Working
  <2> QED BY <2>1, <2>2
<1>5. CASE SaveFails(p)
  BY <1>5 DEF SaveFails, SavePoints, Working, Resume, At
<1>6. CASE ProcessStep(p) \/ ConfirmResume(p)
  <2>1. run[p].pc \notin {"resuming", "returned", "down"}
    BY <1>6 DEF ProcessStep, BeginStage, LoopEnd, ExecuteStage,
      AttemptFails, StageFails, StageThrows, StageSucceeds, AnswerFailure,
      RetryStage, SkipStage, AbortRun, SaveCheckpoint, OpenCheckpoint,
      WriteCheckpoint, OpenMetadata, WriteMetadata, MakeDirectories,
      MetadataFails, NextStage, HandleCheckpoint, PromptUser,
      ContinueStage, SkipNext, AbortAtCheckpoint, Finish, ConfirmResume, At
  <2> QED BY <2>1 DEF Working, Resume, At
<1> QED BY <1>1, <1>2, <1>3, <1>4, <1>5, <1>6 DEF Acts, ResumeStep

LEMMA ActsOverlap ==
    ASSUME IInv, OverlapKnown, NEW p \in Processes, Acts(p)
    PROVE  OverlapKnown'
<1>1. /\ \A q \in Processes \ {p} : run'[q] = run[q]
      /\ run \in [Processes -> Memory] /\ beside \subseteq beside'
  BY ActsSound, ActsOthers DEF IInv, TypeOK, Resume
<1>2. Working' \subseteq Working \cup {p}
  BY <1>1 DEF Working
<1>3. CASE Resume(p)
  <2>1. Working # {} => beside' = beside \cup Working \cup {p}
    BY <1>3 DEF Resume
  <2> QED BY <1>2, <2>1 DEF OverlapKnown
<1>4. CASE ~Resume(p)
  <2>1. Working' \subseteq Working
    BY <1>2, <1>4, WorkingSteps DEF Working
  <2> QED BY <1>1, <2>1 DEF OverlapKnown
<1> QED BY <1>3, <1>4

\* A step of the process itself.
LEMMA OwnBehind ==
    ASSUME IInv, NEW p \in Working, Behind(run[p], ckpt), Acts(p)
    PROVE  p \in Working' => Behind(run'[p], ckpt')
<1> DEFINE r == run[p]
           q == run'[p]
<1>1. /\ p \in Processes /\ r \in Memory /\ N \in Nat \ {0} /\ Sound(r)
      /\ r.cur \in 1..N+1 /\ Stages = 1..N /\ r.status \in [Stages -> Status]
      /\ run \in [Processes -> Memory]
      /\ r.pc \notin {"down", "resuming", "returned"}
  BY StageRunAssumption DEF IInv, TypeOK, Working, Memory, Stages
<1>2. CASE WriteCheckpoint(p)
  <2>1. q = [r EXCEPT !.pc = "meta"] /\ ckpt' \in {ckpt, MixedFile, Snapshot(r)}
        /\ r.pc = "write"
    BY <1>1, <1>2 DEF WriteCheckpoint, Written, Goes, Becomes, At
  <2>2. q.pc = "meta" /\ q.cur = r.cur
    BY <1>1, <2>1 DEF Memory
  <2>3. NoneAhead(r)
    BY <1>1 DEF Sound
  <2> QED
    BY <1>1, <2>1, <2>2, <2>3 DEF Behind, MixedFile, Snapshot, NoneAhead
<1>3. CASE OpenCheckpoint(p)
  <2>1. q = [r EXCEPT !.pc = "write"] /\ ckpt' = TornFile
    BY <1>1, <1>3 DEF OpenCheckpoint, Goes, Becomes
  <2>2. q.pc = "write"
    BY <1>1, <2>1 DEF Memory
  <2> QED BY <2>1, <2>2 DEF Behind, TornFile
<1>4. ASSUME ~WriteCheckpoint(p), ~OpenCheckpoint(p)
      PROVE  p \in Working' => Behind(q, ckpt)
  <2> USE <1>1 DEF At, Goes, Becomes
  <2>0. ASSUME NEW point \in Points \ {"ask"}, q = [r EXCEPT !.pc = point],
               point \in {"loop", "confirm", "execute"} => r.pc \in {"loop", "confirm"}
        PROVE  Behind(q, ckpt)
    <3>1. q.pc = point /\ q.cur = r.cur /\ q.failed = r.failed
      BY <2>0 DEF Memory
    <3> QED BY <2>0, <3>1 DEF Behind
  <2>1. CASE BeginStage(p)
    <3>1. q.pc = "execute" /\ q.cur = r.cur /\ q.failed = r.failed /\ r.pc = "loop"
      BY <2>1 DEF BeginStage, Memory
    <3> QED BY <3>1 DEF Behind
  <2>2. CASE LoopEnd(p) \/ AbortRun(p) \/ AbortAtCheckpoint(p) \/ PromptUser(p)
             \/ ConfirmResume(p) \/ OpenMetadata(p) \/ WriteMetadata(p)
    BY <2>0, <2>2 DEF LoopEnd, AbortRun, AbortAtCheckpoint, PromptUser,
                      ConfirmResume, OpenMetadata, WriteMetadata, Points, SavePoints
  <2>3. CASE AttemptFails(p)
    <3>1. q.pc = r.pc /\ q.cur = r.cur /\ q.failed = r.failed
      BY <2>3 DEF AttemptFails, Memory
    <3> QED BY <3>1 DEF Behind
  <2>4. ASSUME q = FailureIn(r) PROVE Behind(q, ckpt)
    <3>1. q.cur = r.cur /\ q.failed = r.cur /\ q.pc \in {"ask", "finish"}
      BY <2>4, StepFields
    <3> QED BY <3>1 DEF Behind
  <2>5. CASE StageFails(p) \/ StageThrows(p)
    BY <2>4, <2>5 DEF StageFails, StageThrows
  <2>6. CASE StageSucceeds(p)
    <3>1. q.pc \in {"save", "next"} /\ q.cur = r.cur
      BY <2>6 DEF StageSucceeds, Memory
    <3> QED BY <3>1 DEF Behind
  <2>7. CASE RetryStage(p)
    <3>1. q.pc = "loop" /\ q.cur = r.cur /\ q.failed = r.failed /\ r.pc = "ask"
      BY <2>7 DEF RetryStage, Memory
    <3> QED BY <3>1 DEF Behind
  <2>8. ASSUME q.pc = "loop", q.cur \in r.cur+1..N+2 PROVE Behind(q, ckpt)
    BY <2>8 DEF Behind
  <2>9. CASE SkipStage(p)
    <3>1. q.pc = "loop" /\ q.cur = r.cur + 1
      BY <2>9 DEF SkipStage, Memory
    <3>2. q.cur \in r.cur+1..N+2
      BY <3>1
    <3> QED BY <2>8, <3>1, <3>2
  <2>10. CASE NextStage(p) \/ ContinueStage(p)
    <3>1. q = Advance(r, r.cur + 1)
      BY <2>10 DEF NextStage, ContinueStage
    <3>2. q.pc = "loop" /\ q.cur = r.cur + 1
      BY <3>1, AdvanceFields
    <3>3. q.cur \in r.cur+1..N+2
      BY <3>2
    <3> QED BY <2>8, <3>2, <3>3
  <2>11. CASE SkipNext(p)
    <3>1. q.pc = "loop" /\ q.cur = r.cur + 2
      BY <2>11 DEF SkipNext, Advance, Memory
    <3>2. r.cur < N
      BY <2>11 DEF SkipNext, Sound, AtStage
    <3>3. q.cur \in r.cur+1..N+2
      BY <3>1, <3>2
    <3> QED BY <2>8, <3>1, <3>3
  <2>12. CASE MakeDirectories(p)
    <3>1. q = [r EXCEPT !.pc = "next"] \/ q = Returned(r)
      BY <2>12 DEF MakeDirectories
    <3>2. Returned(r).pc = "returned"
      BY StepFields
    <3> QED BY <2>0, <3>1, <3>2 DEF Points, Working
  <2>13. CASE Finish(p)
    <3>1. CASE r.mode.resumable
      <4>1. PICK l \in 0..N :
              q = [r EXCEPT !.last = l, !.saving = "final", !.pc = "save"]
        BY <2>13, <3>1 DEF Finish
      <4>2. q.pc = "save" /\ q.cur = r.cur
        BY <4>1 DEF Memory
      <4> QED BY <4>2 DEF Behind
    <3>2. CASE ~r.mode.resumable
      <4>1. q = Returned(r) /\ Returned(r).pc = "returned"
        BY <2>13, <3>2, StepFields DEF Finish
      <4> QED BY <4>1 DEF Working
    <3> QED BY <3>1, <3>2
  <2>14. CASE Throw(p)
    <3>1. q = FailureIn(r) \/ q = Down
      BY <2>14 DEF Throw
    <3> QED BY <2>4, <3>1 DEF Working, Down, Fresh
  <2>15. CASE Crash(p) \/ CancelResume(p)
    BY <2>15 DEF Crash, CancelResume, Working, Down, Fresh
  <2>16. ~Resume(p) /\ ~ResumeFails(p) /\ \A m \in ResumeModes : ~resumeCommand(p, m)
    BY DEF Resume, ResumeFails, resumeCommand
  <2> HIDE DEF q, r, At, Goes, Becomes
  <2>17. CASE ProcessStep(p)
    BY <1>4, <2>1, <2>2, <2>3, <2>5, <2>6, <2>7, <2>9, <2>10, <2>11, <2>12, <2>13,
       <2>14, <2>17
    DEF ProcessStep, ExecuteStage, AnswerFailure, SaveCheckpoint,
        HandleCheckpoint, MetadataFails
  <2>18. CASE ResumeStep(p)
    BY <2>2, <2>15, <2>16, <2>18 DEF ResumeStep
  <2> QED BY <2>14, <2>15, <2>17, <2>18 DEF Acts, SaveFails
<1>5. UNCHANGED ckpt \/ OpenCheckpoint(p) \/ WriteCheckpoint(p)
  BY <1>1, ActsCheckpoint DEF IInv
<1> HIDE DEF q
<1>6. CASE ~WriteCheckpoint(p) /\ ~OpenCheckpoint(p)
  BY <1>4, <1>5, <1>6 DEF q
<1> QED BY <1>2, <1>3, <1>6 DEF q

\* A resume that finds nobody at work starts behind what the checkpoint has.
LEMMA ResumeBehind ==
    ASSUME IInv, NEW p \in Processes, Resume(p)
    PROVE  Behind(run'[p], ckpt')
<1>1. ckpt \in Checkpoint /\ N \in Nat /\ ckpt.kind = "ok" /\ UNCHANGED ckpt
      /\ ckpt.last \in 0..N /\ run[p].mode \in Mode
  BY LoadedCheckpoint, StageRunAssumption
  DEF IInv, TypeOK, Memory, Resume, Loads, Checkpoint, disk
<1>2. run'[p].cur = ckpt.last + 1 /\ run'[p].pc \in {"confirm", "loop"}
  BY DEF Resume, Becomes, IInv, TypeOK, Fresh, NextIncomplete
<1> QED
  BY <1>1, <1>2 DEF Behind, IInv, CheckpointPrefixSettled, Stages

Alone == OverlapKnown /\ CheckpointBehind

LEMMA StepAlone ==
    ASSUME IInv, Alone, [Next]_vars
    PROVE  Alone'
<1>1. ASSUME NEW p \in Processes, Acts(p) PROVE Alone'
  <2>1. OverlapKnown'
    BY <1>1, ActsOverlap DEF Alone
  <2>2. ASSUME NEW q \in Working', q \notin beside' PROVE Behind(run'[q], ckpt')
    <3>1. q \in Processes /\ q \notin beside
      BY <1>1, <2>2, ActsOthers DEF Working, IInv, Resume
    <3>2. CASE q = p /\ Resume(p)
      BY <3>2, ResumeBehind, <1>1
    <3>3. CASE q = p /\ ~Resume(p)
      <4>1. p \in Working
        BY <1>1, <2>2, <3>3, WorkingSteps DEF Working
      <4>2. Behind(run[p], ckpt)
        BY <3>1, <3>3, <4>1 DEF Alone, CheckpointBehind
      <4> QED BY <1>1, <2>2, <3>3, <4>1, <4>2, OwnBehind
    <3>4. CASE q # p
      <4>1. run'[q] = run[q] /\ q \in Working
        BY <1>1, <2>2, <3>1, <3>4, ActsSound DEF Working
      <4>2. Behind(run[q], ckpt)
        BY <3>1, <4>1 DEF Alone, CheckpointBehind
      <4>3. p \in Working => q \in beside
        BY <1>1, <3>4, <4>1 DEF Alone, OverlapKnown
      <4>4. UNCHANGED ckpt
        <5>1. OpenCheckpoint(p) \/ WriteCheckpoint(p) => p \in Working
          BY DEF OpenCheckpoint, WriteCheckpoint, Working, At
        <5> QED BY <1>1, <3>1, <4>3, <5>1, ActsCheckpoint DEF IInv
      <4> QED BY <4>1, <4>2, <4>4
    <3> QED BY <3>2, <3>3, <3>4
  <2> QED BY <2>1, <2>2 DEF Alone, CheckpointBehind, Behind
<1>2. CASE runsCommand
  BY <1>2, CommandsBystanding
  DEF IInv, Alone, OverlapKnown, CheckpointBehind, Behind, Working, NoFile
<1>3. CASE UNCHANGED vars
  BY <1>3 DEF vars, disk, others, Alone, OverlapKnown, CheckpointBehind, Behind,
              Working
<1> QED BY <1>1, <1>2, <1>3 DEF Next, Acts

LEMMA InitAlone == Init => Alone
<1> SUFFICES ASSUME Init PROVE Alone
  OBVIOUS
<1>1. \A p \in Processes : p \in Working => p = 1
  BY DEF Init, Working, Down, Fresh
<1>2. ckpt.kind # "ok" /\ \A p \in Processes : run[p].pc # "ask"
  BY DEF Init, NoFile, Down, Fresh
<1> QED
  BY <1>1, <1>2 DEF Alone, OverlapKnown, CheckpointBehind, Behind, Working

\* No process that works alone executes a stage that the checkpoint on disk counts
\* as completed, unless it is its own stage and the save of it threw, whatever
\* processes were at work before.
THEOREM NoStageRepeated == Spec => []NoRepeat
<1>1. IInv /\ Alone => NoRepeat
  BY DEF IInv, Sound, AtStage, Alone, CheckpointBehind, Behind, NoRepeat, Working, At
<1> QED BY <1>1, InitAlone, StepAlone, InductiveInvariant, PTL DEF Spec

-----------------------------------------------------------------------------
\* metadata.json against checkpoint.json, while processes follow one another.

\* Of the stages that metadata.json counts as completed, these statuses may lack
\* the last one, of a save that threw.
LacksLast(st, file) ==
    \A s \in file.completed :
        \/ st[s] = "completed"
        \/ st[s] # "queued" /\ \A t \in file.completed : t <= s

\* A process in the middle of a save, and what it knows of the metadata.
Keeping(r, file, data) ==
    /\ r.pc = "write" => file.kind # "ok"
    /\ r.pc \in {"meta", "writeMeta", "dirs"} /\ file.kind = "ok"
         => file.status = r.status
    /\ r.pc = "writeMeta" => data.kind # "ok"
    /\ data.kind = "ok" =>
         /\ LacksLast(r.status, data)
         /\ \A s, t \in data.completed : s < t => s < r.cur

MetadataKept ==
    beside = {} =>
        /\ \A p \in Working : Keeping(run[p], ckpt, meta)
        /\ ckpt.kind = "ok" /\ meta.kind = "ok" => LacksLast(ckpt.status, meta)

Between == {"write", "meta", "writeMeta", "dirs"}

\* The steps that leave the files alone change the stage of the loop variable, or
\* one that is not completed, and never go back.
LEMMA MovesOn ==
    ASSUME IInv, NEW p \in Working, Acts(p), p \in Working',
           ~OpenCheckpoint(p), ~WriteCheckpoint(p), ~OpenMetadata(p),
           ~WriteMetadata(p)
    PROVE  /\ run'[p].pc \notin Between
           /\ run'[p].cur >= run[p].cur
           /\ \A s \in Stages :
                \/ run'[p].status[s] = run[p].status[s]
                \/ /\ run'[p].status[s] # "queued"
                   /\ s = run[p].cur \/ run[p].status[s] # "completed"
<1> DEFINE r == run[p]
           q == run'[p]
           Goal == /\ q.pc \notin Between /\ q.cur >= r.cur
                   /\ \A s \in Stages :
                        \/ q.status[s] = r.status[s]
                        \/ /\ q.status[s] # "queued"
                           /\ s = r.cur \/ r.status[s] # "completed"
<1>1. /\ p \in Processes /\ r \in Memory /\ N \in Nat \ {0} /\ Sound(r)
      /\ r.cur \in 1..N+1 /\ Stages = 1..N /\ r.status \in [Stages -> Status]
      /\ run \in [Processes -> Memory]
      /\ r.pc \notin {"down", "resuming", "returned"}
  BY StageRunAssumption DEF IInv, TypeOK, Working, Memory, Stages
<1> USE <1>1 DEF At, Goes, Becomes
<1>0. ASSUME NEW point \in Points \ Between, q = [r EXCEPT !.pc = point]
      PROVE  Goal
  <2>1. q.pc = point /\ q.cur = r.cur /\ q.status = r.status
    BY <1>0 DEF Memory
  <2> QED BY <1>0, <2>1
<1>3. CASE BeginStage(p)
  <2>1. q.pc = "execute" /\ q.cur = r.cur
        /\ q.status = [r.status EXCEPT ![r.cur] = "running"]
    BY <1>3 DEF BeginStage, Memory
  <2> QED BY <2>1 DEF Between
<1>4. CASE LoopEnd(p) \/ AbortRun(p) \/ AbortAtCheckpoint(p) \/ PromptUser(p)
           \/ ConfirmResume(p)
  BY <1>0, <1>4 DEF LoopEnd, AbortRun, AbortAtCheckpoint, PromptUser, ConfirmResume,
                    Points, Between
<1>5. CASE AttemptFails(p)
  <2>1. q.pc = "execute" /\ q.cur = r.cur /\ q.status = r.status
    BY <1>5 DEF AttemptFails, Memory
  <2> QED BY <2>1 DEF Between
<1>6. ASSUME q = FailureIn(r) PROVE Goal
  <2>1. FailureIn(r).cur = r.cur /\ FailureIn(r).pc \in {"ask", "finish"}
        /\ FailureIn(r).status = [r.status EXCEPT ![r.cur] = "error"]
    BY StepFields
  <2>2. \A s \in Stages : s # r.cur => q.status[s] = r.status[s]
    BY <1>6, <2>1
  <2>3. r.cur \in Stages => q.status[r.cur] = "error"
    BY <1>6, <2>1
  <2> QED BY <1>6, <2>1, <2>2, <2>3 DEF Between
<1>7. CASE StageFails(p) \/ StageThrows(p)
  BY <1>6, <1>7 DEF StageFails, StageThrows
<1>8. CASE StageSucceeds(p)
  <2>1. q.pc \in {"save", "next"} /\ q.cur = r.cur
        /\ q.status = [r.status EXCEPT ![r.cur] = "completed"]
    BY <1>8 DEF StageSucceeds, Memory
  <2> QED BY <2>1 DEF Between
<1>9. CASE RetryStage(p)
  <2>1. q.pc = "loop" /\ q.cur = r.cur /\ q.status = r.status
    BY <1>9 DEF RetryStage, Memory
  <2> QED BY <2>1 DEF Between
<1>10. CASE SkipStage(p)
  <2>1. q.pc = "loop" /\ q.cur = r.cur + 1
        /\ q.status = [r.status EXCEPT ![r.cur] = "skipped"]
    BY <1>10 DEF SkipStage, Memory
  <2> QED BY <2>1 DEF Between
<1>11. CASE NextStage(p) \/ ContinueStage(p)
  <2>1. q = Advance(r, r.cur + 1)
    BY <1>11 DEF NextStage, ContinueStage
  <2>2. q.pc = "loop" /\ q.cur = r.cur + 1 /\ q.status = r.status
    BY <2>1, AdvanceFields
  <2> QED BY <2>2 DEF Between
<1>12. CASE SkipNext(p)
  <2>1. q.pc = "loop" /\ q.cur = r.cur + 2
        /\ q.status = [r.status EXCEPT ![r.cur + 1] = "skipped"]
    BY <1>12 DEF SkipNext, Advance, Memory
  <2>2. r.cur + 1 \in Stages => r.status[r.cur + 1] # "completed"
    BY DEF Sound, NoneAhead
  <2> QED BY <2>1, <2>2 DEF Between
<1>13. CASE MakeDirectories(p)
  <2>1. q = [r EXCEPT !.pc = "next"] \/ q = Returned(r)
    BY <1>13 DEF MakeDirectories
  <2>2. Returned(r).pc = "returned"
    BY StepFields
  <2> QED BY <1>0, <2>1, <2>2 DEF Points, Between, Working
<1>14. CASE Finish(p)
  <2>1. CASE r.mode.resumable
    <3>1. PICK l \in 0..N :
            q = [r EXCEPT !.last = l, !.saving = "final", !.pc = "save"]
      BY <1>14, <2>1 DEF Finish
    <3>2. q.pc = "save" /\ q.cur = r.cur /\ q.status = r.status
      BY <3>1 DEF Memory
    <3> QED BY <3>2 DEF Between
  <2>2. CASE ~r.mode.resumable
    <3>1. q = Returned(r) /\ Returned(r).pc = "returned"
      BY <1>14, <2>2, StepFields DEF Finish
    <3> QED BY <3>1 DEF Working
  <2> QED BY <2>1, <2>2
<1>15. CASE Throw(p)
  <2>1. q = FailureIn(r) \/ q = Down
    BY <1>15 DEF Throw
  <2> QED BY <1>6, <2>1 DEF Working, Down, Fresh
<1>16. ~Crash(p) /\ ~CancelResume(p)
  BY DEF Crash, CancelResume, Working, Down, Fresh
<1>17. ~Resume(p) /\ ~ResumeFails(p) /\ \A m \in ResumeModes : ~resumeCommand(p, m)
  BY DEF Resume, ResumeFails, resumeCommand
<1> HIDE DEF q, r, Goal, At, Goes, Becomes
<1>18. CASE ProcessStep(p)
  BY <1>3, <1>4, <1>5, <1>7, <1>8, <1>9, <1>10, <1>11, <1>12, <1>13, <1>14, <1>15,
     <1>18
  DEF ProcessStep, ExecuteStage, AnswerFailure, SaveCheckpoint, HandleCheckpoint,
      MetadataFails
<1>19. CASE ResumeStep(p)
  <2>1. ConfirmResume(p)
    BY <1>16, <1>17, <1>19 DEF ResumeStep
  <2> QED BY <1>4, <2>1
<1> QED BY <1>15, <1>16, <1>18, <1>19 DEF Acts, SaveFails

\* What is on disk has the types of the files.
LEMMA FileTypes ==
    ASSUME TypeOK
    PROVE  /\ meta.kind = "ok" => meta.completed \subseteq Stages
           /\ ckpt.kind = "ok" => ckpt.status \in [Stages -> Status]
BY LoadedCheckpoint DEF TypeOK, NoRecord, NoFile, TornFile, MixedFile, Metadata,
                        Checkpoint

LEMMA OwnKeeping ==
    ASSUME IInv, NEW p \in Working, Keeping(run[p], ckpt, meta), Acts(p),
           p \in Working'
    PROVE  Keeping(run'[p], ckpt', meta')
<1> DEFINE r == run[p]
           q == run'[p]
<1>1. /\ p \in Processes /\ r \in Memory /\ N \in Nat \ {0} /\ Sound(r)
      /\ r.cur \in 1..N+1 /\ Stages = 1..N /\ r.status \in [Stages -> Status]
      /\ run \in [Processes -> Memory]
      /\ r.pc \notin {"down", "resuming", "returned"}
      /\ meta.kind = "ok" => meta.completed \subseteq Stages
  BY StageRunAssumption, FileTypes DEF IInv, TypeOK, Working, Memory, Stages
<1>0. ASSUME NEW point \in Points, run' = [run EXCEPT ![p] = [r EXCEPT !.pc = point]]
      PROVE  q.pc = point /\ q.cur = r.cur /\ q.status = r.status
  BY <1>0, <1>1 DEF Memory
<1>2. CASE OpenCheckpoint(p)
  <2>1. ckpt' = TornFile /\ meta' = meta
        /\ q.pc = "write" /\ q.cur = r.cur /\ q.status = r.status
    BY <1>0, <1>2 DEF OpenCheckpoint, Goes, Becomes, Points, SavePoints
  <2> QED BY <2>1 DEF Keeping, TornFile, LacksLast
<1>3. CASE WriteCheckpoint(p)
  <2>1. ckpt' \in {ckpt, Snapshot(r), MixedFile} /\ meta' = meta /\ r.pc = "write"
        /\ q.pc = "meta" /\ q.cur = r.cur /\ q.status = r.status
    BY <1>0, <1>3 DEF WriteCheckpoint, Written, Goes, Becomes, At, Points, SavePoints
  <2> QED BY <2>1 DEF Keeping, MixedFile, Snapshot, LacksLast
<1>4. CASE OpenMetadata(p)
  <2>1. ckpt' = ckpt /\ meta' = TornFile /\ r.pc = "meta"
        /\ q.pc = "writeMeta" /\ q.cur = r.cur /\ q.status = r.status
    BY <1>0, <1>4 DEF OpenMetadata, Goes, Becomes, At, Points, SavePoints
  <2> QED BY <2>1 DEF Keeping, TornFile
<1>5. CASE WriteMetadata(p)
  <2>1. /\ ckpt' = ckpt /\ meta' \in {meta, MetadataOf(r.status), MixedFile}
        /\ q.pc = "dirs" /\ q.cur = r.cur /\ q.status = r.status
        /\ r.pc = "writeMeta"
    BY <1>0, <1>5 DEF WriteMetadata, Written, Goes, Becomes, At, Points, SavePoints
  <2>2. \A s \in CompletedIn(r.status) : r.status[s] = "completed" /\ s \in 1..r.cur
    BY <1>1 DEF CompletedIn, Sound, NoneAhead
  <2>3. CASE meta' = MetadataOf(r.status)
    BY <1>1, <2>1, <2>2, <2>3 DEF Keeping, LacksLast, MetadataOf
  <2>4. CASE meta' \in {meta, MixedFile}
    BY <2>1, <2>4 DEF Keeping, MixedFile
  <2> QED BY <2>1, <2>3, <2>4
<1>6. CASE ~OpenCheckpoint(p) /\ ~WriteCheckpoint(p) /\ ~OpenMetadata(p)
           /\ ~WriteMetadata(p)
  <2>1. /\ q.pc \notin Between /\ q.cur >= r.cur
        /\ \A s \in Stages :
             \/ q.status[s] = r.status[s]
             \/ /\ q.status[s] # "queued"
                /\ s = r.cur \/ r.status[s] # "completed"
    BY <1>6, MovesOn
  <2>2. UNCHANGED <<ckpt, meta>>
    BY <1>1, <1>6, ActsCheckpoint, ActsMetadata DEF IInv
  <2>3. q \in Memory
    BY <1>1, ActsSound
  <2>4. q.cur \in Int
    BY <2>3, StageRunAssumption DEF Memory
  <2> HIDE DEF q, r
  <2>5. ASSUME meta.kind = "ok"
        PROVE  LacksLast(q.status, meta)
               /\ \A s, t \in meta.completed : s < t => s < q.cur
    <3>1. LacksLast(r.status, meta)
          /\ \A s, t \in meta.completed : s < t => s < r.cur
      BY <2>5 DEF Keeping, r
    <3>2. meta.completed \subseteq Int
      BY <1>1, <2>5
    <3>3. r.cur \in Int
      BY <1>1
    <3>4. ASSUME NEW s \in meta.completed, q.status[s] # "completed"
          PROVE  q.status[s] # "queued" /\ \A t \in meta.completed : t <= s
      <4>1. s \in Stages
        BY <1>1, <2>5
      <4>2. CASE s = r.cur
        BY <2>1, <3>1, <3>2, <3>3, <3>4, <4>1, <4>2 DEF LacksLast
      <4>3. CASE s # r.cur
        BY <2>1, <3>1, <3>4, <4>1, <4>3 DEF LacksLast
      <4> QED BY <4>2, <4>3
    <3> QED BY <2>1, <2>4, <3>1, <3>2, <3>3, <3>4 DEF LacksLast
  <2> QED BY <2>1, <2>2, <2>5 DEF Keeping, Between, q
<1> QED BY <1>2, <1>3, <1>4, <1>5, <1>6

\* A resume has of the stages what the checkpoint has.
LEMMA ResumeKeeping ==
    ASSUME IInv, NEW p \in Processes, Resume(p),
           ckpt.kind = "ok" /\ meta.kind = "ok" => LacksLast(ckpt.status, meta)
    PROVE  Keeping(run'[p], ckpt, meta)
<1>1. ckpt \in Checkpoint /\ N \in Nat /\ ckpt.kind = "ok"
      /\ ckpt.last \in 0..N /\ run[p].mode \in Mode
  BY LoadedCheckpoint, StageRunAssumption
  DEF IInv, TypeOK, Memory, Resume, Loads, Checkpoint
<1>2. run'[p].cur = ckpt.last + 1 /\ run'[p].pc \in {"confirm", "loop"}
      /\ run'[p].status = ckpt.status
  BY DEF Resume, Becomes, IInv, TypeOK, Fresh, NextIncomplete
<1>3. ASSUME meta.kind = "ok", NEW s \in meta.completed, NEW t \in meta.completed,
             s < t
      PROVE  s < ckpt.last + 1
  <2>1. s \in 1..N /\ t \in 1..N
    BY <1>3, FileTypes DEF IInv, Stages
  <2>2. ckpt.status[s] = "completed"
    BY <1>1, <1>3, <2>1 DEF LacksLast
  <2> QED BY <1>1, <2>1, <2>2 DEF IInv, CheckpointPrefixSettled
<1> QED BY <1>1, <1>2, <1>3 DEF Keeping

\* Both files after a step of the process that works.
LEMMA OwnFiles ==
    ASSUME IInv, NEW p \in Working, Keeping(run[p], ckpt, meta), Acts(p),
           ckpt.kind = "ok" /\ meta.kind = "ok" => LacksLast(ckpt.status, meta)
    PROVE  ckpt'.kind = "ok" /\ meta'.kind = "ok" => LacksLast(ckpt'.status, meta')
<1> DEFINE r == run[p]
<1>1. p \in Processes
  BY DEF Working
<1>2. CASE UNCHANGED <<ckpt, meta>>
  BY <1>2 DEF LacksLast
<1>3. CASE ckpt' \in {TornFile, MixedFile} \/ meta' \in {TornFile, MixedFile}
  BY <1>3 DEF TornFile, MixedFile
<1>4. CASE WriteCheckpoint(p) /\ ckpt' = Snapshot(r)
  BY <1>4 DEF WriteCheckpoint, Keeping, Snapshot, LacksLast
<1>5. CASE WriteMetadata(p) /\ meta' = MetadataOf(r.status)
  <2>1. ckpt' = ckpt /\ r.pc = "writeMeta"
    BY <1>5 DEF WriteMetadata, At
  <2> QED BY <1>5, <2>1 DEF Keeping, MetadataOf, CompletedIn, LacksLast
<1>6. OpenCheckpoint(p) \/ WriteCheckpoint(p) => UNCHANGED meta
  BY DEF OpenCheckpoint, WriteCheckpoint
<1> QED BY <1>1, <1>2, <1>3, <1>4, <1>5, <1>6, ActsCheckpoint, ActsMetadata DEF IInv

LEMMA StepMetadata ==
    ASSUME IInv, Alone, MetadataKept, [Next]_vars
    PROVE  MetadataKept'
<1>1. ASSUME NEW p \in Processes, Acts(p), beside' = {} PROVE MetadataKept'
  <2>1. /\ \A q \in Processes \ {p} : run'[q] = run[q]
        /\ run \in [Processes -> Memory] /\ beside = {}
    BY <1>1, ActsSound, ActsOthers DEF IInv, TypeOK, Resume
  <2>2. /\ \A q \in Working : Keeping(run[q], ckpt, meta)
        /\ ckpt.kind = "ok" /\ meta.kind = "ok" => LacksLast(ckpt.status, meta)
    BY <2>1 DEF MetadataKept
  <2>3. \A q \in Working : p \in Working => q = p
    BY <2>1 DEF Alone, OverlapKnown
  <2>4. CASE Resume(p)
    <3>1. UNCHANGED <<ckpt, meta>> /\ Working = {}
      BY <1>1, <2>4 DEF Resume, disk
    <3>2. Working' \subseteq {p}
      BY <2>1, <3>1 DEF Working
    <3>3. Keeping(run'[p], ckpt, meta)
      BY <2>1, <2>2, <2>4, ResumeKeeping
    <3> QED BY <2>2, <3>1, <3>2, <3>3 DEF MetadataKept, Keeping, LacksLast
  <2>5. CASE p \in Working
    <3>1. Working' \subseteq {p}
      BY <2>1, <2>3, <2>5 DEF Working
    <3>2. p \in Working' => Keeping(run'[p], ckpt', meta')
      BY <1>1, <2>2, <2>5, OwnKeeping
    <3>3. ckpt'.kind = "ok" /\ meta'.kind = "ok" => LacksLast(ckpt'.status, meta')
      BY <1>1, <2>2, <2>5, OwnFiles
    <3> QED BY <3>1, <3>2, <3>3 DEF MetadataKept, Keeping, LacksLast
  <2>6. CASE p \notin Working /\ ~Resume(p)
    <3>1. UNCHANGED <<ckpt, meta>>
      <4>1. ~OpenCheckpoint(p) /\ ~WriteCheckpoint(p) /\ ~OpenMetadata(p)
            /\ ~WriteMetadata(p)
        BY <2>6 DEF OpenCheckpoint, WriteCheckpoint, OpenMetadata, WriteMetadata,
                    Working, At
      <4> QED BY <1>1, <4>1, ActsCheckpoint, ActsMetadata DEF IInv
    <3>2. Working' \subseteq Working /\ p \notin Working'
      BY <1>1, <2>1, <2>6, WorkingSteps DEF Working
    <3> QED BY <2>1, <2>2, <2>6, <3>1, <3>2 DEF MetadataKept, Keeping, LacksLast, Working
  <2> QED BY <2>4, <2>5, <2>6
<1>2. CASE runsCommand
  BY <1>2, CommandsBystanding
  DEF IInv, MetadataKept, Keeping, LacksLast, Working, NoFile
<1>3. CASE UNCHANGED vars
  BY <1>3 DEF vars, disk, others, MetadataKept, Keeping, LacksLast, Working
<1>4. beside' # {} => MetadataKept'
  BY DEF MetadataKept
<1> QED BY <1>1, <1>2, <1>3, <1>4 DEF Next, Acts

\* metadata.json counts no completed stage that the checkpoint, from which a resume
\* starts, does not have, but for the last one of a save that threw: for as long as
\* the processes follow one another, whatever step they died or failed at.
THEOREM MetadataBehind == Spec => []MetadataInStep
<1>1. Init => MetadataKept
  <2> SUFFICES ASSUME Init PROVE MetadataKept
    OBVIOUS
  <2>1. \A p \in Processes : run[p].pc \in {"loop", "down"}
    BY DEF Init, Down, Fresh
  <2> QED BY <2>1 DEF Init, NoFile, MetadataKept, Keeping, Working
<1>2. IInv /\ MetadataKept => MetadataInStep
  <2> SUFFICES ASSUME IInv, MetadataKept, beside = {}, Listed, Loads,
                      NEW s \in meta.completed \ Shown
               PROVE  /\ ckpt.status[s] \in {"error", "skipped"}
                      /\ \A t \in meta.completed : t <= s
    BY DEF MetadataInStep
  <2>1. s \in Stages /\ ckpt.status[s] \in Status /\ ckpt.status[s] # "completed"
    BY FileTypes DEF IInv, Listed, Loads, Shown
  <2>2. ckpt.status[s] # "running"
    BY <2>1 DEF IInv, CheckpointAtRest, Loads
  <2>3. LacksLast(ckpt.status, meta)
    BY DEF MetadataKept, Listed, Loads
  <2> QED BY <2>1, <2>2, <2>3 DEF LacksLast, Status
<1> QED
  BY <1>1, <1>2, InitAlone, StepAlone, StepMetadata, InductiveInvariant, PTL DEF Spec
=============================================================================
