------------------------------ MODULE StageRun ------------------------------
(***************************************************************************)
(* One run of a multi-stage agent: StageExecutionController.execute and    *)
(* resume (src/core/stage-execution-controller.ts), the prompts they show  *)
(* (src/core/prompt-manager.ts) and the checkpoint directory they write    *)
(* through CheckpointManager (src/core/checkpoint-manager.ts).             *)
(*                                                                         *)
(* A process works through the stages in order.  After each stage it       *)
(* writes checkpoint.json and metadata.json, may ask the user how to go    *)
(* on, and writes both files once more before it returns.  The process may *)
(* die between any two steps; another one may resume from what is on disk, *)
(* also when the first is still at work: nothing looks whether it is.      *)
(* "ax runs delete" (src/cli/commands/runs.ts) removes the files meanwhile.*)
(*                                                                         *)
(* Stages are numbered from 1.  Texts (prompts, outputs, descriptions) are *)
(* abstracted to the stage they belong to.                                 *)
(***************************************************************************)
EXTENDS Integers, Sequences, FiniteSets

CONSTANTS
    N,               \* number of stages of the agent profile
    PromptStages,    \* stages whose "checkpoint" flag is set (default: all)
    MaxRetries,      \* executeStage's automatic retries (stage.maxRetries)
    MaxUserRetries,  \* bound: no more "retry" once a stage has had so many
    MaxProcesses,    \* bound: processes that work on the run (1 + resumes)
    MaxDeletions,    \* bound: "ax runs delete" commands for the run
    Modes,           \* the ExecutionModes a process may be started with
    Faults           \* which of "crash" and "io" may happen

Stages == 1..N
Processes == 1..MaxProcesses

Mode == [interactive : BOOLEAN, autoConfirm : BOOLEAN, resumable : BOOLEAN]

ASSUME StageRunAssumption ==
    /\ N \in Nat \ {0}
    /\ PromptStages \subseteq Stages
    /\ MaxRetries \in Nat
    /\ MaxUserRetries \in Nat
    /\ MaxProcesses \in Nat \ {0}
    /\ MaxDeletions \in Nat
    /\ Modes \subseteq Mode
    /\ Faults \subseteq {"crash", "io"}

Status == {"queued", "running", "completed", "error", "skipped"}
ResultStatus == {"completed", "error", "skipped"}
Settled == {"completed", "skipped"}

VARIABLES
    run,        \* what every process has in memory
    processes,  \* number of processes that have worked on the run so far
    ckpt,       \* checkpoint.json
    meta,       \* metadata.json
    dir,        \* whether the directory of the run's files is there
    opened,     \* processes that have a file open for writing which is still there
    removal,    \* where "ax runs delete" stands
    deletions,  \* number of these commands so far
    beside      \* history: processes that worked while another one did

disk == <<ckpt, meta, dir, opened>>
others == <<removal, deletions, beside, processes>>
vars == <<run, disk, others>>

SavePoints == {"save", "write", "meta", "writeMeta", "dirs"}
Points == {"loop", "execute", "ask", "next", "prompt", "finish", "returned",
           "down", "resuming", "confirm"} \cup SavePoints

Memory ==
    [pc : Points,                \* where the process stands, "down" when there is none
     mode : Mode,                \* the ExecutionMode it was started with
     cur : 1..N+1,               \* loop variable i
     attempt : 0..MaxRetries,    \* executeStage's attempt
     saving : {"stage", "final"},  \* the save in progress: in the loop or the last one
     last : 0..N,                \* lastCompletedIndex passed to that save
     status : [Stages -> Status],                      \* stageStates[s].status
     res : [Stages -> ResultStatus \cup {"none"}],     \* the status of its result
     retries : [Stages -> Nat],  \* stageStates[s].retries
     outputs : Seq(Stages),      \* stageContext.previousOutputs
     failed : 0..N]              \* failedStageIndex, 0 when undefined

NoFile == [kind |-> "none"]
TornFile == [kind |-> "torn"]
\* What is left when two processes have written over each other.
MixedFile == [kind |-> "mixed"]
NoRecord == {NoFile, TornFile, MixedFile}

\* A complete checkpoint.json: the fields a resume reads back.
Checkpoint ==
    [kind : {"ok"}, status : [Stages -> Status],
     res : [Stages -> ResultStatus \cup {"none"}], retries : [Stages -> Nat],
     outputs : Seq(Stages), last : 0..N]

\* metadata.json names the status of the run and the stages it counts completed.
RunStatus == {"running", "failed", "completed", "paused"}
Metadata == [kind : {"ok"}, completed : SUBSET Stages, status : RunStatus]

TypeOK ==
    /\ run \in [Processes -> Memory]
    /\ processes \in Processes
    /\ ckpt \in NoRecord \cup Checkpoint
    /\ meta \in NoRecord \cup Metadata
    /\ dir \in BOOLEAN
    /\ opened \subseteq Processes
    /\ removal \in {"none", "asked", "removing"}
    /\ deletions \in 0..MaxDeletions
    /\ beside \subseteq Processes

-----------------------------------------------------------------------------
\* execute: fresh stage states, nothing on disk for the new run ID.

Fresh(m, point) ==
    [pc |-> point, mode |-> m, cur |-> 1, attempt |-> 0, saving |-> "stage",
     last |-> 0, status |-> [s \in Stages |-> "queued"],
     res |-> [s \in Stages |-> "none"], retries |-> [s \in Stages |-> 0],
     outputs |-> <<>>, failed |-> 0]

\* No process: there is nothing in its memory.
Down ==
    Fresh([interactive |-> FALSE, autoConfirm |-> FALSE, resumable |-> FALSE],
          "down")

Init ==
    /\ \E m \in Modes :
         run = [p \in Processes |-> IF p = 1 THEN Fresh(m, "loop") ELSE Down]
    /\ processes = 1 /\ beside = {}
    /\ ckpt = NoFile /\ meta = NoFile /\ dir = FALSE /\ opened = {}
    /\ removal = "none" /\ deletions = 0

\* A process that has returned: what it says of the stages is left.
Returned(r) == [Fresh(r.mode, "returned") EXCEPT !.status = r.status]

At(p, point) == run[p].pc = point
Becomes(p, r) == run' = [run EXCEPT ![p] = r]
Goes(p, point) == Becomes(p, [run[p] EXCEPT !.pc = point])

\* The file has the state the stages have now.
Snapshot(r) ==
    [kind |-> "ok", status |-> r.status, res |-> r.res, retries |-> r.retries,
     outputs |-> r.outputs, last |-> r.last]

\* Mutant: skipped stages are counted as completed.
SettledIn(st) == {s \in Stages : st[s] \in Settled}

CompletedIn(st) == {s \in Stages : st[s] = "completed"}

RunStatusOf(st) ==
    LET found == {st[s] : s \in Stages}
    IN  IF "running" \in found THEN "running"
        ELSE IF "error" \in found THEN "failed"
        ELSE IF found \subseteq Settled THEN "completed" ELSE "paused"

MetadataOf(st) ==
    [kind |-> "ok", completed |-> CompletedIn(st), status |-> RunStatusOf(st)]

-----------------------------------------------------------------------------
\* The loop over the stages.

BeginStage(p) ==
    LET r == run[p]
    IN  /\ At(p, "loop") /\ r.cur <= N
        /\ Becomes(p, [r EXCEPT !.status[r.cur] = "running",
                                !.pc = "execute"])
        /\ UNCHANGED <<disk, others>>

LoopEnd(p) ==
    /\ At(p, "loop") /\ run[p].cur > N
    /\ Goes(p, "finish")
    /\ UNCHANGED <<disk, others>>

\* The stage failed: it has an error result, then the user is asked what to
\* do, or the loop ends when nobody can be asked.
FailureIn(r) ==
    [r EXCEPT !.res[r.cur] = "error", !.status[r.cur] = "error", !.failed = r.cur,
              !.attempt = 0, !.pc = IF r.mode.interactive THEN "ask" ELSE "finish"]

\* The provider call failed and automatic retries are left.
AttemptFails(p) ==
    /\ At(p, "execute") /\ run[p].attempt < MaxRetries
    /\ Becomes(p, [run[p] EXCEPT !.attempt = @ + 1])
    /\ UNCHANGED <<disk, others>>

\* The last attempt failed: executeStage returns an error result.
StageFails(p) ==
    /\ At(p, "execute") /\ run[p].attempt = MaxRetries
    /\ Becomes(p, FailureIn(run[p]))
    /\ UNCHANGED <<disk, others>>

\* Building the context of the stage threw, before the first attempt: the
\* loop's catch block.
StageThrows(p) ==
    /\ At(p, "execute") /\ run[p].attempt = 0
    /\ Becomes(p, FailureIn(run[p]))
    /\ UNCHANGED <<disk, others>>

StageSucceeds(p) ==
    LET r == run[p]
        done == [r EXCEPT !.res[r.cur] = "completed",
                          !.status[r.cur] = "completed", !.attempt = 0]
    IN  /\ At(p, "execute")
        /\ Becomes(p, IF r.mode.resumable
                      THEN [done EXCEPT !.pc = "save", !.saving = "stage",
                                        !.last = r.cur]
                      ELSE [done EXCEPT !.pc = "next"])
        /\ UNCHANGED <<disk, others>>

-----------------------------------------------------------------------------
\* The answer to the prompt a failure shows; a retry or a skip takes the error
\* result of the stage back.

RetryStage(p) ==
    LET r == run[p]
    IN  /\ At(p, "ask") /\ \A s \in Stages : r.retries[s] < MaxUserRetries
        /\ Becomes(p, [r EXCEPT !.res[r.cur] = "none", !.retries[r.cur] = @ + 1,
                                !.pc = "loop"])
        /\ UNCHANGED <<disk, others>>

SkipStage(p) ==
    LET r == run[p]
    IN  /\ At(p, "ask")
        /\ Becomes(p, [r EXCEPT !.res[r.cur] = "skipped",
                                !.status[r.cur] = "skipped",
                                !.cur = @ + 1, !.pc = "loop"])
        /\ UNCHANGED <<disk, others>>

\* Mutant: the answer "abort" does not leave the loop.
AbortContinues(p) ==
    /\ At(p, "ask")
    /\ Becomes(p, [run[p] EXCEPT !.cur = @ + 1, !.pc = "loop"])
    /\ UNCHANGED <<disk, others>>

AbortRun(p) ==
    /\ At(p, "ask")
    /\ Goes(p, "finish")
    /\ UNCHANGED <<disk, others>>

-----------------------------------------------------------------------------
\* CheckpointManager.saveCheckpoint: the directory is made if it is not there,
\* each file is truncated, then filled.  What is written to a file that was
\* removed meanwhile is lost with it; what is written behind a truncation to a
\* file another process has filled may leave the longer end of the other.

Written(p, file, content) ==
    IF p \notin opened THEN {file}
    ELSE IF file = TornFile THEN {content}
    ELSE {content, MixedFile}

OpenCheckpoint(p) ==
    /\ At(p, "save")
    /\ ckpt' = TornFile /\ dir' = TRUE /\ opened' = opened \cup {p}
    /\ Goes(p, "write")
    /\ UNCHANGED <<meta, others>>

WriteCheckpoint(p) ==
    /\ At(p, "write")
    /\ ckpt' \in Written(p, ckpt, Snapshot(run[p]))
    /\ opened' = opened \ {p}
    /\ Goes(p, "meta")
    /\ UNCHANGED <<meta, dir, others>>

OpenMetadata(p) ==
    /\ At(p, "meta") /\ dir
    /\ meta' = TornFile /\ opened' = opened \cup {p}
    /\ Goes(p, "writeMeta")
    /\ UNCHANGED <<ckpt, dir, others>>

WriteMetadata(p) ==
    /\ At(p, "writeMeta")
    /\ meta' \in Written(p, meta, MetadataOf(run[p].status))
    /\ opened' = opened \ {p}
    /\ Goes(p, "dirs")
    /\ UNCHANGED <<ckpt, dir, others>>

\* The directories of artifacts and logs, made where they are missing.
MakeDirectories(p) ==
    /\ At(p, "dirs")
    /\ dir' = TRUE
    /\ Becomes(p, IF run[p].saving = "stage" THEN [run[p] EXCEPT !.pc = "next"]
                  ELSE Returned(run[p]))
    /\ UNCHANGED <<ckpt, meta, opened, others>>

\* A file operation throws.  In the loop the catch block takes it for a failure
\* of the stage; the last save is outside of it and execute rejects.
Throw(p) ==
    /\ Becomes(p, IF run[p].saving = "stage" THEN FailureIn(run[p]) ELSE Down)
    /\ opened' = opened \ {p}
    /\ UNCHANGED <<ckpt, meta, dir, others>>

SaveFails(p) == "io" \in Faults /\ run[p].pc \in SavePoints /\ Throw(p)

\* The second file cannot be opened when the directory has been removed.
MetadataFails(p) == At(p, "meta") /\ ~dir /\ Throw(p)

-----------------------------------------------------------------------------
\* handleCheckpoint and what the loop does with its answer.

AsksUser(r) ==
    /\ r.cur \in PromptStages
    /\ r.mode.interactive /\ ~r.mode.autoConfirm
    /\ r.cur < N

\* The output of the stage is kept for those behind it.
Advance(r, next) ==
    [r EXCEPT !.outputs = Append(@, r.cur), !.cur = next, !.pc = "loop"]

NextStage(p) ==
    /\ At(p, "next") /\ ~AsksUser(run[p])
    /\ Becomes(p, Advance(run[p], run[p].cur + 1))
    /\ UNCHANGED <<disk, others>>

PromptUser(p) ==
    /\ At(p, "next") /\ AsksUser(run[p])
    /\ Goes(p, "prompt")
    /\ UNCHANGED <<disk, others>>

\* Also with the description of the next stage modified.
ContinueStage(p) ==
    /\ At(p, "prompt")
    /\ Becomes(p, Advance(run[p], run[p].cur + 1))
    /\ UNCHANGED <<disk, others>>

\* Mutant: the stage just done is marked instead of the next one.
SkipThis(p) ==
    LET r == run[p]
    IN  /\ At(p, "prompt")
        /\ Becomes(p, Advance([r EXCEPT !.status[r.cur] = "skipped"], r.cur + 2))
        /\ UNCHANGED <<disk, others>>

SkipNext(p) ==
    LET r == run[p]
    IN  /\ At(p, "prompt")
        /\ Becomes(p, Advance([r EXCEPT !.status[r.cur + 1] = "skipped"],
                              r.cur + 2))
        /\ UNCHANGED <<disk, others>>

AbortAtCheckpoint(p) ==
    /\ At(p, "prompt")
    /\ Goes(p, "finish")
    /\ UNCHANGED <<disk, others>>

-----------------------------------------------------------------------------
\* The end of execute and resume: the last save, for the last completed stage.

\* Mutant: the last stage that left the queue, whatever became of it.
IsLastBegun(st, l) ==
    /\ l = 0 \/ (l \in Stages /\ st[l] # "queued")
    /\ \A s \in l+1..N : st[s] = "queued"

IsLastCompleted(st, l) ==
    /\ l = 0 \/ (l \in Stages /\ st[l] = "completed")
    /\ \A s \in l+1..N : st[s] # "completed"

\* Mutant: no last save, the one after the last stage must do.
FinishUnsaved(p) ==
    /\ At(p, "finish")
    /\ Becomes(p, Returned(run[p]))
    /\ UNCHANGED <<disk, others>>

Finish(p) ==
    LET r == run[p]
    IN  /\ At(p, "finish")
        /\ \/ /\ ~r.mode.resumable
              /\ Becomes(p, Returned(r))
           \/ /\ r.mode.resumable
              /\ \E l \in 0..N :
                   /\ IsLastCompleted(r.status, l)
                   /\ Becomes(p, [r EXCEPT !.last = l, !.saving = "final",
                                           !.pc = "save"])
        /\ UNCHANGED <<disk, others>>

-----------------------------------------------------------------------------
\* A process dies: what it held in memory is gone.

Crash(p) ==
    /\ "crash" \in Faults
    /\ run[p].pc \notin {"returned", "down"}
    /\ Becomes(p, Down)
    /\ opened' = opened \ {p}
    /\ UNCHANGED <<ckpt, meta, dir, others>>

\* Mutant: a resume starts with the last completed stage.
LastCompleted == ckpt.last

NextIncomplete == ckpt.last + 1

\* loadCheckpoint: the file is there, complete, and its checksum is right.
Loads == ckpt.kind = "ok"

\* The modes of a resumed run, by the options of the command or the checkpoint.
ResumeModes == {m \in Modes : m.resumable}

\* "ax resume" loads the checkpoint, then makes the other parts of the program.
\* Whether a process works on the run does not matter to it.
resumeCommand(p, m) ==
    /\ p = processes + 1 /\ At(p, "down")
    /\ Loads
    /\ Becomes(p, Fresh(m, "resuming"))
    /\ UNCHANGED <<disk, others>>

\* The processes that have the state of the run in memory and go on with it.
Working == {p \in Processes : run[p].pc \notin {"resuming", "returned", "down"}}

\* resume loads it once more, may ask the user whether to go on, and goes on
\* behind the last completed stage.
Resume(p) ==
    LET m == run[p].mode
    IN  /\ At(p, "resuming") /\ Loads
        /\ processes' = p
        /\ Becomes(p, [Fresh(m, IF m.interactive /\ ~m.autoConfirm
                                THEN "confirm" ELSE "loop")
                       EXCEPT !.cur = NextIncomplete, !.status = ckpt.status,
                              !.res = ckpt.res, !.retries = ckpt.retries,
                              !.outputs = ckpt.outputs])
        /\ beside' = IF Working = {} THEN beside ELSE beside \cup Working \cup {p}
        /\ UNCHANGED <<disk, removal, deletions>>

ResumeFails(p) ==
    /\ At(p, "resuming") /\ ~Loads
    /\ Becomes(p, Down)
    /\ UNCHANGED <<disk, others>>

ConfirmResume(p) ==
    /\ At(p, "confirm")
    /\ Goes(p, "loop")
    /\ UNCHANGED <<disk, others>>

CancelResume(p) ==
    /\ At(p, "confirm")
    /\ Becomes(p, Down)
    /\ UNCHANGED <<disk, others>>

-----------------------------------------------------------------------------
\* "ax runs delete", another process, which does not look whether the run is
\* in progress.

\* loadCheckpoint must succeed: what cannot be loaded cannot be deleted.
deleteRunCommand ==
    /\ removal = "none" /\ deletions < MaxDeletions
    /\ Loads
    /\ removal' = "asked"
    /\ UNCHANGED <<run, disk, processes, deletions, beside>>

Cancelled ==
    /\ removal = "asked"
    /\ removal' = "none"
    /\ UNCHANGED <<run, disk, processes, deletions, beside>>

\* rm removes the files one by one, then the directory.
deleteCheckpoint ==
    /\ \/ /\ removal = "asked" /\ deletions < MaxDeletions
          /\ deletions' = deletions + 1
       \/ removal = "removing" /\ UNCHANGED deletions
    /\ \/ /\ ckpt # NoFile /\ ckpt' = NoFile
          /\ opened' = {p \in opened : ~At(p, "write")}
          /\ UNCHANGED meta
       \/ /\ meta # NoFile /\ meta' = NoFile
          /\ opened' = {p \in opened : ~At(p, "writeMeta")}
          /\ UNCHANGED ckpt
    /\ removal' = "removing"
    /\ UNCHANGED <<run, dir, processes, beside>>

RemoveDirectory ==
    /\ removal = "removing"
    /\ ckpt = NoFile /\ meta = NoFile
    /\ dir' = FALSE
    /\ removal' = "none"
    /\ UNCHANGED <<run, ckpt, meta, opened, processes, deletions, beside>>

\* The command dies or fails half way, also because the run makes new files.
RemovalFails ==
    /\ removal = "removing"
    /\ removal' = "none"
    /\ UNCHANGED <<run, disk, processes, deletions, beside>>

\* What "runs list" and "runs show" have of the run.
Listed == meta.kind = "ok"
Shown == {s \in Stages : ckpt.status[s] = "completed"}

runsCommand ==
    \/ deleteRunCommand \/ Cancelled
    \/ deleteCheckpoint \/ RemoveDirectory \/ RemovalFails

-----------------------------------------------------------------------------
ExecuteStage(p) ==
    AttemptFails(p) \/ StageFails(p) \/ StageThrows(p) \/ StageSucceeds(p)

AnswerFailure(p) == RetryStage(p) \/ SkipStage(p) \/ AbortRun(p)

SaveCheckpoint(p) ==
    \/ OpenCheckpoint(p) \/ WriteCheckpoint(p)
    \/ OpenMetadata(p) \/ WriteMetadata(p) \/ MetadataFails(p)
    \/ MakeDirectories(p)

HandleCheckpoint(p) ==
    \/ PromptUser(p) \/ ContinueStage(p) \/ SkipNext(p)
    \/ AbortAtCheckpoint(p)

\* What a process does by itself, whatever it is answered.
ProcessStep(p) ==
    \/ BeginStage(p) \/ LoopEnd(p)
    \/ ExecuteStage(p) \/ AnswerFailure(p)
    \/ SaveCheckpoint(p) \/ NextStage(p) \/ HandleCheckpoint(p)
    \/ Finish(p)

ResumeStep(p) ==
    \/ \E m \in ResumeModes : resumeCommand(p, m)
    \/ Resume(p) \/ ResumeFails(p)
    \/ ConfirmResume(p) \/ CancelResume(p)

Next ==
    \/ \E p \in Processes :
         ProcessStep(p) \/ SaveFails(p) \/ Crash(p) \/ ResumeStep(p)
    \/ runsCommand

Spec == Init /\ [][Next]_vars

\* The event loop runs what is ready: a live process keeps going.
FairSpec == Spec /\ \A p \in Processes : WF_vars(ProcessStep(p))

-----------------------------------------------------------------------------
\* Properties.

\* A stage runs only when every stage before it is completed or was skipped, in
\* every process, whoever works beside it: neither a failed stage the user
\* aborted at, nor one that a resume jumped over, is left behind (the breaks of
\* the loop, startIndex of resume).
StageOrder ==
    \A p \in Processes :
        At(p, "execute") =>
            \A s \in 1..run[p].cur-1 : run[p].status[s] \in Settled

\* Whatever the moment a process dies in, and however many write the file, a
\* checkpoint that can be loaded points right behind a settled prefix: up to its
\* last completed stage all is settled, behind it nothing is completed
\* (lastCompletedIndex against stageStates).
CheckpointPrefixSettled ==
    ckpt.kind = "ok" =>
        /\ \A s \in 1..ckpt.last : ckpt.status[s] \in Settled
        /\ \A s \in ckpt.last+1..N : ckpt.status[s] # "completed"

\* A process that has worked on the run alone does not execute a stage that the
\* checkpoint on disk counts as completed, however many were at it before and
\* whatever became of them, unless its own save of that very stage threw behind
\* checkpoint.json and it was told to retry.
NoRepeat ==
    \A p \in Processes \ beside :
        At(p, "execute") /\ ckpt.kind = "ok"
            /\ ckpt.status[run[p].cur] = "completed"
        => run[p].failed = run[p].cur

\* Within a process a completed stage stays completed, unless the save right
\* after it throws: the loop's catch block then takes it for a failed stage.
CompletedStays ==
    [][\A p \in Processes, s \in Stages :
         (run[p].status[s] = "completed" /\ run'[p].pc # "down") =>
             \/ run'[p].status[s] = "completed"
             \/ /\ s = run[p].cur
                /\ run[p].pc \in SavePoints /\ run[p].saving = "stage"]_vars

\* "runs list" reads metadata.json; "runs show", "runs delete" and a resume read
\* checkpoint.json.  As long as the processes followed one another, the first
\* reports no completed stage that the others do not have, but for the last one
\* of them, when a directory could not be made right after both files had it:
\* the checkpoint then counts it as failed or skipped.
MetadataInStep ==
    beside = {} /\ Listed /\ Loads =>
        \A s \in meta.completed \ Shown :
            /\ ckpt.status[s] \in {"error", "skipped"}
            /\ \A t \in meta.completed : t <= s

Returns(p) == ~At(p, "returned") /\ run'[p].pc = "returned"

\* A process nobody has to answer never stays at work: it comes to its end or
\* dies.  And when a process ends it leaves both files with the final state of
\* the stages, if they were to be kept, nobody has told to delete them and no
\* other process works on the run: retries, throwing saves and a resume
\* notwithstanding.
EndsRecorded ==
    /\ []<>(\A p \in Working : run[p].mode.interactive)
    /\ [][\A p \in Processes \ beside :
            (Returns(p) /\ run[p].mode.resumable /\ deletions = 0) =>
                /\ ckpt'.kind = "ok" /\ ckpt'.status = run'[p].status
                /\ meta'.kind = "ok"
                /\ meta'.completed = CompletedIn(run'[p].status)]_vars
=============================================================================
