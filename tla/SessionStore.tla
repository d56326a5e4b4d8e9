---------------------------- MODULE SessionStore ----------------------------
(***************************************************************************)
(* How SessionManager (src/core/session-manager.ts) keeps its table of     *)
(* sessions in sessions.json: the debounced saveToFile, doSave with its    *)
(* temporary file, flushSave and destroy, and loadFromFile at the start of *)
(* a process.                                                              *)
(*                                                                         *)
(* The table is abstracted to the set of changes that made it: each call   *)
(* that ends in saveToFile (createSession, addAgent, completeSession ...)  *)
(* adds a number nobody used before.  Files are inodes, so that a save     *)
(* which still holds the temporary file open writes into whatever name     *)
(* that file has been given since.                                         *)
(***************************************************************************)
EXTENDS Integers, FiniteSets

CONSTANTS
    Procs,       \* processes that use the file: the MCP server, CLI commands
    Commands,    \* those that run one `ax session` command and exit as soon as it is done
    MaxChanges,  \* bound: changes made
    MaxJobs,     \* bound: saves in progress at the same time
    Faults       \* which of "crash" and "io" may happen

ASSUME SessionStoreAssumption ==
    /\ Commands \subseteq Procs
    /\ MaxChanges \in Nat
    /\ MaxJobs \in Nat \ {0}
    /\ Faults \subseteq {"crash", "io"}

Changes == 1..MaxChanges
Jobs == 1..MaxJobs
Inodes == 1..MaxJobs + 2
None == 0

Contents == [whole : BOOLEAN, data : SUBSET Changes]
Partial == [whole |-> FALSE, data |-> {}]
Whole(d) == [whole |-> TRUE, data |-> d]

VARIABLES
    pc,        \* of a process: "off", "up", "destroying", "destroyed"
    table,     \* activeSessions, as the set of its changes
    made,      \* number of changes made so far
    timer,     \* is the debounce timer running?
    pending,   \* the save pendingSave stands for, None when it is settled
    job,       \* the saves in progress
    tmp,       \* the inode sessions.json.tmp names
    file,      \* the inode sessions.json names
    content,   \* what an inode holds
    blind,     \* history: processes that could not read the file, or in whose life another one saved
    stale,     \* history: saves of a blind process, and those another one has overtaken since their snapshot
    shared,    \* history: temporary files opened while another save was not done with one
    reached    \* history: changes that were in the file at some time

jobVars == <<job, pending>>
diskVars == <<tmp, file, content>>
histories == <<blind, stale, shared, reached>>
vars == <<pc, table, made, timer, jobVars, diskVars, histories>>

Idle == [at |-> "idle", proc |-> None, data |-> {}, inode |-> None]

Init ==
    /\ pc = [p \in Procs |-> "off"]
    /\ table = [p \in Procs |-> {}]
    /\ made = 0
    /\ timer = [p \in Procs |-> FALSE]
    /\ pending = [p \in Procs |-> None]
    /\ job = [j \in Jobs |-> Idle]
    /\ tmp = None /\ file = None
    /\ content = [i \in Inodes |-> Partial]
    /\ blind = {} /\ stale = {} /\ shared = {} /\ reached = {}

Stored == IF file # None /\ content[file].whole THEN content[file].data ELSE {}

JobsOf(p) == {j \in Jobs : job[j].at # "idle" /\ job[j].proc = p}

-----------------------------------------------------------------------------
Loads(p, t) ==
    /\ pc[p] = "off"
    /\ pc' = [pc EXCEPT ![p] = "up"]
    /\ table' = [table EXCEPT ![p] = t]
    /\ UNCHANGED <<made, timer, jobVars, diskVars, stale, shared, reached>>

\* Mutant: the table is not loaded.
StartEmpty(p) == Loads(p, {}) /\ blind' = blind \ {p}

\* initialize: a missing file is an empty table; so is a file that does not
\* parse or cannot be read, after a copy of it was made, if that can be.
Start(p) ==
    \/ Loads(p, Stored) /\ blind' = blind \ {p}
    \/ "io" \in Faults /\ Loads(p, {}) /\ blind' = blind \cup {p}

\* Mutant: no new timer while a save is in progress.
ChangeUntimed(p) ==
    /\ pc[p] = "up" /\ made < MaxChanges
    /\ made' = made + 1
    /\ table' = [table EXCEPT ![p] = @ \cup {made'}]
    /\ timer' = [timer EXCEPT ![p] = JobsOf(p) = {}]
    /\ UNCHANGED <<pc, jobVars, diskVars, histories>>

\* Every change of the table ends in saveToFile, which restarts the timer.
Change(p) ==
    /\ pc[p] = "up" /\ made < MaxChanges
    /\ made' = made + 1
    /\ table' = [table EXCEPT ![p] = @ \cup {made'}]
    /\ timer' = [timer EXCEPT ![p] = TRUE]
    /\ UNCHANGED <<pc, jobVars, diskVars, histories>>

\* The timer goes off whether or not an earlier save is done; pendingSave now
\* stands for the new one.
TimerFires(p) ==
    /\ pc[p] \in {"up", "destroying"} /\ timer[p]
    /\ p \notin Commands
    /\ timer' = [timer EXCEPT ![p] = FALSE]
    /\ \E j \in Jobs :
         /\ job[j].at = "idle"
         /\ job' = [job EXCEPT ![j] = [at |-> "snapshot", proc |-> p, data |-> {}, inode |-> None]]
         /\ pending' = [pending EXCEPT ![p] = j]
    /\ UNCHANGED <<pc, table, made, diskVars, histories>>

-----------------------------------------------------------------------------
\* doSave, one file operation at a time.

\* The directory is there: the table is turned into text.
TakeSnapshot(j) ==
    /\ job[j].at = "snapshot"
    /\ job' = [job EXCEPT ![j].at = "open", ![j].data = table[job[j].proc]]
    /\ stale' = IF job[j].proc \in blind THEN stale \cup {j} ELSE stale \ {j}
    /\ UNCHANGED <<pc, table, made, timer, pending, diskVars, blind, shared, reached>>

Unused == Inodes \ ({tmp, file} \cup {job[j].inode : j \in Jobs})
Writing(j) == job[j].at \in {"write", "rename"}

\* writeFile opens the temporary file, which empties it when it exists.
Opens(j, next) ==
    /\ job[j].at = "open"
    /\ \E i \in IF tmp = None THEN Unused ELSE {tmp} :
         /\ \A u \in Unused : tmp = None => i <= u
         /\ tmp' = i
         /\ content' = [content EXCEPT ![i] = Partial]
         /\ job' = [job EXCEPT ![j].at = next, ![j].inode = i]
         /\ shared' = IF \E k \in Jobs : Writing(k) THEN shared \cup {i} ELSE shared \ {i}
    /\ UNCHANGED <<pc, table, made, timer, pending, file, blind, stale, reached>>

\* Mutant: the rename does not wait for the text.
OpenUnawaited(j) == Opens(j, "rename")

OpenTemp(j) == Opens(j, "write")

\* The text is written from the start of the file.  Over the text of another
\* save it leaves the tail of a longer one.
WriteTemp(j) ==
    /\ job[j].at = "write"
    /\ LET i == job[j].inode IN
         \/ content' = [content EXCEPT ![i] = Whole(job[j].data)]
         \/ /\ content[i].whole /\ content[i].data # job[j].data
            /\ content' = [content EXCEPT ![i] = Partial]
    /\ job' = [job EXCEPT ![j].at = "rename"]
    /\ UNCHANGED <<pc, table, made, timer, pending, tmp, file, histories>>

Settle(j) ==
    /\ job' = [job EXCEPT ![j] = Idle]
    /\ pending' = [p \in Procs |-> IF pending[p] = j THEN None ELSE pending[p]]

RenameTemp(j) ==
    /\ job[j].at = "rename" /\ tmp # None
    /\ file' = tmp /\ tmp' = None
    /\ Settle(j)
    /\ blind' = Procs \ {job[j].proc} /\ stale' = Jobs \ {j}
    /\ UNCHANGED <<pc, table, made, timer, content, shared>>
    /\ reached' = reached \cup Stored'

\* An operation fails; the rename also when the file is no longer there.
SaveFails(j) ==
    /\ \/ "io" \in Faults /\ job[j].at \in {"open", "write", "rename"}
       \/ job[j].at = "rename" /\ tmp = None
    /\ job' = [job EXCEPT ![j].at = "unlink"]
    /\ UNCHANGED <<pc, table, made, timer, pending, diskVars, histories>>

\* The process is gone: with its memory, its timer and its saves.
Gone(p) ==
    /\ pc' = [pc EXCEPT ![p] = "off"]
    /\ table' = [table EXCEPT ![p] = {}]
    /\ timer' = [timer EXCEPT ![p] = FALSE]
    /\ pending' = [pending EXCEPT ![p] = None]
    /\ job' = [j \in Jobs |-> IF j \in JobsOf(p) THEN Idle ELSE job[j]]

\* Nobody but destroy looks at pendingSave, and then only at the last one:
\* otherwise the rejection of a save ends the process.
Reject(j) ==
    LET p == job[j].proc IN
      IF pc[p] = "destroying" /\ pending[p] = j
      THEN Settle(j) /\ UNCHANGED <<pc, table, timer>>
      ELSE Gone(p)

\* The temporary file is removed before the save rejects.
UnlinkTemp(j) ==
    /\ job[j].at = "unlink"
    /\ tmp' = None
    /\ Reject(j)
    /\ UNCHANGED <<made, file, content, histories>>

\* The directory cannot be made: there is nothing to remove yet.
MkdirFails(j) ==
    /\ "io" \in Faults /\ job[j].at = "snapshot"
    /\ Reject(j)
    /\ UNCHANGED <<made, diskVars, histories>>

-----------------------------------------------------------------------------

\* destroy stops the timer before flushSave looks whether it is running, so all
\* that is left to do is to wait for pendingSave.
Destroy(p) ==
    /\ pc[p] = "up" /\ p \notin Commands
    /\ pc' = [pc EXCEPT ![p] = "destroying"]
    /\ timer' = [timer EXCEPT ![p] = FALSE]
    /\ UNCHANGED <<table, made, jobVars, diskVars, histories>>

Destroyed(p) ==
    /\ pc[p] = "destroying" /\ pending[p] = None
    /\ pc' = [pc EXCEPT ![p] = "destroyed"]
    /\ UNCHANGED <<table, made, timer, jobVars, diskVars, histories>>

\* A CLI command calls process.exit once its change was acknowledged; any other
\* process may die at any time.
Exit(p) ==
    /\ pc[p] # "off"
    /\ "crash" \in Faults \/ pc[p] = "destroyed" \/ (p \in Commands /\ timer[p])
    /\ Gone(p)
    /\ UNCHANGED <<made, diskVars, histories>>

-----------------------------------------------------------------------------
(* The commands of `ax session`.  None waits for the save of what it changed. *)

createSessionManager(p) == p \in Commands /\ Start(p)

createCommand(p) == p \in Commands /\ ~timer[p] /\ Change(p)

\* A session that is not in the table loaded from the file makes them fail.
completeCommand(p) == p \in Commands /\ ~timer[p] /\ table[p] # {} /\ Change(p)
failCommand(p) == p \in Commands /\ ~timer[p] /\ table[p] # {} /\ Change(p)

\* They show the table as it was loaded.
listCommand(p) ==
    /\ p \in Commands /\ pc[p] = "up" /\ ~timer[p]
    /\ Gone(p)
    /\ UNCHANGED <<made, diskVars, histories>>
statusCommand(p) == listCommand(p)

sessionCommand(p) ==
    \/ createCommand(p) \/ completeCommand(p) \/ failCommand(p)
    \/ listCommand(p) \/ statusCommand(p)

-----------------------------------------------------------------------------
DoSave(j) ==
    \/ TakeSnapshot(j) \/ OpenTemp(j) \/ WriteTemp(j) \/ RenameTemp(j)
    \/ (tmp = None /\ job[j].at = "rename" /\ SaveFails(j)) \/ UnlinkTemp(j)

Next ==
    \/ \E p \in Procs : TimerFires(p) \/ Destroy(p) \/ Destroyed(p) \/ Exit(p)
    \/ \E p \in Procs \ Commands : Start(p) \/ Change(p)
    \/ \E p \in Commands : createSessionManager(p) \/ sessionCommand(p)
    \/ \E j \in Jobs : DoSave(j) \/ SaveFails(j) \/ MkdirFails(j)

Spec == Init /\ [][Next]_vars

\* The event loop runs timers that are due and completes file operations, and
\* a command ends.
FairSpec ==
    /\ Spec
    /\ \A p \in Procs : WF_vars(TimerFires(p))
    /\ \A p \in Commands : WF_vars(listCommand(p) \/ statusCommand(p) \/ Exit(p))
    /\ \A j \in Jobs : WF_vars(DoSave(j))

-----------------------------------------------------------------------------
\* Properties.

\* sessions.json is never half written, whatever step of a save a process dies
\* or an operation fails in ("Atomic write: write to temp file then rename
\* (prevents corruption)", session-manager.ts:734), unless it was the temporary
\* file of two saves at once; a save that has it for itself makes it whole again.
FileIntact == file # None /\ file \notin shared => content[file].whole

\* What was saved stays saved, through crashes, failures and restarts: it is lost
\* only to two saves with one temporary file, or to a save from a table that could
\* not be read or that another save has overtaken since it was read or copied.
NoRollback == [][\/ Stored \subseteq Stored'
                 \/ file \in shared \/ file' \in shared'
                 \/ \E j \in stale : RenameTemp(j)]_vars

\* What is in a table reaches the file sooner or later if its process lives,
\* whatever other saves do, unless two saves had one temporary file.
EventuallySaved ==
    \A p \in Procs, c \in Changes :
        (pc[p] = "up" /\ c \in table[p]) ~> (pc[p] # "up" \/ c \in reached \/ file \in shared)
=============================================================================
