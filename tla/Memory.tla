------------------------------- MODULE Memory -------------------------------
(***************************************************************************)
(* The memory of agents (src/core/memory-manager.ts): one SQLite table,    *)
(* opened by several processes (an MCP server, `ax run`, `ax memory`),     *)
(* each with a MemoryManager of its own that counts the entries once, when *)
(* it opens the table, and from then on keeps the count by its own changes *)
(* only.  The calls of a process overlap at the awaits inside a method.    *)
(*                                                                         *)
(* An entry keeps its content, the fields its metadata has been given by   *)
(* updates and the number of searches that found it.  Ids are given out in *)
(* increasing order, as are the creation times.                            *)
(***************************************************************************)
EXTENDS Integers, Sequences, FiniteSets

CONSTANTS
    Processes,      \* operating-system processes with a manager
    Clients,        \* callers of the managers' methods; each makes one call at a time
    ToolClients, CommandClients, LibraryClients,    \* what a client may be
    ProcessOf,      \* the process a client belongs to
    Limit,          \* maxEntries of a process
    Headroom,       \* what an add at the limit removes: min(100, floor(maxEntries / 10))
    Cleaning,       \* the processes with cleanup.enabled
    Tracking,       \* the processes with trackAccess
    TriggerAt,      \* the count from which usage >= triggerThreshold
    TargetAt,       \* floor(maxEntries * targetThreshold)
    MinCleanup, MaxCleanup,
    Strategy,       \* the strategy each process is configured with
    Contents,       \* contents of entries
    HashOf,         \* what hashContent makes of a content
    Broken,         \* an entry of a file that lacks its content or metadata
    Files,          \* what the file of an import may hold at first
    Followed,       \* bound: the ids that searches, updates and deletions are about
    MaxId,          \* bound: ids given out
    MaxCalls,       \* bound: calls begun
    MaxUses         \* bound: searches that find an entry

ASSUME ProcessesAssumption == /\ IsFiniteSet(Processes) /\ IsFiniteSet(Clients)
                              /\ ProcessOf \in [Clients -> Processes]
                              /\ ToolClients \union CommandClients \union LibraryClients \subseteq Clients
\* The thresholds of a configuration that is accepted.
validateCleanupConfig ==
    /\ MinCleanup \in Nat \ {0} /\ MaxCleanup \in Nat /\ MinCleanup <= MaxCleanup
    /\ \A p \in Processes : TargetAt[p] < TriggerAt[p] /\ TriggerAt[p] <= Limit[p]
ASSUME LimitsAssumption == /\ Limit \in [Processes -> Nat \ {0}] /\ Headroom \in [Processes -> Nat]
                           /\ TriggerAt \in [Processes -> Nat] /\ TargetAt \in [Processes -> Nat]
                           /\ validateCleanupConfig
ASSUME ContentsAssumption == /\ HashOf \in [Contents -> Nat]
                             /\ Broken \notin Contents
                             /\ \A f \in Files : f.entries \in Seq(Contents \union {Broken})
                             /\ MaxId \in Nat /\ MaxCalls \in Nat /\ MaxUses \in Nat

VARIABLES
    table,      \* memory_entries: a function from ids to entries
    lastId,     \* the AUTOINCREMENT sequence
    copy,       \* a backup: the table and the sequence at that time, or NoCopy
    file,       \* the JSON file of exports and imports
    open,       \* open[p]: the manager of p is initialized
    count,      \* count[p]: entryCount
    calls,      \* calls[c]: the call client c has in progress
    foreign,    \* history: foreign[p], another process has changed the table since p counted
    begun       \* history: the number of calls begun

vars == <<table, lastId, copy, file, open, count, calls, foreign, begun>>

Idle == [op |-> "idle"]
NoCopy == [none |-> TRUE]
Stored == DOMAIN table
EntryOf(content) == [content |-> content, meta |-> {}, uses |-> 0, acked |-> {}, raced |-> FALSE]
Busy(c) == calls[c].op # "idle"
Updated(id) == \E d \in Clients : calls[d].op = "updating" /\ calls[d].id = id
\* After a restore an id is given out again, which may still be that of an update in progress.
NewEntry(id, content) == [EntryOf(content) EXCEPT !.raced = Updated(id)]
Returns(c) == calls' = [calls EXCEPT ![c] = Idle]

\* The table loses the entries of gone and gets those of added, by a change process p makes;
\* the other processes do not hear of it.
Change(p, gone, added) ==
    /\ table' = [i \in (Stored \ gone) \union DOMAIN added |->
                    IF i \in DOMAIN added THEN added[i] ELSE table[i]]
    /\ foreign' = [q \in Processes |-> foreign[q] \/ (q # p /\ (gone \union DOMAIN added) # {})]
Nothing == [i \in {} |-> 0]

-----------------------------------------------------------------------------
(* Cleaning up *)

shouldTriggerCleanup(p) == p \in Cleaning /\ count[p] >= TriggerAt[p]

AtMost(a, b) == IF a < b THEN a ELSE b
AtLeast(a, b) == IF a < b THEN b ELSE a

calculateCleanupCount(p) ==
    IF count[p] <= TargetAt[p] THEN 0
    ELSE AtLeast(MinCleanup, AtMost(MaxCleanup, count[p] - TargetAt[p]))

\* The n entries that come first when entry i has the entries before[i] before it.
FirstBy(n, before) == {i \in Stored : Cardinality(before[i]) < n}
Oldest(n) == FirstBy(n, [i \in Stored |-> {j \in Stored : j < i}])
Hybrid(n) == FirstBy(n, [i \in Stored |-> {j \in Stored :
                            \/ table[j].uses < table[i].uses
                            \/ table[j].uses = table[i].uses /\ j < i}])
\* Entries of the same count are told apart by their last access, which is left open here.
LeastAccessed(n) == {gone \in SUBSET Stored :
    /\ Cardinality(gone) = AtMost(n, Cardinality(Stored))
    /\ \A i \in gone, j \in Stored \ gone : table[i].uses <= table[j].uses}

\* The sets of entries a clean-up of process p may choose, by its strategy.
Victims(p, n) ==
    IF Strategy[p] = "least_accessed" /\ p \in Tracking THEN LeastAccessed(n)
    ELSE IF Strategy[p] = "hybrid" THEN {Hybrid(n)}
    ELSE {Oldest(n)}

-----------------------------------------------------------------------------
(* Opening and closing *)

\* create: the statements are prepared and the entries counted.
Open(p) ==
    /\ ~open[p] /\ \A c \in Clients : ProcessOf[c] = p => ~Busy(c)
    /\ open' = [open EXCEPT ![p] = TRUE]
    /\ count' = [count EXCEPT ![p] = Cardinality(Stored)]
    /\ foreign' = [foreign EXCEPT ![p] = FALSE]
    /\ UNCHANGED <<table, lastId, copy, file, calls, begun>>

\* The process ends, by close() or killed in the middle of its calls; SQLite undoes an open transaction.
Exit(p) ==
    /\ open[p] \/ \E c \in Clients : ProcessOf[c] = p /\ Busy(c)
    /\ open' = [open EXCEPT ![p] = FALSE]
    /\ calls' = [c \in Clients |-> IF ProcessOf[c] = p THEN Idle ELSE calls[c]]
    /\ count' = [count EXCEPT ![p] = 0] /\ foreign' = [foreign EXCEPT ![p] = FALSE]
    /\ UNCHANGED <<table, lastId, copy, file, begun>>

\* One more call has begun (bound).
Counted == begun < MaxCalls /\ begun' = begun + 1

\* A call begins: every method refuses when the manager is not initialized.
Begin(c, call) ==
    /\ ~Busy(c) /\ Counted /\ open[ProcessOf[c]]
    /\ calls' = [calls EXCEPT ![c] = call]

-----------------------------------------------------------------------------
(* Adding.  An import adds the entries of its file one after the other the same way. *)

Adding(c) == calls[c].op = "adding"
NextEntry(c) == Head(calls[c].todo)
\* The call goes on with the rest of its entries, or returns after the last.
Advance(c) == calls' = [calls EXCEPT ![c] =
    IF Len(calls[c].todo) = 1 THEN Idle
    ELSE [calls[c] EXCEPT !.todo = Tail(calls[c].todo), !.cleaned = FALSE,
              !.known = @ \union (IF NextEntry(c) = Broken THEN {} ELSE {HashOf[NextEntry(c)]})]]

IsDuplicate(c) == calls[c].skip /\ NextEntry(c) # Broken /\ HashOf[NextEntry(c)] \in calls[c].known

add(c, content) ==
    /\ Begin(c, [op |-> "adding", todo |-> <<content>>, known |-> {}, skip |-> FALSE, cleaned |-> FALSE])
    /\ UNCHANGED <<table, lastId, copy, file, open, count, foreign>>

\* Usage has reached the trigger: entries are removed first, and the call awaits that.
executeSmartCleanup(c) ==
    LET p == ProcessOf[c] IN
    /\ Adding(c) /\ ~calls[c].cleaned /\ NextEntry(c) # Broken /\ ~IsDuplicate(c)
    /\ open[p] /\ shouldTriggerCleanup(p)
    /\ \E gone \in Victims(p, calculateCleanupCount(p)) :
          /\ Change(p, gone, Nothing)
          /\ count' = [count EXCEPT ![p] = @ - Cardinality(gone)]
    /\ calls' = [calls EXCEPT ![c].cleaned = TRUE]
    /\ UNCHANGED <<lastId, copy, file, open, begun>>

\* A clean-up that fails is logged, and the add goes on.
CleanupFails(c) ==
    /\ Adding(c) /\ ~calls[c].cleaned /\ NextEntry(c) # Broken /\ ~IsDuplicate(c)
    /\ open[ProcessOf[c]] /\ shouldTriggerCleanup(ProcessOf[c])
    /\ calls' = [calls EXCEPT ![c].cleaned = TRUE]
    /\ UNCHANGED <<table, lastId, copy, file, open, count, foreign, begun>>

\* What the transaction removes first when the count is at the limit.
MakesRoom(p) == IF count[p] >= Limit[p] THEN Oldest(Headroom[p]) ELSE {}
InsertDue(c) == /\ Adding(c) /\ NextEntry(c) # Broken /\ ~IsDuplicate(c)
                /\ calls[c].cleaned \/ ~shouldTriggerCleanup(ProcessOf[c])

\* Mutant: the limit is not looked at again after room was made.
insertTxnUnchecked(c) ==
    LET p == ProcessOf[c]  gone == MakesRoom(p) IN
    /\ InsertDue(c) /\ open[p] /\ lastId < MaxId
    /\ lastId' = lastId + 1
    /\ Change(p, gone, [i \in {lastId + 1} |-> NewEntry(i, NextEntry(c))])
    /\ count' = [count EXCEPT ![p] = @ - Cardinality(gone) + 1]
    /\ Advance(c)
    /\ UNCHANGED <<copy, file, open, begun>>

\* The transaction of add: room is made, the limit looked at again, the entry inserted; the count
\* follows when the transaction has succeeded.
insertTxn(c) ==
    LET p == ProcessOf[c]  gone == MakesRoom(p) IN
    /\ InsertDue(c) /\ open[p] /\ lastId < MaxId
    /\ count[p] - Cardinality(gone) < Limit[p]
    /\ lastId' = lastId + 1
    /\ Change(p, gone, [i \in {lastId + 1} |-> NewEntry(i, NextEntry(c))])
    /\ count' = [count EXCEPT ![p] = @ - Cardinality(gone) + 1]
    /\ Advance(c)
    /\ UNCHANGED <<copy, file, open, begun>>

\* The transaction throws (the limit, a locked database, statements a restore has taken away): it
\* is undone; an add rejects, an import counts the entry as failed.
InsertFails(c) ==
    /\ Adding(c)
    /\ NextEntry(c) = Broken \/ InsertDue(c)
    /\ Advance(c)
    /\ UNCHANGED <<table, lastId, copy, file, open, count, foreign, begun>>

-----------------------------------------------------------------------------
(* Searching, updating, deleting *)

\* A search raises the counts of what it finds, in one statement.
search(c) ==
    /\ ~Busy(c) /\ Counted /\ open[ProcessOf[c]] /\ ProcessOf[c] \in Tracking
    /\ \E found \in SUBSET (Stored \intersect Followed) :
          /\ found # {} /\ \A i \in found : table[i].uses < MaxUses
          /\ table' = [i \in Stored |-> IF i \in found THEN [table[i] EXCEPT !.uses = @ + 1] ELSE table[i]]
    /\ UNCHANGED <<lastId, copy, file, open, count, calls, foreign>>

\* update reads the entry ...
update(c, id) ==
    /\ id \in Stored
    /\ Begin(c, [op |-> "updating", id |-> id, read |-> table[id].meta])
    /\ table' = [i \in Stored |-> IF i = id THEN [table[i] EXCEPT !.raced = @ \/ Updated(id)] ELSE table[i]]
    /\ UNCHANGED <<lastId, copy, file, open, count, foreign>>

\* Mutant: the new fields are written without those that were there.
UpdateWriteWithoutMerge(c) ==
    LET id == calls[c].id IN
    /\ calls[c].op = "updating" /\ open[ProcessOf[c]]
    /\ table' = [i \in Stored |-> IF i = id THEN [table[i] EXCEPT !.meta = {c}, !.acked = @ \union {c}]
                                            ELSE table[i]]
    /\ Returns(c)
    /\ UNCHANGED <<lastId, copy, file, open, count, foreign, begun>>

\* ... and, an await later, writes its metadata back with the new fields; the statement touches no
\* row if the entry is gone, and the update succeeds all the same.
UpdateWrite(c) ==
    LET id == calls[c].id IN
    /\ calls[c].op = "updating" /\ open[ProcessOf[c]]
    /\ table' = [i \in Stored |-> IF i = id THEN [table[i] EXCEPT !.meta = calls[c].read \union {c},
                                                                  !.acked = @ \union {c}]
                                            ELSE table[i]]
    /\ Returns(c)
    /\ UNCHANGED <<lastId, copy, file, open, count, foreign, begun>>

\* A caller looks an entry up before it asks for its deletion.
Lookup(c, id) ==
    /\ id \in Stored
    /\ Begin(c, [op |-> "asking", id |-> id])
    /\ UNCHANGED <<table, lastId, copy, file, open, count, foreign>>

\* delete looks for the entry once more ...
delete(c) ==
    /\ calls[c].op = "asking" /\ open[ProcessOf[c]]
    /\ calls' = [calls EXCEPT ![c] = IF calls[c].id \in Stored THEN [@ EXCEPT !.op = "deleting"] ELSE Idle]
    /\ UNCHANGED <<table, lastId, copy, file, open, count, foreign, begun>>

\* Mutant: every deletion takes one off the count.
DeleteWriteAlwaysCounted(c) ==
    LET p == ProcessOf[c]  gone == Stored \intersect {calls[c].id} IN
    /\ calls[c].op = "deleting" /\ open[p]
    /\ Change(p, gone, Nothing)
    /\ count' = [count EXCEPT ![p] = @ - 1]
    /\ Returns(c)
    /\ UNCHANGED <<lastId, copy, file, open, begun>>

\* ... and, an await later, deletes it and takes off the count what was really deleted.
DeleteWrite(c) ==
    LET p == ProcessOf[c]  gone == Stored \intersect {calls[c].id} IN
    /\ calls[c].op = "deleting" /\ open[p]
    /\ Change(p, gone, Nothing)
    /\ count' = [count EXCEPT ![p] = @ - Cardinality(gone)]
    /\ Returns(c)
    /\ UNCHANGED <<lastId, copy, file, open, begun>>

\* A statement of an update or a deletion fails, or the database under it has been closed.
WriteFails(c) ==
    /\ calls[c].op \in {"updating", "asking", "deleting"}
    /\ Returns(c)
    /\ UNCHANGED <<table, lastId, copy, file, open, count, foreign, begun>>

\* Everything is deleted and the count set to zero, which makes it true again.
Emptied(p) ==
    /\ table' = Nothing
    /\ count' = [count EXCEPT ![p] = 0]
    /\ foreign' = [q \in Processes |-> q # p /\ (foreign[q] \/ Stored # {})]

\* A VACUUM that fails afterwards only makes the call reject.
clear(c) ==
    /\ calls[c].op = "clearing" /\ open[ProcessOf[c]]
    /\ Emptied(ProcessOf[c])
    /\ Returns(c)
    /\ UNCHANGED <<lastId, copy, file, open, begun>>

\* Entries created before a point in time are deleted.
cleanup(c) ==
    LET p == ProcessOf[c] IN
    /\ ~Busy(c) /\ Counted /\ open[p]
    /\ \E n \in 1 .. Cardinality(Stored) :
          /\ Change(p, Oldest(n), Nothing)
          /\ count' = [count EXCEPT ![p] = @ - Cardinality(Oldest(n))]
    /\ UNCHANGED <<lastId, copy, file, open, calls>>

-----------------------------------------------------------------------------
(* Backup and restore *)

\* The backup of SQLite yields one consistent state of the database.  Bound: one backup.
backup(c) ==
    /\ ~Busy(c) /\ Counted /\ open[ProcessOf[c]] /\ copy = NoCopy
    /\ copy' = [table |-> table, lastId |-> lastId]
    /\ UNCHANGED <<table, lastId, file, open, count, calls, foreign>>

\* The database is closed and the state forgotten before the copy is begun.
restore(c) ==
    LET p == ProcessOf[c] IN
    /\ copy # NoCopy
    /\ Begin(c, [op |-> "restoring"])
    /\ open' = [open EXCEPT ![p] = FALSE]
    /\ count' = [count EXCEPT ![p] = 0]
    /\ UNCHANGED <<table, lastId, copy, file, foreign>>

\* The copy is in place: the database is opened again and its entries are counted.
RestoreDone(c) ==
    LET p == ProcessOf[c] IN
    /\ calls[c].op = "restoring"
    /\ table' = [i \in DOMAIN copy.table |-> [copy.table[i] EXCEPT !.raced = @ \/ Updated(i)]]
    /\ lastId' = copy.lastId
    /\ open' = [open EXCEPT ![p] = TRUE]
    /\ count' = [count EXCEPT ![p] = Cardinality(DOMAIN copy.table)]
    /\ foreign' = [q \in Processes |-> q # p]
    /\ Returns(c)
    /\ UNCHANGED <<copy, file, begun>>

\* The copy fails: the manager stays uninitialized, and refuses every call from then on.
RestoreFails(c) ==
    /\ calls[c].op = "restoring"
    /\ Returns(c)
    /\ UNCHANGED <<table, lastId, copy, file, open, count, foreign, begun>>

-----------------------------------------------------------------------------
(* Export and import *)

\* The contents of the entries, in the order of their ids.
Listing == [n \in 1 .. Cardinality(Stored) |->
               table[CHOOSE i \in Stored : Cardinality({j \in Stored : j <= i}) = n].content]

exportToJSON(c) ==
    /\ ~Busy(c) /\ Counted /\ open[ProcessOf[c]]
    /\ file' = [kind |-> "ok", entries |-> Listing]
    /\ UNCHANGED <<table, lastId, copy, open, count, calls, foreign>>

\* An import begins to read its file; a file that is missing ends it.
importFromJSON(c, skip, clearing) ==
    /\ file.kind # "missing"
    /\ Begin(c, [op |-> "reading", skip |-> skip, clear |-> clearing])
    /\ UNCHANGED <<table, lastId, copy, file, open, count, foreign>>

\* Mutant: the table is cleared before the file has been looked at.
ImportCheckClearingFirst(c) ==
    /\ calls[c].op = "reading" /\ open[ProcessOf[c]]
    /\ calls' = [calls EXCEPT ![c] = IF file.kind = "ok" /\ file.entries # <<>>
                                     THEN [op |-> "hashing", skip |-> @.skip, entries |-> file.entries]
                                     ELSE Idle]
    /\ IF calls[c].clear THEN Emptied(ProcessOf[c]) ELSE UNCHANGED <<table, count, foreign>>
    /\ UNCHANGED <<lastId, copy, file, open, begun>>

\* The file has been read.  Another version or no entries end the import; else the table is
\* cleared if that was asked for.
ImportCheck(c) ==
    /\ calls[c].op = "reading" /\ open[ProcessOf[c]]
    /\ calls' = [calls EXCEPT ![c] = IF file.kind = "ok" /\ file.entries # <<>>
                                     THEN [op |-> "hashing", skip |-> @.skip, entries |-> file.entries]
                                     ELSE Idle]
    /\ IF file.kind = "ok" /\ calls[c].clear THEN Emptied(ProcessOf[c]) ELSE UNCHANGED <<table, count, foreign>>
    /\ UNCHANGED <<lastId, copy, file, open, begun>>

\* The hashes of the entries there are; then the entries of the file are added one by one.
ImportHashes(c) ==
    /\ calls[c].op = "hashing" /\ open[ProcessOf[c]]
    /\ calls' = [calls EXCEPT ![c] =
          [op |-> "adding", todo |-> @.entries, skip |-> @.skip, cleaned |-> FALSE,
           known |-> IF @.skip THEN {HashOf[table[i].content] : i \in Stored} ELSE {}]]
    /\ UNCHANGED <<table, lastId, copy, file, open, count, foreign, begun>>

\* An entry whose hash is known is skipped.
ImportSkips(c) ==
    /\ Adding(c) /\ ~calls[c].cleaned /\ IsDuplicate(c)
    /\ Advance(c)
    /\ UNCHANGED <<table, lastId, copy, file, open, count, foreign, begun>>

\* The file cannot be parsed, or a statement fails: the import rejects.
ImportFails(c) ==
    /\ calls[c].op \in {"reading", "hashing", "clearing"}
    /\ Returns(c)
    /\ UNCHANGED <<table, lastId, copy, file, open, count, foreign, begun>>

-----------------------------------------------------------------------------
(* Who calls: the tools of the MCP server and the commands of `ax memory`.  Commands run in a       *)
(* process of their own, which opens the table, makes one call and ends.                             *)

memory_add(c) == \E content \in Contents : add(c, content)
addCommand(c) == \E content \in Contents : add(c, content)
search_memory(c) == search(c)
searchCommand(c) == search(c)
memory_delete(c) == \E id \in Stored \intersect Followed : Lookup(c, id)
deleteCommand(c) == \E id \in Stored \intersect Followed : Lookup(c, id)
\* The command asks for a confirmation, and no ends it.
Declined(c) == /\ calls[c].op = "asking"
               /\ Returns(c)
               /\ UNCHANGED <<table, lastId, copy, file, open, count, foreign, begun>>
\* The tool counts the entries it is going to clear, and clears after that.
memory_clear(c) ==
    /\ Begin(c, [op |-> "clearing"])
    /\ UNCHANGED <<table, lastId, copy, file, open, count, foreign>>
\* The command counts too, and clears all entries or the old ones if that was confirmed.
clearCommand(c) == memory_clear(c) \/ cleanup(c)
memory_export(c) == exportToJSON(c)
exportCommand(c) == exportToJSON(c)
memory_import(c) == importFromJSON(c, TRUE, FALSE)
importCommand(c) == \E skip \in BOOLEAN : importFromJSON(c, skip, FALSE)

-----------------------------------------------------------------------------
Init ==
    /\ \E n \in 0 .. MaxId, content \in Contents :
          /\ table = [i \in 1 .. n |-> EntryOf(content)]
          /\ lastId = n
    /\ copy = NoCopy /\ file \in Files
    /\ open = [p \in Processes |-> FALSE] /\ count = [p \in Processes |-> 0]
    /\ calls = [c \in Clients |-> Idle]
    /\ foreign = [p \in Processes |-> FALSE] /\ begun = 0

\* What a client asks for: a server's by its tools, a command's by `ax memory`, and what only users
\* of the library call.
Asks(c) ==
    \/ memory_add(c) \/ search_memory(c) \/ memory_delete(c)
    \/ memory_clear(c) \/ memory_export(c) \/ memory_import(c)
Commands(c) ==
    \/ addCommand(c) \/ searchCommand(c) \/ deleteCommand(c)
    \/ clearCommand(c) \/ exportCommand(c) \/ importCommand(c)
Library(c) ==
    \/ \E id \in Stored \intersect Followed : update(c, id)
    \/ backup(c) \/ restore(c)
    \/ importFromJSON(c, TRUE, TRUE)

\* How a call goes on.
Continues(c) ==
    \/ executeSmartCleanup(c) \/ CleanupFails(c) \/ insertTxn(c) \/ InsertFails(c)
    \/ UpdateWrite(c) \/ delete(c) \/ Declined(c) \/ DeleteWrite(c) \/ WriteFails(c)
    \/ clear(c) \/ RestoreDone(c) \/ RestoreFails(c)
    \/ ImportCheck(c) \/ ImportHashes(c) \/ ImportSkips(c) \/ ImportFails(c)

Next ==
    \/ \E p \in Processes : Open(p) \/ Exit(p)
    \/ \E c \in Clients : Continues(c)
    \/ \E c \in ToolClients : Asks(c)
    \/ \E c \in CommandClients : Commands(c)
    \/ \E c \in LibraryClients : Library(c)

Spec == Init /\ [][Next]_vars

-----------------------------------------------------------------------------
(* Properties *)

\* What a call may be doing.
Stages == {"idle", "adding", "updating", "asking", "deleting", "clearing", "restoring", "reading", "hashing"}

\* The types of the variables; every id that is in use has been given out.
TypeOK ==
    /\ IsFiniteSet(Stored) /\ Stored \subseteq Nat
    /\ lastId \in Nat /\ \A i \in Stored : i <= lastId
    /\ open \in [Processes -> BOOLEAN] /\ foreign \in [Processes -> BOOLEAN]
    /\ count \in [Processes -> Int]
    /\ \A c \in Clients : calls[c].op \in Stages

\* entryCount is the number of entries, through clean-ups, overlapping deletions, imports, clears
\* and restores, for a manager whose table no other process has changed since it counted or
\* cleared it last.  (A server and an `ax memory` beside it: the server's count stays wrong.)
CounterExact == \A p \in Processes : open[p] /\ ~foreign[p] => count[p] = Cardinality(Stored)

\* Such a manager never leaves more entries than maxEntries behind when it adds one, whether a
\* clean-up made room, failed or was overtaken by other calls, and however full the table was
\* when it was opened.
LimitKept == [][\A c \in Clients :
    (Adding(c) /\ lastId' # lastId /\ calls'[c] # calls[c] /\ ~foreign[ProcessOf[c]])
        => Cardinality(Stored') <= Limit[ProcessOf[c]]]_vars

\* An update that was acknowledged stays in the metadata of its entry, unless updates of that id
\* have overlapped, or one has overlapped with a restore: then the last one writes back what it read.
UpdatesStay == \A i \in Stored : table[i].acked \subseteq table[i].meta \/ table[i].raced

\* An import that is refused, because its file is of another version, cannot be read or fails on
\* the way to being checked, leaves every entry in place, also when it was told to clear them.
RefusedImportSpares == [][\A c \in Clients :
    (calls[c].op = "reading" /\ calls'[c] = Idle /\ file.kind # "ok") => Stored' = Stored]_vars
=============================================================================
