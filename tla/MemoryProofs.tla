----------------------------- MODULE MemoryProofs -----------------------------
(***************************************************************************)
(* The four properties of Memory, for any number of processes and callers  *)
(* and any limits, thresholds, strategies and files.                       *)
(*                                                                         *)
(* A step either leaves the table alone, removes entries, empties the      *)
(* table, inserts one entry, rewrites entries in place, or belongs to a    *)
(* restore.  Effects says which it is and Bystanding what it leaves of the *)
(* calls; the invariants are proved from these.                            *)
(***************************************************************************)
EXTENDS Memory, FiniteSetTheorems, TLAPS

-----------------------------------------------------------------------------
(* The invariant *)

\* Entries are rows of the table.
Row(e) ==
    /\ e = [content |-> e.content, meta |-> e.meta, uses |-> e.uses, acked |-> e.acked, raced |-> e.raced]
    /\ e.raced \in BOOLEAN

\* A table whose ids have been given out by a sequence that has come to n.
IsTable(t, n) ==
    /\ t = [i \in DOMAIN t |-> t[i]]
    /\ IsFiniteSet(DOMAIN t) /\ DOMAIN t \subseteq Nat
    /\ n \in Nat /\ \A i \in DOMAIN t : i <= n
    /\ \A i \in DOMAIN t : Row(t[i])

\* Updates that do not overlap are in the metadata they left.
Merged(t) == \A i \in DOMAIN t : t[i].acked \subseteq t[i].meta \/ t[i].raced

TablesSound == IsTable(table, lastId)
CopySound == copy # NoCopy => IsTable(copy.table, copy.lastId)
ManagersSound ==
    /\ open \in [Processes -> BOOLEAN] /\ foreign \in [Processes -> BOOLEAN]
    /\ count \in [Processes -> Int]
CallsSound ==
    /\ calls = [c \in Clients |-> calls[c]]
    /\ \A c \in Clients : /\ "op" \in DOMAIN calls[c] /\ calls[c].op \in Stages
                          /\ calls[c].op = "restoring" => copy # NoCopy
Sound == TablesSound /\ CopySound /\ ManagersSound /\ CallsSound

\* An update in progress has read all that was acknowledged before it, unless it has overlapped with
\* another one.
Updates(c, i) == calls[c].op = "updating" /\ calls[c].id = i
ReadsCurrent ==
    /\ \A c \in Clients, i \in Stored :
          Updates(c, i) => table[i].acked \subseteq calls[c].read \/ table[i].raced
    /\ \A c, d \in Clients, i \in Stored : c # d /\ Updates(c, i) /\ Updates(d, i) => table[i].raced
CopyMerged == copy # NoCopy => Merged(copy.table)

-----------------------------------------------------------------------------
(* What clean-ups remove *)

LEMMA VictimsStored ==
    ASSUME NEW p, NEW n, NEW gone \in Victims(p, n)
    PROVE  gone \subseteq Stored
BY DEF Victims, LeastAccessed, Hybrid, Oldest, FirstBy

-----------------------------------------------------------------------------
(* What a step of a call does *)

\* It changes its own call at most.
OwnCall(d) ==
    /\ calls' = [calls EXCEPT ![d] = calls'[d]]
    /\ "op" \in DOMAIN calls'[d] /\ calls'[d].op \in Stages
\* It begins no update and no restore.
BeginsNothing(d) ==
    /\ calls'[d].op = "updating" => calls'[d] = calls[d]
    /\ calls'[d].op = "restoring" => calls'[d] = calls[d]
Bystanding(d) == OwnCall(d) /\ BeginsNothing(d)

Quiet == UNCHANGED <<table, lastId, copy, open, count, foreign>>
Removes(p) ==
    /\ UNCHANGED <<lastId, copy, open>>
    /\ \E gone \in SUBSET Stored :
          /\ Change(p, gone, Nothing)
          /\ count' = [count EXCEPT ![p] = @ - Cardinality(gone)]
Empties(p) == UNCHANGED <<lastId, copy, open>> /\ Emptied(p)

LEMMA IdleCall == Idle.op = "idle" /\ "op" \in DOMAIN Idle /\ Idle.op \in Stages
BY DEF Idle, Stages

\* A call that is left as it is.
LEMMA CallStays ==
    ASSUME CallsSound, NEW d \in Clients, UNCHANGED calls
    PROVE  Bystanding(d)
BY DEF CallsSound, Bystanding, OwnCall, BeginsNothing

\* A call that returns.
LEMMA CallReturns ==
    ASSUME CallsSound, NEW d \in Clients, Returns(d)
    PROVE  Bystanding(d) /\ calls'[d] = Idle
BY IdleCall DEF CallsSound, Returns, Bystanding, OwnCall, BeginsNothing

\* A call that has begun.
LEMMA CallBegins ==
    ASSUME CallsSound, NEW d \in Clients, NEW call, "op" \in DOMAIN call,
           Begin(d, call), call.op \in Stages \ {"updating", "restoring"}
    PROVE  Bystanding(d) /\ ~Busy(d) /\ open[ProcessOf[d]]
BY DEF CallsSound, Begin, Bystanding, OwnCall, BeginsNothing

\* A call that goes on to the next entry.
LEMMA CallAdvances ==
    ASSUME CallsSound, NEW d \in Clients, Adding(d), Advance(d)
    PROVE  Bystanding(d)
<1>1. CASE Len(calls[d].todo) = 1
  BY <1>1, CallReturns DEF Advance, Returns
<1>2. CASE Len(calls[d].todo) # 1
  BY <1>2 DEF Advance, Adding, CallsSound, Bystanding, OwnCall, BeginsNothing
<1> QED BY <1>1, <1>2

-----------------------------------------------------------------------------
(* The kinds of steps *)

\* Steps that leave the table alone.
QuietStep(d) ==
    \/ \E content \in Contents : add(d, content)
    \/ CleanupFails(d) \/ InsertFails(d)
    \/ \E id \in Stored \intersect Followed : Lookup(d, id)
    \/ delete(d) \/ Declined(d) \/ WriteFails(d) \/ memory_clear(d) \/ RestoreFails(d)
    \/ exportToJSON(d)
    \/ \E skip \in BOOLEAN, clearing \in BOOLEAN : importFromJSON(d, skip, clearing)
    \/ ImportHashes(d) \/ ImportSkips(d) \/ ImportFails(d)
    \/ ImportCheck(d) /\ ~(file.kind = "ok" /\ calls[d].clear)

LEMMA QuietSteps ==
    ASSUME CallsSound, NEW d \in Clients, QuietStep(d)
    PROVE  Quiet /\ Bystanding(d)
<1>1. ASSUME NEW content \in Contents, add(d, content) PROVE Quiet /\ Bystanding(d)
  BY <1>1, CallBegins DEF add, Quiet, Stages
<1>2. CASE CleanupFails(d)
  BY <1>2 DEF CleanupFails, Adding, Quiet, CallsSound, Bystanding, OwnCall, BeginsNothing
<1>3. CASE InsertFails(d)
  BY <1>3, CallAdvances DEF InsertFails, Quiet
<1>4. ASSUME NEW id, Lookup(d, id) PROVE Quiet /\ Bystanding(d)
  BY <1>4, CallBegins DEF Lookup, Quiet, Stages
<1>5. CASE delete(d)
  <2>1. CASE calls[d].id \in Stored
    BY <1>5, <2>1 DEF delete, Quiet, CallsSound, Bystanding, OwnCall, BeginsNothing, Stages
  <2>2. CASE calls[d].id \notin Stored
    BY <1>5, <2>2, CallReturns DEF delete, Returns, Quiet
  <2> QED BY <2>1, <2>2
<1>6. CASE Declined(d) \/ WriteFails(d) \/ RestoreFails(d) \/ ImportFails(d)
  BY <1>6, CallReturns DEF Declined, WriteFails, RestoreFails, ImportFails, Quiet
<1>7. CASE memory_clear(d)
  BY <1>7, CallBegins DEF memory_clear, Quiet, Stages
<1>8. CASE exportToJSON(d)
  BY <1>8, CallStays DEF exportToJSON, Quiet
<1>9. ASSUME NEW skip, NEW clearing, importFromJSON(d, skip, clearing) PROVE Quiet /\ Bystanding(d)
  BY <1>9, CallBegins DEF importFromJSON, Quiet, Stages
<1>10. CASE ImportHashes(d)
  BY <1>10 DEF ImportHashes, Quiet, CallsSound, Bystanding, OwnCall, BeginsNothing, Stages
<1>11. CASE ImportSkips(d)
  BY <1>11, CallAdvances DEF ImportSkips, Quiet
<1>12. CASE ImportCheck(d) /\ ~(file.kind = "ok" /\ calls[d].clear)
  <2>1. Quiet
    BY <1>12 DEF ImportCheck, Quiet
  <2>2. Bystanding(d)
    BY <1>12, IdleCall DEF ImportCheck, CallsSound, Bystanding, OwnCall, BeginsNothing, Stages
  <2> QED BY <2>1, <2>2
<1> QED BY <1>1, <1>2, <1>3, <1>4, <1>5, <1>6, <1>7, <1>8, <1>9, <1>10, <1>11, <1>12 DEF QuietStep

\* Steps that remove entries.
LEMMA RemovingSteps ==
    ASSUME CallsSound, NEW d \in Clients,
           executeSmartCleanup(d) \/ DeleteWrite(d) \/ cleanup(d)
    PROVE  Removes(ProcessOf[d]) /\ open[ProcessOf[d]] /\ Bystanding(d) /\ calls[d].op # "reading"
<1>1. CASE executeSmartCleanup(d)
  <2>1. Removes(ProcessOf[d]) /\ open[ProcessOf[d]]
    <3>1. PICK gone \in Victims(ProcessOf[d], calculateCleanupCount(ProcessOf[d])) :
             /\ Change(ProcessOf[d], gone, Nothing)
             /\ count' = [count EXCEPT ![ProcessOf[d]] = @ - Cardinality(gone)]
      BY <1>1 DEF executeSmartCleanup
    <3>2. gone \in SUBSET Stored
      BY <3>1, VictimsStored
    <3> QED BY <1>1, <3>1, <3>2 DEF executeSmartCleanup, Removes
  <2>2. Bystanding(d) /\ calls[d].op # "reading"
    BY <1>1 DEF executeSmartCleanup, Adding, CallsSound, Bystanding, OwnCall, BeginsNothing
  <2> QED BY <2>1, <2>2
<1>2. CASE DeleteWrite(d)
  <2>1. Removes(ProcessOf[d]) /\ open[ProcessOf[d]]
    <3>1. (Stored \intersect {calls[d].id}) \in SUBSET Stored
      OBVIOUS
    <3> QED BY <1>2, <3>1 DEF DeleteWrite, Removes
  <2>2. Bystanding(d) /\ calls[d].op # "reading"
    BY <1>2, CallReturns DEF DeleteWrite
  <2> QED BY <2>1, <2>2
<1>3. CASE cleanup(d)
  <2>1. Removes(ProcessOf[d]) /\ open[ProcessOf[d]]
    <3>1. PICK n \in 1 .. Cardinality(Stored) :
             /\ Change(ProcessOf[d], Oldest(n), Nothing)
             /\ count' = [count EXCEPT ![ProcessOf[d]] = @ - Cardinality(Oldest(n))]
      BY <1>3 DEF cleanup
    <3>2. Oldest(n) \in SUBSET Stored
      BY DEF Oldest, FirstBy
    <3> QED BY <1>3, <3>1, <3>2 DEF cleanup, Removes
  <2>2. Bystanding(d) /\ calls[d].op # "reading"
    BY <1>3, CallStays DEF cleanup, Busy
  <2> QED BY <2>1, <2>2
<1> QED BY <1>1, <1>2, <1>3

\* Steps that empty the table.
LEMMA EmptyingSteps ==
    ASSUME CallsSound, NEW d \in Clients,
           clear(d) \/ (ImportCheck(d) /\ file.kind = "ok" /\ calls[d].clear)
    PROVE  /\ Empties(ProcessOf[d]) /\ open[ProcessOf[d]] /\ Bystanding(d)
           /\ calls[d].op = "reading" => file.kind = "ok"
<1>1. CASE clear(d)
  BY <1>1, CallReturns DEF clear, Empties
<1>2. CASE ImportCheck(d) /\ file.kind = "ok" /\ calls[d].clear
  <2>1. Empties(ProcessOf[d]) /\ open[ProcessOf[d]]
    BY <1>2 DEF ImportCheck, Empties
  <2>2. Bystanding(d)
    BY <1>2, IdleCall DEF ImportCheck, CallsSound, Bystanding, OwnCall, BeginsNothing, Stages
  <2> QED BY <1>2, <2>1, <2>2
<1> QED BY <1>1, <1>2

LEMMA InsertingStep ==
    ASSUME CallsSound, NEW d \in Clients, insertTxn(d)
    PROVE  Bystanding(d) /\ calls[d].op # "reading"
BY CallAdvances DEF insertTxn, InsertDue, Adding

\* Steps that write to entries where they are.
Writes ==
    /\ UNCHANGED <<lastId, copy, open, count, foreign>>
    /\ table' = [i \in Stored |-> table'[i]]
    /\ \A i \in Stored : Row(table[i]) => Row(table'[i])

\* What a step makes of the history of an entry.
LEMMA SearchWrites ==
    ASSUME CallsSound, NEW d \in Clients, search(d)
    PROVE  /\ Bystanding(d) /\ ~Busy(d) /\ Writes
           /\ \A i \in Stored : Row(table[i]) =>
                 /\ table'[i].acked = table[i].acked /\ table'[i].meta = table[i].meta
                 /\ table'[i].raced = table[i].raced
<1>1. PICK found \in SUBSET (Stored \intersect Followed) :
         table' = [i \in Stored |-> IF i \in found THEN [table[i] EXCEPT !.uses = @ + 1] ELSE table[i]]
  BY DEF search
<1>2. ASSUME NEW i \in Stored, Row(table[i])
      PROVE  /\ Row(table'[i])
             /\ table'[i].acked = table[i].acked /\ table'[i].meta = table[i].meta
             /\ table'[i].raced = table[i].raced
  <2>1. CASE i \in found
    BY <1>1, <1>2, <2>1 DEF Row
  <2>2. CASE i \notin found
    BY <1>1, <1>2, <2>2 DEF Row
  <2> QED BY <2>1, <2>2
<1>3. Writes
  BY <1>1, <1>2 DEF search, Writes
<1>4. Bystanding(d) /\ ~Busy(d)
  BY CallStays DEF search
<1> QED BY <1>2, <1>3, <1>4

LEMMA UpdateWrites ==
    ASSUME CallsSound, TablesSound, NEW d \in Clients, NEW id, update(d, id)
    PROVE  /\ Writes /\ id \in Stored /\ ~Busy(d)
           /\ calls' = [calls EXCEPT ![d] = calls'[d]] /\ "op" \in DOMAIN calls'[d]
           /\ calls'[d] = [op |-> "updating", id |-> id, read |-> table[id].meta]
           /\ \A i \in Stored :
                 /\ table'[i].acked = table[i].acked /\ table'[i].meta = table[i].meta
                 /\ table[i].raced => table'[i].raced
                 /\ i = id /\ Updated(id) => table'[i].raced
<1>1. ASSUME NEW i \in Stored
      PROVE  /\ Row(table'[i])
             /\ table'[i].acked = table[i].acked /\ table'[i].meta = table[i].meta
             /\ table[i].raced => table'[i].raced
             /\ i = id /\ Updated(id) => table'[i].raced
  <2>1. Row(table[i])
    BY DEF TablesSound, IsTable, Stored
  <2>2. CASE i = id
    <3> DEFINE raced == table[i].raced \/ Updated(id)
    <3>1. table'[i] = [table[i] EXCEPT !.raced = raced]
      BY <2>2 DEF update
    <3>2. raced \in BOOLEAN /\ (table[i].raced => raced) /\ (Updated(id) => raced)
      OBVIOUS
    <3> HIDE DEF raced
    <3>3. /\ table'[i].acked = table[i].acked /\ table'[i].meta = table[i].meta
          /\ table'[i].raced = raced /\ Row(table'[i])
      BY <2>1, <3>1, <3>2 DEF Row
    <3> QED BY <2>2, <3>2, <3>3
  <2>3. CASE i # id
    <3>1. table'[i] = table[i]
      BY <2>3 DEF update
    <3> QED BY <2>1, <2>3, <3>1 DEF Row
  <2> QED BY <2>2, <2>3
<1>2. table' = [i \in Stored |-> table'[i]]
  BY DEF update
<1>3. Writes
  BY <1>1, <1>2 DEF update, Writes
<1>4. id \in Stored /\ ~Busy(d)
  BY DEF update, Begin
<1>5. /\ calls' = [calls EXCEPT ![d] = calls'[d]] /\ "op" \in DOMAIN calls'[d]
      /\ calls'[d] = [op |-> "updating", id |-> id, read |-> table[id].meta]
  BY DEF update, Begin, CallsSound
<1> QED BY <1>1, <1>3, <1>4, <1>5

LEMMA UpdateWriteWrites ==
    ASSUME CallsSound, NEW d \in Clients, UpdateWrite(d)
    PROVE  /\ Bystanding(d) /\ calls'[d] = Idle /\ calls[d].op = "updating" /\ Writes
           /\ \A i \in Stored : Row(table[i]) =>
                 /\ table'[i].raced = table[i].raced
                 /\ i # calls[d].id => table'[i] = table[i]
                 /\ i = calls[d].id => /\ table'[i].meta = calls[d].read \union {d}
                                       /\ table'[i].acked = table[i].acked \union {d}
<1>1. ASSUME NEW i \in Stored, Row(table[i])
      PROVE  /\ Row(table'[i]) /\ table'[i].raced = table[i].raced
             /\ i # calls[d].id => table'[i] = table[i]
             /\ i = calls[d].id => /\ table'[i].meta = calls[d].read \union {d}
                                   /\ table'[i].acked = table[i].acked \union {d}
  <2>1. CASE i = calls[d].id
    <3>1. table'[i] = [table[i] EXCEPT !.meta = calls[d].read \union {d}, !.acked = @ \union {d}]
      BY <2>1 DEF UpdateWrite
    <3> QED BY <1>1, <2>1, <3>1 DEF Row
  <2>2. CASE i # calls[d].id
    <3>1. table'[i] = table[i]
      BY <2>2 DEF UpdateWrite
    <3> QED BY <1>1, <2>2, <3>1
  <2> QED BY <2>1, <2>2
<1>2. table' = [i \in Stored |-> table'[i]]
  BY DEF UpdateWrite
<1>3. Writes
  BY <1>1, <1>2 DEF UpdateWrite, Writes
<1>4. Bystanding(d) /\ calls'[d] = Idle /\ calls[d].op = "updating"
  BY CallReturns DEF UpdateWrite
<1> QED BY <1>1, <1>3, <1>4

\* The steps of clients and processes, by kind.
LEMMA Effects ==
    ASSUME Next
    PROVE  \/ \E p \in Processes : Open(p) \/ Exit(p)
           \/ \E d \in Clients :
                 \/ QuietStep(d)
                 \/ executeSmartCleanup(d) \/ DeleteWrite(d) \/ cleanup(d)
                 \/ clear(d) \/ (ImportCheck(d) /\ file.kind = "ok" /\ calls[d].clear)
                 \/ insertTxn(d) \/ search(d) \/ UpdateWrite(d)
                 \/ \E id \in Stored : update(d, id)
                 \/ backup(d) \/ restore(d) \/ RestoreDone(d)
<1>1. CASE \E c \in Clients : Continues(c)
  BY <1>1 DEF Continues, QuietStep
<1>2. CASE \E c \in ToolClients : Asks(c)
  <2>1. PICK c \in Clients : Asks(c)
    BY <1>2, ProcessesAssumption
  <2> QED BY <2>1 DEF Asks, memory_add, search_memory, memory_delete, memory_export, memory_import, QuietStep
<1>3. CASE \E c \in CommandClients : Commands(c)
  <2>1. PICK c \in Clients : Commands(c)
    BY <1>3, ProcessesAssumption
  <2> QED BY <2>1 DEF Commands, addCommand, searchCommand, deleteCommand, clearCommand,
                      exportCommand, importCommand, QuietStep
<1>4. CASE \E c \in LibraryClients : Library(c)
  <2>1. PICK c \in Clients : Library(c)
    BY <1>4, ProcessesAssumption
  <2> QED BY <2>1 DEF Library, QuietStep
<1> QED BY <1>1, <1>2, <1>3, <1>4 DEF Next

-----------------------------------------------------------------------------
(* Counting *)

LEMMA InitTables == Init => IsTable(table, lastId)
<1> SUFFICES ASSUME Init PROVE IsTable(table, lastId)
  OBVIOUS
<1>1. PICK n \in 0 .. MaxId, content \in Contents :
         table = [i \in 1 .. n |-> EntryOf(content)] /\ lastId = n
  BY DEF Init
<1>2. n \in Nat /\ IsFiniteSet(1 .. n)
  BY <1>1, FS_Interval, ContentsAssumption
<1>3. Row(EntryOf(content))
  BY DEF Row, EntryOf
<1> QED BY <1>1, <1>2, <1>3 DEF IsTable

\* Removing entries.
LEMMA RemovingCounts ==
    ASSUME TablesSound, ManagersSound, NEW p \in Processes, NEW gone \in SUBSET Stored, NEW q \in Processes,
           Change(p, gone, Nothing), count' = [count EXCEPT ![p] = @ - Cardinality(gone)],
           UNCHANGED lastId
    PROVE  /\ TablesSound' /\ Cardinality(gone) \in Nat
           /\ Stored' = Stored \ gone
           /\ Cardinality(Stored') = Cardinality(Stored) - Cardinality(gone)
           /\ q = p => foreign'[q] = foreign[q]
           /\ q # p /\ gone # {} => foreign'[q]
           /\ foreign[q] => foreign'[q]
<1>1. DOMAIN Nothing = {}
  BY DEF Nothing
<1>2. table' = [i \in Stored \ gone |-> table[i]]
  BY <1>1 DEF Change
<1>3. Stored' = Stored \ gone
  BY <1>2 DEF Stored
<1>4. IsFiniteSet(Stored) /\ IsFiniteSet(gone) /\ Cardinality(gone) \in Nat
  BY FS_Subset, FS_CardinalityType DEF TablesSound, IsTable, Stored
<1>5. IsFiniteSet(Stored') /\ Cardinality(Stored') = Cardinality(Stored) - Cardinality(gone)
  <2>1. Stored \cap gone = gone
    OBVIOUS
  <2> QED BY <1>3, <1>4, <2>1, FS_Difference, ZenonT(40)
<1>6. TablesSound'
  BY <1>2, <1>3, <1>5 DEF TablesSound, IsTable, Stored
<1>7. foreign'[q] = (foreign[q] \/ (q # p /\ gone # {}))
  BY <1>1 DEF Change
<1>8. foreign[q] \in BOOLEAN
  BY DEF ManagersSound
<1> QED BY <1>3, <1>4, <1>5, <1>6, <1>7, <1>8

\* Inserting an entry.
LEMMA InsertingCounts ==
    ASSUME TablesSound, ManagersSound, NEW d \in Clients, NEW q \in Processes, insertTxn(d)
    PROVE  LET p == ProcessOf[d]  gone == MakesRoom(p) IN
           /\ TablesSound' /\ gone \in SUBSET Stored /\ Cardinality(gone) \in Nat
           /\ Stored' = (Stored \ gone) \union {lastId'}
           /\ Cardinality(Stored') = Cardinality(Stored) - Cardinality(gone) + 1
           /\ q = p => foreign'[q] = foreign[q]
           /\ q # p => foreign'[q]
           /\ lastId' \notin Stored
           /\ table'[lastId'] = NewEntry(lastId', NextEntry(d))
           /\ \A i \in Stored \ gone : table'[i] = table[i]
<1> DEFINE p == ProcessOf[d]  gone == MakesRoom(p)
           added == [i \in {lastId + 1} |-> NewEntry(i, NextEntry(d))]
<1>1. gone \in SUBSET Stored
  BY DEF MakesRoom, Oldest, FirstBy
<1>2. Change(p, gone, added) /\ lastId' = lastId + 1
  BY DEF insertTxn
<1> HIDE DEF gone
<1>3. DOMAIN added = {lastId'} /\ added[lastId'] = NewEntry(lastId', NextEntry(d))
  BY <1>2
<1> HIDE DEF added
<1>4. lastId \in Nat /\ lastId' \in Nat /\ lastId' \notin Stored
  BY <1>2 DEF TablesSound, IsTable, Stored
<1>5. table' = [i \in (Stored \ gone) \union {lastId'} |-> IF i = lastId' THEN added[i] ELSE table[i]]
  BY <1>2, <1>3 DEF Change
<1>6. Stored' = (Stored \ gone) \union {lastId'}
  BY <1>5 DEF Stored
<1>7. /\ IsFiniteSet(Stored) /\ IsFiniteSet(gone) /\ Cardinality(gone) \in Nat
      /\ Cardinality(Stored) \in Nat
  BY <1>1, FS_Subset, FS_CardinalityType DEF TablesSound, IsTable, Stored
<1>8. IsFiniteSet(Stored \ gone) /\ Cardinality(Stored \ gone) = Cardinality(Stored) - Cardinality(gone)
  <2>1. Stored \cap gone = gone
    BY <1>1
  <2> QED BY <1>7, <2>1, FS_Difference
<1>9. IsFiniteSet(Stored') /\ Cardinality(Stored') = Cardinality(Stored) - Cardinality(gone) + 1
  BY <1>4, <1>6, <1>8, FS_AddElement
<1>10. \A i \in Stored \ gone : table'[i] = table[i]
  BY <1>4, <1>5
<1>11. table'[lastId'] = NewEntry(lastId', NextEntry(d))
  BY <1>3, <1>5
<1>12. TablesSound'
  <2>1. Row(table'[lastId'])
    <3> DEFINE raced == Updated(lastId')
    <3>1. raced \in BOOLEAN
      BY DEF Updated
    <3>2. table'[lastId'] = [EntryOf(NextEntry(d)) EXCEPT !.raced = raced]
      BY <1>11 DEF NewEntry
    <3> HIDE DEF raced
    <3> QED BY <3>1, <3>2 DEF Row, EntryOf
  <2>2. \A i \in Stored' : Row(table'[i])
    BY <1>6, <1>10, <2>1 DEF TablesSound, IsTable, Stored
  <2>3. \A i \in Stored' : i \in Nat /\ i <= lastId'
    BY <1>2, <1>4, <1>6 DEF TablesSound, IsTable, Stored
  <2> QED BY <1>4, <1>5, <1>6, <1>9, <2>2, <2>3 DEF TablesSound, IsTable, Stored
<1>13. foreign'[q] = (foreign[q] \/ q # p) /\ foreign[q] \in BOOLEAN
  BY <1>2, <1>3 DEF Change, ManagersSound
<1> QED BY <1>1, <1>4, <1>6, <1>7, <1>9, <1>10, <1>11, <1>12, <1>13 DEF gone

-----------------------------------------------------------------------------
(* Restores *)

LEMMA RestoreWrites ==
    ASSUME CopySound, copy # NoCopy, NEW d \in Clients, RestoreDone(d)
    PROVE  /\ TablesSound' /\ Stored' = DOMAIN copy.table
           /\ \A i \in Stored' :
                 /\ table'[i].acked = copy.table[i].acked /\ table'[i].meta = copy.table[i].meta
                 /\ copy.table[i].raced => table'[i].raced
                 /\ Updated(i) => table'[i].raced
<1>1. table' = [i \in DOMAIN copy.table |-> [copy.table[i] EXCEPT !.raced = @ \/ Updated(i)]]
  BY DEF RestoreDone
<1>2. lastId' = copy.lastId /\ IsTable(copy.table, copy.lastId)
  BY DEF RestoreDone, CopySound
<1>3. Stored' = DOMAIN copy.table
  BY <1>1 DEF Stored
<1>4. ASSUME NEW i \in DOMAIN copy.table
      PROVE  /\ table'[i].acked = copy.table[i].acked /\ table'[i].meta = copy.table[i].meta
             /\ copy.table[i].raced => table'[i].raced
             /\ Updated(i) => table'[i].raced
             /\ Row(table'[i])
  <2> DEFINE raced == copy.table[i].raced \/ Updated(i)
  <2>1. table'[i] = [copy.table[i] EXCEPT !.raced = raced]
    BY <1>1
  <2>2. raced \in BOOLEAN /\ (copy.table[i].raced => raced) /\ (Updated(i) => raced)
    OBVIOUS
  <2>3. Row(copy.table[i])
    BY <1>2 DEF IsTable
  <2> HIDE DEF raced
  <2>4. /\ table'[i].acked = copy.table[i].acked /\ table'[i].meta = copy.table[i].meta
        /\ table'[i].raced = raced /\ Row(table'[i])
    BY <2>1, <2>2, <2>3 DEF Row
  <2> QED BY <2>2, <2>4
<1>5. table' = [i \in Stored' |-> table'[i]]
  BY <1>1, <1>3
<1>6. TablesSound'
  BY <1>2, <1>3, <1>4, <1>5 DEF TablesSound, IsTable, Stored
<1> QED BY <1>3, <1>4, <1>6

LEMMA CopyIsOne == \A t, n : [table |-> t, lastId |-> n] # NoCopy
<1> SUFFICES ASSUME NEW t, NEW n, [table |-> t, lastId |-> n] = NoCopy PROVE FALSE
  OBVIOUS
<1>1. "none" \in DOMAIN NoCopy
  BY DEF NoCopy
<1>2. "none" \notin DOMAIN [table |-> t, lastId |-> n]
  OBVIOUS
<1> QED BY <1>1, <1>2

-----------------------------------------------------------------------------
(* Soundness *)

LEMMA WritesSound == TablesSound /\ Writes => TablesSound'
BY DEF TablesSound, IsTable, Writes, Stored

\* A step that belongs to one call and begins nothing keeps the calls sound.
LEMMA BystandingSound ==
    ASSUME CallsSound, NEW d \in Clients, Bystanding(d), UNCHANGED copy
    PROVE  CallsSound'
BY DEF CallsSound, Bystanding, OwnCall, BeginsNothing

LEMMA InitSound == Init => Sound
<1> SUFFICES ASSUME Init PROVE Sound
  OBVIOUS
<1>1. TablesSound
  BY InitTables DEF TablesSound
<1>2. CopySound /\ ManagersSound
  BY DEF Init, CopySound, ManagersSound
<1>3. CallsSound
  BY IdleCall DEF Init, CallsSound
<1> QED BY <1>1, <1>2, <1>3 DEF Sound

LEMMA NextSound == Sound /\ [Next]_vars => Sound'
<1> SUFFICES ASSUME Sound, [Next]_vars PROVE Sound'
  OBVIOUS
<1> USE DEF Sound
<1>1. CASE UNCHANGED vars
  BY <1>1 DEF vars, TablesSound, CopySound, ManagersSound, CallsSound, Stored
<1>2. ASSUME NEW p \in Processes, Open(p) PROVE Sound'
  <2>1. Cardinality(Stored) \in Int
    BY FS_CardinalityType DEF TablesSound, IsTable, Stored
  <2>2. ManagersSound'
    BY <1>2, <2>1 DEF Open, ManagersSound
  <2> QED BY <1>2, <2>2 DEF Open, TablesSound, CopySound, CallsSound, Stored
<1>3. ASSUME NEW p \in Processes, Exit(p) PROVE Sound'
  <2>1. CallsSound'
    BY <1>3, IdleCall DEF Exit, CallsSound
  <2>2. ManagersSound'
    BY <1>3 DEF Exit, ManagersSound
  <2> QED BY <1>3, <2>1, <2>2 DEF Exit, TablesSound, CopySound, Stored
<1>4. ASSUME NEW d \in Clients, Quiet, Bystanding(d) PROVE Sound'
  <2>1. CallsSound'
    BY <1>4, BystandingSound DEF Quiet
  <2> QED BY <1>4, <2>1 DEF Quiet, TablesSound, CopySound, ManagersSound, Stored
<1>5. ASSUME NEW d \in Clients, Removes(ProcessOf[d]), Bystanding(d) PROVE Sound'
  <2> DEFINE p == ProcessOf[d]
  <2>1. p \in Processes
    BY ProcessesAssumption
  <2> HIDE DEF p
  <2>2. PICK gone \in SUBSET Stored :
           Change(p, gone, Nothing) /\ count' = [count EXCEPT ![p] = @ - Cardinality(gone)]
    BY <1>5 DEF Removes, p
  <2>3. UNCHANGED <<lastId, copy, open>>
    BY <1>5 DEF Removes
  <2>4. TablesSound' /\ Cardinality(gone) \in Nat
    BY <2>1, <2>2, <2>3, RemovingCounts
  <2>5. foreign' \in [Processes -> BOOLEAN]
    BY <2>2 DEF Change, ManagersSound
  <2>6. count' \in [Processes -> Int]
    BY <2>1, <2>2, <2>4 DEF ManagersSound
  <2>7. CallsSound'
    BY <1>5, <2>3, BystandingSound
  <2> QED BY <2>3, <2>4, <2>5, <2>6, <2>7 DEF CopySound, ManagersSound
<1>6. ASSUME NEW d \in Clients, Empties(ProcessOf[d]), Bystanding(d) PROVE Sound'
  <2>1. UNCHANGED <<lastId, copy, open>> /\ Emptied(ProcessOf[d])
    BY <1>6 DEF Empties
  <2>2. DOMAIN table' = {} /\ table' = [i \in {} |-> table'[i]]
    BY <2>1 DEF Emptied, Nothing
  <2>3. TablesSound'
    BY <2>1, <2>2, FS_EmptySet DEF TablesSound, IsTable
  <2>4. foreign' \in [Processes -> BOOLEAN]
    BY <2>1 DEF Emptied
  <2>5. count' \in [Processes -> Int]
    <3>1. count' = [count EXCEPT ![ProcessOf[d]] = 0] /\ count \in [Processes -> Int]
      BY <2>1 DEF Emptied, ManagersSound
    <3> QED BY <3>1, ProcessesAssumption
  <2>6. CallsSound'
    BY <1>6, <2>1, BystandingSound
  <2> QED BY <2>1, <2>3, <2>4, <2>5, <2>6 DEF CopySound, ManagersSound
<1>7. ASSUME NEW d \in Clients, insertTxn(d) PROVE Sound'
  <2> DEFINE p == ProcessOf[d]
  <2>1. p \in Processes
    BY ProcessesAssumption
  <2>2. TablesSound' /\ Cardinality(MakesRoom(p)) \in Nat
    BY <1>7, <2>1, InsertingCounts
  <2>3. CallsSound'
    BY <1>7, InsertingStep, BystandingSound DEF insertTxn
  <2>4. count' \in [Processes -> Int]
    BY <1>7, <2>1, <2>2 DEF insertTxn, ManagersSound
  <2>5. foreign' \in [Processes -> BOOLEAN]
    BY <1>7 DEF insertTxn, Change, ManagersSound
  <2> QED BY <1>7, <2>2, <2>3, <2>4, <2>5 DEF insertTxn, CopySound, ManagersSound
<1>8. ASSUME NEW d \in Clients, search(d) \/ UpdateWrite(d) PROVE Sound'
  <2>1. Writes /\ Bystanding(d)
    BY <1>8, SearchWrites, UpdateWriteWrites
  <2>2. CallsSound'
    BY <2>1, BystandingSound DEF Writes
  <2> QED BY <2>1, <2>2, WritesSound DEF Writes, CopySound, ManagersSound
<1>9. ASSUME NEW d \in Clients, NEW id \in Stored, update(d, id) PROVE Sound'
  <2>1. Writes /\ calls' = [calls EXCEPT ![d] = calls'[d]] /\ "op" \in DOMAIN calls'[d]
        /\ calls'[d] = [op |-> "updating", id |-> id, read |-> table[id].meta]
    BY <1>9, UpdateWrites
  <2>2. CallsSound'
    BY <2>1 DEF CallsSound, Writes, Stages
  <2> QED BY <2>1, <2>2, WritesSound DEF Writes, CopySound, ManagersSound
<1>10. ASSUME NEW d \in Clients, backup(d) PROVE Sound'
  <2>1. copy' = [table |-> table, lastId |-> lastId] /\ copy' # NoCopy
    BY <1>10, CopyIsOne DEF backup
  <2>2. CopySound'
    BY <2>1 DEF CopySound, TablesSound
  <2> QED BY <1>10, <2>1, <2>2 DEF backup, TablesSound, ManagersSound, CallsSound, Stored
<1>11. ASSUME NEW d \in Clients, restore(d) PROVE Sound'
  <2>1. CallsSound'
    BY <1>11 DEF restore, Begin, CallsSound, Stages
  <2>2. ManagersSound'
    <3>1. count' = [count EXCEPT ![ProcessOf[d]] = 0] /\ count \in [Processes -> Int]
      BY <1>11 DEF restore, ManagersSound
    <3>2. open' \in [Processes -> BOOLEAN] /\ foreign' \in [Processes -> BOOLEAN]
      BY <1>11 DEF restore, ManagersSound
    <3>3. count' \in [Processes -> Int]
      BY <3>1, ProcessesAssumption
    <3> QED BY <3>2, <3>3 DEF ManagersSound
  <2> QED BY <1>11, <2>1, <2>2 DEF restore, TablesSound, CopySound, Stored
<1>12. ASSUME NEW d \in Clients, RestoreDone(d) PROVE Sound'
  <2>1. copy # NoCopy
    BY <1>12 DEF RestoreDone, CallsSound
  <2>2. TablesSound'
    BY <1>12, <2>1, RestoreWrites
  <2>3. CallsSound'
    BY <1>12, CallReturns, BystandingSound DEF RestoreDone
  <2>4. Cardinality(DOMAIN copy.table) \in Int
    BY <2>1, FS_CardinalityType DEF CopySound, IsTable
  <2>5. ManagersSound'
    BY <1>12, <2>4 DEF RestoreDone, ManagersSound
  <2> QED BY <1>12, <2>2, <2>3, <2>5 DEF RestoreDone, CopySound
<1> QED
  BY <1>1, <1>2, <1>3, <1>4, <1>5, <1>6, <1>7, <1>8, <1>9, <1>10, <1>11, <1>12,
     Effects, QuietSteps, RemovingSteps, EmptyingSteps

-----------------------------------------------------------------------------
(* The count *)

\* CounterExact for one process.
Exact(p) == open[p] /\ ~foreign[p] => count[p] = Cardinality(Stored)

LEMMA NextExact ==
    ASSUME Sound, Next, NEW q \in Processes, Exact(q)
    PROVE  Exact(q)'
<1> USE DEF Sound
<1>1. ASSUME NEW p \in Processes, Open(p) PROVE Exact(q)'
  BY <1>1 DEF Open, Exact, ManagersSound, Stored
<1>2. ASSUME NEW p \in Processes, Exit(p) PROVE Exact(q)'
  BY <1>2 DEF Exit, Exact, ManagersSound, Stored
<1>3. ASSUME Quiet \/ Writes PROVE Exact(q)'
  BY <1>3 DEF Quiet, Writes, Exact, Stored
<1>4. ASSUME NEW d \in Clients, Removes(ProcessOf[d]), open[ProcessOf[d]] PROVE Exact(q)'
  <2> DEFINE p == ProcessOf[d]
  <2>1. p \in Processes
    BY ProcessesAssumption
  <2> HIDE DEF p
  <2>2. PICK gone \in SUBSET Stored :
           Change(p, gone, Nothing) /\ count' = [count EXCEPT ![p] = @ - Cardinality(gone)]
    BY <1>4 DEF Removes, p
  <2>3. UNCHANGED <<lastId, open>>
    BY <1>4 DEF Removes
  <2>4. /\ Cardinality(gone) \in Nat /\ Stored' = Stored \ gone
        /\ Cardinality(Stored') = Cardinality(Stored) - Cardinality(gone)
        /\ q = p => foreign'[q] = foreign[q]
        /\ q # p /\ gone # {} => foreign'[q]
        /\ foreign[q] => foreign'[q]
    BY <2>1, <2>2, <2>3, RemovingCounts
  <2>5. CASE q = p
    BY <2>1, <2>2, <2>3, <2>4, <2>5 DEF Exact, ManagersSound
  <2>6. CASE q # p /\ gone # {}
    BY <2>4, <2>6 DEF Exact
  <2>7. CASE q # p /\ gone = {}
    <3>1. count'[q] = count[q] /\ Stored' = Stored
      BY <2>1, <2>2, <2>4, <2>7 DEF ManagersSound
    <3> QED BY <2>3, <2>4, <3>1 DEF Exact
  <2> QED BY <2>5, <2>6, <2>7
<1>5. ASSUME NEW d \in Clients, Empties(ProcessOf[d]) PROVE Exact(q)'
  <2> DEFINE p == ProcessOf[d]
  <2>1. p \in Processes
    BY ProcessesAssumption
  <2>2. Emptied(p) /\ UNCHANGED open
    BY <1>5 DEF Empties
  <2>3. Stored' = {} /\ Cardinality(Stored') = 0
    BY <2>2, FS_EmptySet DEF Emptied, Nothing, Stored
  <2>4. CASE q = p
    <3>1. count'[q] = 0
      BY <2>1, <2>2, <2>4 DEF Emptied, ManagersSound
    <3> QED BY <2>3, <3>1 DEF Exact
  <2>5. CASE q # p
    <3>1. count'[q] = count[q]
      BY <2>1, <2>2, <2>5 DEF Emptied, ManagersSound
    <3>2. ~foreign'[q] => ~foreign[q] /\ Stored = {}
      BY <2>2, <2>5 DEF Emptied
    <3> QED BY <2>2, <2>3, <3>1, <3>2, FS_EmptySet DEF Exact
  <2> QED BY <2>4, <2>5
<1>6. ASSUME NEW d \in Clients, insertTxn(d) PROVE Exact(q)'
  <2> DEFINE p == ProcessOf[d]  gone == MakesRoom(p)
  <2>1. p \in Processes
    BY ProcessesAssumption
  <2>2. /\ Cardinality(gone) \in Nat
        /\ Cardinality(Stored') = Cardinality(Stored) - Cardinality(gone) + 1
        /\ q = p => foreign'[q] = foreign[q]
        /\ q # p => foreign'[q]
    BY <1>6, InsertingCounts
  <2>3. count' = [count EXCEPT ![p] = @ - Cardinality(gone) + 1] /\ UNCHANGED open
    BY <1>6 DEF insertTxn
  <2> HIDE DEF p, gone
  <2>4. CASE q = p
    <3>1. Cardinality(Stored) \in Int
      BY FS_CardinalityType DEF TablesSound, IsTable, Stored
    <3>2. count'[q] = count[q] - Cardinality(gone) + 1
      BY <2>1, <2>3, <2>4 DEF ManagersSound
    <3> QED BY <2>2, <2>3, <2>4, <3>1, <3>2 DEF Exact
  <2>5. CASE q # p
    BY <2>2, <2>5 DEF Exact
  <2> QED BY <2>4, <2>5
<1>7. ASSUME NEW d \in Clients, backup(d) PROVE Exact(q)'
  BY <1>7 DEF backup, Exact, Stored
<1>8. ASSUME NEW d \in Clients, restore(d) PROVE Exact(q)'
  BY <1>8, ProcessesAssumption DEF restore, Exact, ManagersSound, Stored
<1>9. ASSUME NEW d \in Clients, RestoreDone(d) PROVE Exact(q)'
  <2>1. Stored' = DOMAIN copy.table
    BY <1>9 DEF RestoreDone, Stored
  <2>2. CASE q = ProcessOf[d]
    <3>1. count'[q] = Cardinality(DOMAIN copy.table)
      BY <1>9, <2>2 DEF RestoreDone, ManagersSound
    <3> QED BY <2>1, <3>1 DEF Exact
  <2>3. CASE q # ProcessOf[d]
    <3>1. foreign'[q]
      BY <1>9, <2>3 DEF RestoreDone
    <3> QED BY <3>1 DEF Exact
  <2> QED BY <2>2, <2>3
<1> QED
  BY <1>1, <1>2, <1>3, <1>4, <1>5, <1>6, <1>7, <1>8, <1>9,
     Effects, QuietSteps, RemovingSteps, EmptyingSteps, SearchWrites, UpdateWrites, UpdateWriteWrites

LEMMA NextCounts == Sound /\ CounterExact /\ [Next]_vars => Sound' /\ CounterExact'
<1> SUFFICES ASSUME Sound, CounterExact, [Next]_vars PROVE CounterExact'
  BY NextSound
<1>1. CASE UNCHANGED vars
  BY <1>1 DEF vars, CounterExact, Stored
<1>2. CASE Next
  <2> SUFFICES ASSUME NEW q \in Processes PROVE Exact(q)'
    BY DEF CounterExact, Exact
  <2>1. Exact(q)
    BY DEF CounterExact, Exact
  <2> QED BY <1>2, <2>1, NextExact
<1> QED BY <1>1, <1>2

LEMMA InitExact == Init => CounterExact
BY DEF Init, CounterExact

\* For every number of processes and callers a manager's count is that of the entries, as long as no
\* other process has changed the table.
THEOREM CountsExact == Spec => []CounterExact
<1>1. Init => Sound /\ CounterExact
  BY InitSound, InitExact
<1>2. Sound /\ CounterExact /\ [Next]_vars => Sound' /\ CounterExact'
  BY NextCounts
<1> QED BY <1>1, <1>2, PTL DEF Spec

-----------------------------------------------------------------------------
(* Updates *)

UpdatesInv == UpdatesStay /\ ReadsCurrent /\ CopyMerged

\* An entry whose history is that of an entry there was.
Follows(i) ==
    /\ i \in Stored
    /\ table'[i].acked = table[i].acked /\ table'[i].meta = table[i].meta
    /\ table[i].raced => table'[i].raced
\* No update has begun.
NoneBegun == \A c \in Clients : calls'[c].op = "updating" => calls'[c] = calls[c]

LEMMA BystandingBegun ==
    ASSUME CallsSound, NEW d \in Clients, Bystanding(d)
    PROVE  NoneBegun
BY DEF CallsSound, Bystanding, OwnCall, BeginsNothing, NoneBegun

LEMMA FollowingKeeps ==
    ASSUME UpdatesStay, ReadsCurrent, NoneBegun, \A i \in Stored' : Follows(i)
    PROVE  UpdatesStay' /\ ReadsCurrent'
<1>1. UpdatesStay'
  BY DEF UpdatesStay, Follows
<1>2. ASSUME NEW c \in Clients, NEW i, Updates(c, i)' PROVE Updates(c, i) /\ calls'[c] = calls[c]
  BY <1>2 DEF NoneBegun, Updates
<1>3. ReadsCurrent'
  BY <1>2 DEF ReadsCurrent, Follows
<1> QED BY <1>1, <1>3

\* Removing or emptying leaves the rest as it was.
LEMMA RemovingFollows ==
    ASSUME NEW p, Removes(p) \/ Empties(p)
    PROVE  (\A i \in Stored' : Follows(i)) /\ UNCHANGED copy
<1>1. CASE Removes(p)
  <2>1. PICK gone \in SUBSET Stored : Change(p, gone, Nothing)
    BY <1>1 DEF Removes
  <2>2. table' = [i \in Stored \ gone |-> table[i]]
    BY <2>1 DEF Change, Nothing
  <2> QED BY <1>1, <2>2 DEF Removes, Follows, Stored
<1>2. CASE Empties(p)
  BY <1>2 DEF Empties, Emptied, Nothing, Stored
<1> QED BY <1>1, <1>2

LEMMA NextUpdates ==
    ASSUME Sound, UpdatesInv, Next
    PROVE  UpdatesInv'
<1> USE DEF Sound, UpdatesInv
<1>1. ASSUME NEW p \in Processes, Open(p) PROVE UpdatesInv'
  BY <1>1 DEF Open, UpdatesStay, ReadsCurrent, CopyMerged, Updates, Stored
<1>2. ASSUME NEW p \in Processes, Exit(p) PROVE UpdatesInv'
  <2>1. NoneBegun
    BY <1>2, IdleCall DEF Exit, NoneBegun
  <2>2. \A i \in Stored' : Follows(i)
    BY <1>2 DEF Exit, Follows, Stored
  <2> QED BY <1>2, <2>1, <2>2, FollowingKeeps DEF Exit, CopyMerged
<1>3. ASSUME NEW d \in Clients, Quiet, Bystanding(d) PROVE UpdatesInv'
  <2>1. \A i \in Stored' : Follows(i)
    BY <1>3 DEF Quiet, Follows, Stored
  <2> QED BY <1>3, <2>1, BystandingBegun, FollowingKeeps DEF Quiet, CopyMerged
<1>4. ASSUME NEW d \in Clients, Removes(ProcessOf[d]) \/ Empties(ProcessOf[d]), Bystanding(d)
      PROVE  UpdatesInv'
  BY <1>4, RemovingFollows, BystandingBegun, FollowingKeeps DEF CopyMerged
<1>5. ASSUME NEW d \in Clients, insertTxn(d) PROVE UpdatesInv'
  <2> DEFINE id == lastId'
  <2>1. /\ Stored' = (Stored \ MakesRoom(ProcessOf[d])) \union {id} /\ id \notin Stored
        /\ table'[id] = NewEntry(id, NextEntry(d))
        /\ \A i \in Stored \ MakesRoom(ProcessOf[d]) : table'[i] = table[i]
    <3>1. ProcessOf[d] \in Processes
      BY ProcessesAssumption
    <3> QED BY <1>5, <3>1, InsertingCounts
  <2>2. NoneBegun /\ UNCHANGED copy
    BY <1>5, InsertingStep, BystandingBegun DEF insertTxn
  <2>3. table'[id].acked = {} /\ (Updated(id) => table'[id].raced)
    <3> DEFINE raced == Updated(id)
    <3>1. table'[id] = [EntryOf(NextEntry(d)) EXCEPT !.raced = raced]
      BY <2>1 DEF NewEntry
    <3>2. Updated(id) => raced
      OBVIOUS
    <3> HIDE DEF raced
    <3>3. table'[id].acked = {} /\ table'[id].raced = raced
      BY <3>1 DEF EntryOf
    <3> QED BY <3>2, <3>3
  <2> HIDE DEF id
  <2>4. \A i \in Stored' \ {id} : i \in Stored /\ table'[i] = table[i]
    BY <2>1
  <2>5. UpdatesStay'
    BY <2>3, <2>4 DEF UpdatesStay
  <2>6. ASSUME NEW c \in Clients, NEW i \in Stored', Updates(c, i)'
        PROVE  /\ Updates(c, i) /\ calls'[c] = calls[c]
               /\ table'[i].acked \subseteq calls'[c].read \/ table'[i].raced
    <3>1. Updates(c, i) /\ calls'[c] = calls[c]
      BY <2>2, <2>6 DEF NoneBegun, Updates
    <3>2. CASE i = id
      BY <2>3, <3>1, <3>2 DEF Updates, Updated
    <3>3. CASE i # id
      BY <2>4, <3>1, <3>3 DEF ReadsCurrent
    <3> QED BY <3>1, <3>2, <3>3
  <2>7. ASSUME NEW c \in Clients, NEW e \in Clients, NEW i \in Stored', c # e, Updates(c, i)', Updates(e, i)'
        PROVE  table'[i].raced
    <3>1. Updates(c, i) /\ Updates(e, i)
      BY <2>6, <2>7
    <3>2. CASE i = id
      BY <2>3, <3>1, <3>2 DEF Updates, Updated
    <3>3. CASE i # id
      BY <2>4, <2>7, <3>1, <3>3 DEF ReadsCurrent
    <3> QED BY <3>2, <3>3
  <2>8. ReadsCurrent'
    BY <2>6, <2>7 DEF ReadsCurrent
  <2> QED BY <2>2, <2>5, <2>8 DEF CopyMerged
<1>6. ASSUME NEW d \in Clients, search(d) PROVE UpdatesInv'
  <2>1. /\ Bystanding(d) /\ Writes
        /\ \A i \in Stored : Row(table[i]) =>
              /\ table'[i].acked = table[i].acked /\ table'[i].meta = table[i].meta
              /\ table'[i].raced = table[i].raced
    BY <1>6, SearchWrites
  <2>2. Stored' = Stored /\ UNCHANGED copy
    BY <2>1 DEF Writes, Stored
  <2>3. \A i \in Stored' : Follows(i)
    BY <2>1, <2>2 DEF Follows, TablesSound, IsTable, Stored
  <2> QED BY <2>1, <2>2, <2>3, BystandingBegun, FollowingKeeps DEF CopyMerged
<1>7. ASSUME NEW d \in Clients, NEW id \in Stored, update(d, id) PROVE UpdatesInv'
  <2>1. /\ Writes /\ ~Busy(d) /\ calls' = [calls EXCEPT ![d] = calls'[d]]
        /\ calls'[d] = [op |-> "updating", id |-> id, read |-> table[id].meta]
        /\ \A i \in Stored :
              /\ table'[i].acked = table[i].acked /\ table'[i].meta = table[i].meta
              /\ table[i].raced => table'[i].raced
              /\ i = id /\ Updated(id) => table'[i].raced
    BY <1>7, UpdateWrites
  <2>2. Stored' = Stored /\ UNCHANGED copy
    BY <2>1 DEF Writes, Stored
  <2>3. UpdatesStay'
    BY <2>1, <2>2 DEF UpdatesStay
  <2>4. \A c \in Clients : c # d => calls'[c] = calls[c]
    BY <2>1 DEF CallsSound
  <2>5. ASSUME NEW c \in Clients, NEW i \in Stored, Updates(c, i)'
        PROVE  table'[i].acked \subseteq calls'[c].read \/ table'[i].raced
    <3>1. CASE c = d
      <4>1. i = id /\ calls'[c].read = table[id].meta
        BY <2>1, <2>5, <3>1 DEF Updates
      <4> QED BY <2>1, <4>1 DEF UpdatesStay
    <3>2. CASE c # d
      <4>1. Updates(c, i) /\ calls'[c] = calls[c]
        BY <2>4, <2>5, <3>2 DEF Updates
      <4> QED BY <2>1, <4>1 DEF ReadsCurrent
    <3> QED BY <3>1, <3>2
  <2>6. ASSUME NEW c \in Clients, NEW e \in Clients, NEW i \in Stored, c # e, Updates(c, i)', Updates(e, i)'
        PROVE  table'[i].raced
    <3>1. CASE c # d /\ e # d
      BY <2>1, <2>4, <2>6, <3>1 DEF ReadsCurrent, Updates
    <3>2. ASSUME NEW other \in Clients, other # d, Updates(other, i)', Updates(d, i)'
          PROVE  table'[i].raced
      <4>1. i = id
        BY <2>1, <3>2 DEF Updates
      <4>2. Updated(id)
        BY <2>4, <3>2, <4>1 DEF Updates, Updated
      <4> QED BY <2>1, <4>1, <4>2
    <3> QED BY <2>6, <3>1, <3>2
  <2>7. ReadsCurrent'
    BY <2>2, <2>5, <2>6 DEF ReadsCurrent
  <2> QED BY <2>2, <2>3, <2>7 DEF CopyMerged
<1>8. ASSUME NEW d \in Clients, UpdateWrite(d) PROVE UpdatesInv'
  <2> DEFINE id == calls[d].id
  <2>1. /\ Bystanding(d) /\ calls'[d] = Idle /\ calls[d].op = "updating" /\ Writes
        /\ \A i \in Stored : Row(table[i]) =>
              /\ table'[i].raced = table[i].raced
              /\ i # id => table'[i] = table[i]
              /\ i = id => /\ table'[i].meta = calls[d].read \union {d}
                           /\ table'[i].acked = table[i].acked \union {d}
    BY <1>8, UpdateWriteWrites
  <2>2. Stored' = Stored /\ UNCHANGED copy
    BY <2>1 DEF Writes, Stored
  <2>3. \A i \in Stored :
           /\ table'[i].raced = table[i].raced
           /\ i # id => table'[i] = table[i]
           /\ i = id => /\ table'[i].meta = calls[d].read \union {d}
                        /\ table'[i].acked = table[i].acked \union {d}
    BY <2>1 DEF TablesSound, IsTable, Stored
  <2>4. \A i \in Stored : i = id => Updates(d, i)
    BY <2>1 DEF Updates
  <2>5. UpdatesStay'
    <3>1. ASSUME NEW i \in Stored PROVE table'[i].acked \subseteq table'[i].meta \/ table'[i].raced
      <4>1. CASE i # id
        BY <2>3, <4>1 DEF UpdatesStay
      <4>2. CASE i = id
        <5>1. table[i].acked \subseteq calls[d].read \/ table[i].raced
          BY <2>4, <4>2 DEF ReadsCurrent
        <5> QED BY <2>3, <4>2, <5>1
      <4> QED BY <4>1, <4>2
    <3> QED BY <2>2, <3>1 DEF UpdatesStay
  <2>6. NoneBegun /\ ~Updates(d, id)'
    BY <2>1, BystandingBegun, IdleCall DEF Updates
  <2>7. ASSUME NEW c \in Clients, NEW i \in Stored, Updates(c, i)'
        PROVE  /\ c # d /\ Updates(c, i) /\ calls'[c] = calls[c]
               /\ table'[i].acked \subseteq calls'[c].read \/ table'[i].raced
    <3>1. c # d /\ Updates(c, i) /\ calls'[c] = calls[c]
      BY <2>1, <2>6, <2>7, IdleCall DEF NoneBegun, Updates
    <3>2. CASE i # id
      BY <2>3, <3>1, <3>2 DEF ReadsCurrent
    <3>3. CASE i = id
      BY <2>3, <2>4, <3>1, <3>3 DEF ReadsCurrent
    <3> QED BY <3>1, <3>2, <3>3
  <2>8. ReadsCurrent'
    BY <2>2, <2>3, <2>7 DEF ReadsCurrent
  <2> QED BY <2>2, <2>5, <2>8 DEF CopyMerged
<1>9. ASSUME NEW d \in Clients, backup(d) PROVE UpdatesInv'
  <2>1. copy' = [table |-> table, lastId |-> lastId] /\ UNCHANGED <<table, calls>>
    BY <1>9 DEF backup
  <2>2. CopyMerged'
    BY <2>1 DEF CopyMerged, Merged, UpdatesStay, Stored
  <2> QED BY <2>1, <2>2 DEF UpdatesStay, ReadsCurrent, Updates, Stored
<1>10. ASSUME NEW d \in Clients, restore(d) PROVE UpdatesInv'
  <2>1. NoneBegun
    BY <1>10 DEF restore, Begin, CallsSound, NoneBegun
  <2>2. \A i \in Stored' : Follows(i)
    BY <1>10 DEF restore, Follows, Stored
  <2> QED BY <1>10, <2>1, <2>2, FollowingKeeps DEF restore, CopyMerged
<1>11. ASSUME NEW d \in Clients, RestoreDone(d) PROVE UpdatesInv'
  <2>1. copy # NoCopy /\ UNCHANGED copy
    BY <1>11 DEF RestoreDone, CallsSound
  <2>2. /\ Stored' = DOMAIN copy.table
        /\ \A i \in Stored' :
              /\ table'[i].acked = copy.table[i].acked /\ table'[i].meta = copy.table[i].meta
              /\ copy.table[i].raced => table'[i].raced
              /\ Updated(i) => table'[i].raced
    BY <1>11, <2>1, RestoreWrites
  <2>3. UpdatesStay'
    BY <2>1, <2>2 DEF UpdatesStay, CopyMerged, Merged
  <2>4. NoneBegun
    BY <1>11, CallReturns, BystandingBegun DEF RestoreDone
  <2>5. ASSUME NEW c \in Clients, NEW i \in Stored', Updates(c, i)' PROVE table'[i].raced
    <3>1. Updated(i)
      BY <2>4, <2>5 DEF NoneBegun, Updates, Updated
    <3> QED BY <2>2, <3>1
  <2>6. ReadsCurrent'
    BY <2>5 DEF ReadsCurrent
  <2> QED BY <2>1, <2>3, <2>6 DEF CopyMerged
<1> QED
  BY <1>1, <1>2, <1>3, <1>4, <1>5, <1>6, <1>7, <1>8, <1>9, <1>10, <1>11,
     Effects, QuietSteps, RemovingSteps, EmptyingSteps

LEMMA InitUpdates == Init => UpdatesInv
<1> SUFFICES ASSUME Init PROVE UpdatesInv
  OBVIOUS
<1>1. PICK n \in 0 .. MaxId, content \in Contents : table = [i \in 1 .. n |-> EntryOf(content)]
  BY DEF Init
<1>2. UpdatesStay
  BY <1>1 DEF UpdatesStay, EntryOf, Stored
<1>3. \A c \in Clients, i \in Stored : ~Updates(c, i)
  BY IdleCall DEF Init, Updates
<1>4. CopyMerged
  BY DEF Init, CopyMerged
<1> QED BY <1>2, <1>3, <1>4 DEF UpdatesInv, ReadsCurrent

\* Whatever clean-ups, imports and restores come between, only updates that overlap lose each other's fields.
THEOREM UpdatesLast == Spec => []UpdatesStay
<1>1. Init => Sound /\ UpdatesInv
  BY InitSound, InitUpdates
<1>2. Sound /\ UpdatesInv /\ [Next]_vars => Sound' /\ UpdatesInv'
  <2> SUFFICES ASSUME Sound, UpdatesInv, [Next]_vars PROVE UpdatesInv'
    BY NextSound
  <2>1. CASE UNCHANGED vars
    BY <2>1 DEF vars, UpdatesInv, UpdatesStay, ReadsCurrent, CopyMerged, Updates, Stored
  <2> QED BY <2>1, NextUpdates
<1>3. UpdatesInv => UpdatesStay
  BY DEF UpdatesInv
<1> QED BY <1>1, <1>2, <1>3, PTL DEF Spec

-----------------------------------------------------------------------------
(* The limit *)

LEMMA OnlyInsertsAndRestores ==
    ASSUME Sound, Next, lastId' # lastId
    PROVE  \E d \in Clients : insertTxn(d) \/ RestoreDone(d)
<1>1. \A p \in Processes : ~(Open(p) \/ Exit(p))
  BY DEF Open, Exit
<1>2. PICK d \in Clients :
         \/ QuietStep(d)
         \/ executeSmartCleanup(d) \/ DeleteWrite(d) \/ cleanup(d)
         \/ clear(d) \/ (ImportCheck(d) /\ file.kind = "ok" /\ calls[d].clear)
         \/ insertTxn(d) \/ search(d) \/ UpdateWrite(d)
         \/ \E id \in Stored : update(d, id)
         \/ backup(d) \/ restore(d) \/ RestoreDone(d)
  BY <1>1, Effects
<1>3. ~QuietStep(d)
  BY QuietSteps DEF Sound, Quiet
<1>4. ~(executeSmartCleanup(d) \/ DeleteWrite(d) \/ cleanup(d) \/ clear(d) \/ ImportCheck(d))
  BY DEF executeSmartCleanup, DeleteWrite, cleanup, clear, ImportCheck
<1>5. ~(search(d) \/ UpdateWrite(d) \/ backup(d) \/ restore(d)) /\ (\A id \in Stored : ~update(d, id))
  BY DEF search, UpdateWrite, update, backup, restore
<1> QED BY <1>2, <1>3, <1>4, <1>5

LEMMA NextLimit ==
    ASSUME Sound, CounterExact, Next, NEW c \in Clients,
           Adding(c), lastId' # lastId, calls'[c] # calls[c], ~foreign[ProcessOf[c]]
    PROVE  Cardinality(Stored') <= Limit[ProcessOf[c]]
<1>1. PICK d \in Clients : insertTxn(d) \/ RestoreDone(d)
  BY OnlyInsertsAndRestores
<1>2. Bystanding(d)
  BY <1>1, InsertingStep, CallReturns DEF Sound, RestoreDone
<1>3. c = d
  BY <1>2 DEF Sound, CallsSound, Bystanding, OwnCall
<1>4. insertTxn(c)
  BY <1>1, <1>3 DEF RestoreDone, Adding
<1> DEFINE p == ProcessOf[c]  gone == MakesRoom(p)
<1>5. p \in Processes
  BY ProcessesAssumption
<1>6. /\ Cardinality(gone) \in Nat
      /\ Cardinality(Stored') = Cardinality(Stored) - Cardinality(gone) + 1
  BY <1>4, <1>5, InsertingCounts DEF Sound
<1>7. open[p] /\ count[p] - Cardinality(gone) < Limit[p]
  BY <1>4 DEF insertTxn
<1>8. count[p] = Cardinality(Stored)
  BY <1>5, <1>7 DEF CounterExact
<1>9. Limit[p] \in Nat /\ count[p] \in Int
  BY <1>5, LimitsAssumption DEF Sound, ManagersSound
<1> HIDE DEF gone, p
<1>10. Cardinality(Stored') <= Limit[p]
  BY <1>6, <1>7, <1>8, <1>9
<1> QED BY <1>10 DEF p

\* A manager whose count is right never adds an entry beyond its limit.
THEOREM LimitsKept == Spec => LimitKept
<1>1. Init => Sound /\ CounterExact
  BY InitSound, InitExact
<1>2. Sound /\ CounterExact /\ [Next]_vars => Sound' /\ CounterExact'
  BY NextCounts
<1>3. Sound /\ CounterExact /\ [Next]_vars =>
        [\A c \in Clients :
            (Adding(c) /\ lastId' # lastId /\ calls'[c] # calls[c] /\ ~foreign[ProcessOf[c]])
                => Cardinality(Stored') <= Limit[ProcessOf[c]]]_vars
  BY NextLimit
<1> QED BY <1>1, <1>2, <1>3, PTL DEF Spec, LimitKept

-----------------------------------------------------------------------------
(* Refused imports *)

\* A step of a call leaves the table alone, is an insertion, a removal or an update that is under way,
\* or belongs to a call that is not reading; or the file is fine.
LEMMA NextSpares ==
    ASSUME Sound, Next, NEW c \in Clients,
           calls[c].op = "reading", calls'[c] = Idle, file.kind # "ok"
    PROVE  Stored' = Stored
<1>1. calls'[c] # calls[c]
  BY IdleCall
<1>2. ASSUME NEW p \in Processes, Open(p) \/ Exit(p) PROVE Stored' = Stored
  BY <1>2 DEF Open, Exit, Stored
<1>3. ASSUME NEW d \in Clients, Bystanding(d) PROVE d = c
  BY <1>1, <1>3 DEF Sound, CallsSound, Bystanding, OwnCall
<1>4. ASSUME NEW d \in Clients, QuietStep(d) \/ search(d) \/ UpdateWrite(d) PROVE Stored' = Stored
  BY <1>4, QuietSteps, SearchWrites, UpdateWriteWrites DEF Sound, Quiet, Writes, Stored
<1>5. ASSUME NEW d \in Clients, NEW id \in Stored, update(d, id) PROVE Stored' = Stored
  BY <1>5 DEF update, Stored
<1>6. ASSUME NEW d \in Clients, backup(d) \/ restore(d) PROVE Stored' = Stored
  BY <1>6 DEF backup, restore, Stored
<1>7. ASSUME NEW d \in Clients,
             \/ executeSmartCleanup(d) \/ DeleteWrite(d) \/ cleanup(d) \/ insertTxn(d)
             \/ clear(d) \/ (ImportCheck(d) /\ file.kind = "ok" /\ calls[d].clear)
      PROVE  FALSE
  BY <1>3, <1>7, RemovingSteps, InsertingStep, EmptyingSteps DEF Sound
<1>8. ASSUME NEW d \in Clients, RestoreDone(d) PROVE FALSE
  <2>1. Bystanding(d) /\ calls[d].op = "restoring"
    BY <1>8, CallReturns DEF Sound, RestoreDone
  <2> QED BY <1>3, <2>1
<1> QED BY <1>2, <1>4, <1>5, <1>6, <1>7, <1>8, Effects

\* An import that is refused takes nothing away, whoever else is at work.
THEOREM RefusalSpares == Spec => RefusedImportSpares
<1>1. Init => Sound
  BY InitSound
<1>2. Sound /\ [Next]_vars => Sound'
  BY NextSound
<1>3. Sound /\ [Next]_vars =>
        [\A c \in Clients :
            (calls[c].op = "reading" /\ calls'[c] = Idle /\ file.kind # "ok") => Stored' = Stored]_vars
  BY NextSpares
<1> QED BY <1>1, <1>2, <1>3, PTL DEF Spec, RefusedImportSpares

-----------------------------------------------------------------------------
(* Types *)

\* The types hold, and no entry has an id that was not given out, through every restore.
THEOREM TypeCorrect == Spec => []TypeOK
<1>1. Init => Sound
  BY InitSound
<1>2. Sound /\ [Next]_vars => Sound'
  BY NextSound
<1>3. Sound => TypeOK
  BY DEF Sound, TypeOK, TablesSound, IsTable, ManagersSound, CallsSound, Stored
<1> QED BY <1>1, <1>2, <1>3, PTL DEF Spec
=============================================================================
