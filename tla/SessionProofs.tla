----------------------------- MODULE SessionProofs -----------------------------
(***************************************************************************)
(* Proofs about the two halves of the session manager: how the table gets  *)
(* to disk (SessionStore), for any number of processes, changes and saves  *)
(* that overlap, and who is in the table (SessionTable), for any limit and *)
(* any number of createSession calls in progress at the same time.         *)
(***************************************************************************)
EXTENDS SessionStore, SessionTable, FiniteSetTheorems, TLAPS

-----------------------------------------------------------------------------
(* The store.                                                              *)

Ats == {"idle", "snapshot", "open", "write", "rename", "unlink"}
Holding(j) == job[j].at \in {"open", "write", "rename"}
Busy(j) == job[j].at # "idle"

StoreTypes ==
    /\ pc \in [Procs -> {"off", "up", "destroying", "destroyed"}]
    /\ table \in [Procs -> SUBSET Nat]
    /\ made \in Nat
    /\ pending \in [Procs -> Jobs \cup {None}]
    /\ job \in [Jobs -> [at : Ats, proc : Procs \cup {None}, data : SUBSET Nat, inode : Inodes \cup {None}]]
    /\ tmp \in Inodes \cup {None} /\ file \in Inodes \cup {None}
    /\ content \in [Inodes -> [whole : BOOLEAN, data : SUBSET Nat]]

\* A save is its process's as long as that lives, and holds nothing its table does not.
Owned ==
    \A j \in Jobs : Busy(j) =>
        /\ job[j].proc \in Procs /\ pc[job[j].proc] # "off"
        /\ Holding(j) => job[j].data \subseteq table[job[j].proc]

\* A temporary file that is not shared is one save's: empty until that is written, whole behind it.
TempOwned ==
    /\ tmp # None => tmp # file
    /\ tmp # None /\ tmp \notin shared =>
        /\ \A j, k \in Jobs : Writing(j) /\ Writing(k) => j = k
        /\ \A j \in Jobs : Writing(j) =>
              /\ job[j].inode = tmp
              /\ job[j].at = "write" => ~content[tmp].whole
              /\ job[j].at = "rename" => content[tmp] = Whole(job[j].data)

\* A file that was not shared is whole, and no save writes to it.
FileOwned ==
    file # None /\ file \notin shared =>
        /\ content[file].whole
        /\ \A j \in Jobs : job[j].at = "write" => job[j].inode # file

\* What is stored is in the tables and in the saves that are not overtaken.
StoredKnown ==
    file \notin shared =>
        /\ \A p \in Procs \ blind : pc[p] # "off" => Stored \subseteq table[p]
        /\ \A j \in Jobs \ stale : Holding(j) => Stored \subseteq job[j].data

StoreInv == StoreTypes /\ Owned /\ TempOwned /\ FileOwned /\ StoredKnown

StoreKept == file \in shared \/ Stored \subseteq Stored'

-----------------------------------------------------------------------------
LEMMA InitStore == Init => StoreInv
BY SessionStoreAssumption
DEF Init, StoreInv, StoreTypes, Owned, TempOwned, FileOwned, StoredKnown, Busy, Holding, Writing, Idle, None,
    Partial, Ats, Stored

\* Steps off the disk: a save that writes is as it was, or there is no temporary
\* file any more, and who holds what is stored goes on holding it.
LEMMA OffDisk ==
    ASSUME StoreInv, StoreTypes', Owned', UNCHANGED <<file, content, shared>>, tmp' \in {tmp, None},
           \A j \in Jobs : Writing(j)' => job'[j] = job[j],
           file \notin shared =>
               /\ \A j \in Jobs \ stale' : Holding(j)' => Stored \subseteq job'[j].data
               /\ \A p \in Procs \ blind' : pc'[p] # "off" => Stored \subseteq table'[p]
    PROVE  StoreInv' /\ StoreKept
<1>1. Stored' = Stored
  BY DEF Stored
<1>2. \A j \in Jobs : Writing(j)' => Writing(j)
  BY DEF Writing
<1>3. TempOwned'
  BY <1>2 DEF StoreInv, TempOwned, Writing
<1>4. FileOwned'
  BY <1>2 DEF StoreInv, FileOwned, Writing
<1>5. StoredKnown'
  BY <1>1 DEF StoredKnown
<1> QED BY <1>1, <1>3, <1>4, <1>5 DEF StoreInv, StoreKept

\* A process that is gone takes its table and its saves along.
LEMMA GoneKeeps ==
    ASSUME StoreInv, NEW p \in Procs, Gone(p), UNCHANGED <<made, file, content, histories>>, tmp' \in {tmp, None}
    PROVE  StoreInv' /\ StoreKept
<1>1. /\ pc' = [pc EXCEPT ![p] = "off"] /\ table' = [table EXCEPT ![p] = {}]
      /\ pending' = [pending EXCEPT ![p] = None]
      /\ job' = [j \in Jobs |-> IF Busy(j) /\ job[j].proc = p THEN Idle ELSE job[j]]
      /\ UNCHANGED <<blind, stale, shared>>
  BY DEF Gone, JobsOf, Busy, histories
<1>2. StoreTypes'
  BY <1>1 DEF StoreInv, StoreTypes, Idle, Ats, None
<1>3. \A j \in Jobs : job'[j].at # "idle" => job'[j] = job[j] /\ Busy(j) /\ job[j].proc # p
  BY <1>1 DEF Idle, Busy
<1>4. \A q \in Procs : pc'[q] # "off" => q # p /\ pc'[q] = pc[q] /\ table'[q] = table[q]
  BY <1>1 DEF StoreInv, StoreTypes
<1>5. Owned'
  <2> SUFFICES ASSUME NEW j \in Jobs, job'[j].at # "idle"
               PROVE  /\ job'[j].proc \in Procs /\ pc'[job'[j].proc] # "off"
                      /\ Holding(j)' => job'[j].data \subseteq table'[job'[j].proc]
    BY DEF Owned, Busy
  <2>1. job'[j] = job[j] /\ Busy(j) /\ job[j].proc # p
    BY <1>3
  <2>2. pc'[job[j].proc] = pc[job[j].proc] /\ table'[job[j].proc] = table[job[j].proc]
    BY <1>1, <2>1 DEF StoreInv, StoreTypes, Owned
  <2> QED BY <2>1, <2>2 DEF StoreInv, Owned, Holding
<1>6. \A j \in Jobs : Writing(j)' => job'[j] = job[j]
  BY <1>3 DEF Writing
<1>7. file \notin shared =>
        /\ \A j \in Jobs \ stale' : Holding(j)' => Stored \subseteq job'[j].data
        /\ \A q \in Procs \ blind' : pc'[q] # "off" => Stored \subseteq table'[q]
  BY <1>1, <1>3, <1>4 DEF StoreInv, StoredKnown, Holding
<1> QED BY <1>1, <1>2, <1>5, <1>6, <1>7, OffDisk

LEMMA SnapshotStep ==
    ASSUME StoreInv, NEW j \in Jobs, TakeSnapshot(j)
    PROVE  StoreInv' /\ StoreKept
<1>1. /\ job[j].at = "snapshot" /\ job' = [job EXCEPT ![j].at = "open", ![j].data = table[job[j].proc]]
      /\ stale' = IF job[j].proc \in blind THEN stale \cup {j} ELSE stale \ {j}
      /\ UNCHANGED <<pc, table, made, timer, pending, tmp, file, content, blind, shared>>
  BY DEF TakeSnapshot, diskVars
<1>2. Busy(j) /\ job[j].proc \in Procs /\ pc[job[j].proc] # "off"
  BY <1>1 DEF StoreInv, Owned, Busy
<1>3. table[job[j].proc] \in SUBSET Nat
  BY <1>2 DEF StoreInv, StoreTypes
<1>4. /\ job'[j].at = "open" /\ job'[j].data = table[job[j].proc] /\ job'[j].proc = job[j].proc
      /\ \A k \in Jobs : k # j => job'[k] = job[k]
  BY <1>1 DEF StoreInv, StoreTypes
<1>5. StoreTypes'
  BY <1>1, <1>3, ZenonT(40) DEF StoreInv, StoreTypes, Ats
<1>6. Owned'
  BY <1>1, <1>2, <1>4 DEF StoreInv, Owned, Busy, Holding
<1>7. \A k \in Jobs : Writing(k)' => job'[k] = job[k]
  BY <1>4 DEF Writing
<1>8. file \notin shared =>
        /\ \A k \in Jobs \ stale' : Holding(k)' => Stored \subseteq job'[k].data
        /\ \A p \in Procs \ blind' : pc'[p] # "off" => Stored \subseteq table'[p]
  <2> SUFFICES ASSUME file \notin shared
               PROVE  /\ \A k \in Jobs \ stale' : Holding(k)' => Stored \subseteq job'[k].data
                      /\ \A p \in Procs \ blind' : pc'[p] # "off" => Stored \subseteq table'[p]
    OBVIOUS
  <2>1. \A p \in Procs \ blind : pc[p] # "off" => Stored \subseteq table[p]
    BY DEF StoreInv, StoredKnown
  <2>2. \A k \in Jobs \ stale : Holding(k) => Stored \subseteq job[k].data
    BY DEF StoreInv, StoredKnown
  <2>3. j \notin stale' => Stored \subseteq job'[j].data
    BY <1>1, <1>2, <1>4, <2>1
  <2>4. ASSUME NEW k \in Jobs \ stale', k # j, Holding(k)'
        PROVE  Stored \subseteq job'[k].data
    BY <1>1, <1>4, <2>2, <2>4 DEF Holding
  <2> QED BY <1>1, <2>1, <2>3, <2>4
<1> QED BY <1>1, <1>5, <1>6, <1>7, <1>8, OffDisk

LEMMA FailStep ==
    ASSUME StoreInv, NEW j \in Jobs, SaveFails(j)
    PROVE  StoreInv' /\ StoreKept
<1>1. /\ job' = [job EXCEPT ![j].at = "unlink"] /\ Busy(j)
      /\ UNCHANGED <<pc, table, made, timer, pending, tmp, file, content, blind, stale, shared>>
  BY DEF SaveFails, diskVars, histories, Busy
<1>2. /\ job'[j].at = "unlink" /\ job'[j].proc = job[j].proc
      /\ \A k \in Jobs : k # j => job'[k] = job[k]
  BY <1>1 DEF StoreInv, StoreTypes
<1>3. StoreTypes'
  BY <1>1 DEF StoreInv, StoreTypes, Ats
<1>4. Owned'
  BY <1>1, <1>2 DEF StoreInv, Owned, Busy, Holding
<1>5. \A k \in Jobs : Writing(k)' => job'[k] = job[k]
  BY <1>2 DEF Writing
<1>6. file \notin shared =>
        /\ \A k \in Jobs \ stale' : Holding(k)' => Stored \subseteq job'[k].data
        /\ \A p \in Procs \ blind' : pc'[p] # "off" => Stored \subseteq table'[p]
  BY <1>1, <1>2 DEF StoreInv, StoredKnown, Holding
<1> QED BY <1>1, <1>3, <1>4, <1>5, <1>6, OffDisk

\* The temporary file is opened: by this save alone, or it is shared from now on.
LEMMA OpenStep ==
    ASSUME StoreInv, NEW j \in Jobs, OpenTemp(j)
    PROVE  StoreInv' /\ StoreKept
<1>1. PICK i \in IF tmp = None THEN Unused ELSE {tmp} :
        /\ tmp' = i /\ content' = [content EXCEPT ![i] = Partial]
        /\ job' = [job EXCEPT ![j].at = "write", ![j].inode = i]
        /\ shared' = IF \E k \in Jobs : Writing(k) THEN shared \cup {i} ELSE shared \ {i}
  BY DEF OpenTemp, Opens
<1>2. job[j].at = "open" /\ UNCHANGED <<pc, table, made, timer, pending, file, blind, stale>>
  BY DEF OpenTemp, Opens
<1>3. i \in Inodes /\ i # file /\ i # None
  BY <1>1 DEF StoreInv, StoreTypes, TempOwned, Unused, Inodes, None
<1>4. Stored' = Stored /\ content'[i] = Partial /\ (file # None => content'[file] = content[file])
  BY <1>1, <1>2, <1>3 DEF Stored, StoreInv, StoreTypes
<1>5. /\ job'[j].at = "write" /\ job'[j].inode = i /\ job'[j].data = job[j].data
      /\ job'[j].proc = job[j].proc /\ Busy(j) /\ Holding(j)
      /\ \A k \in Jobs : k # j => job'[k] = job[k]
  BY <1>1, <1>2, <1>3 DEF StoreInv, StoreTypes, Busy, Holding
<1>6. StoreTypes'
  BY <1>1, <1>2, <1>3, ZenonT(40) DEF StoreInv, StoreTypes, Ats, Partial
<1>7. Owned'
  BY <1>2, <1>5 DEF StoreInv, Owned, Busy, Holding
<1>8. TempOwned'
  <2> SUFFICES ASSUME i \notin shared'
               PROVE  /\ \A k, l \in Jobs : Writing(k)' /\ Writing(l)' => k = l
                      /\ \A k \in Jobs : Writing(k)' =>
                           /\ job'[k].inode = i
                           /\ job'[k].at = "write" => ~content'[i].whole
                           /\ job'[k].at = "rename" => content'[i] = Whole(job'[k].data)
    BY <1>1, <1>2, <1>3 DEF TempOwned, Writing
  <2>1. \A k \in Jobs : ~Writing(k)
    BY <1>1
  <2>2. \A k \in Jobs : Writing(k)' => k = j
    BY <1>5, <2>1 DEF Writing
  <2> QED BY <1>4, <1>5, <2>2 DEF Partial
<1>9. file \notin shared' <=> file \notin shared
  BY <1>1, <1>3
<1>10. FileOwned'
  BY <1>2, <1>3, <1>4, <1>5, <1>9 DEF StoreInv, FileOwned
<1>11. StoredKnown'
  BY <1>2, <1>4, <1>5, <1>9 DEF StoreInv, StoredKnown, Holding
<1> QED BY <1>4, <1>6, <1>7, <1>8, <1>10, <1>11 DEF StoreInv, StoreKept

\* A save writes to its own temporary file, or to one that is or was shared.
LEMMA WriteStep ==
    ASSUME StoreInv, NEW j \in Jobs, WriteTemp(j)
    PROVE  StoreInv' /\ StoreKept
<1> DEFINE i == job[j].inode
<1>1. /\ job[j].at = "write" /\ job' = [job EXCEPT ![j].at = "rename"]
      /\ UNCHANGED <<pc, table, made, timer, pending, tmp, file, blind, stale, shared>>
      /\ \/ content' = [content EXCEPT ![i] = Whole(job[j].data)]
         \/ content[i].whole /\ content' = [content EXCEPT ![i] = Partial]
  BY DEF WriteTemp, histories
<1>2. /\ job'[j].at = "rename" /\ job'[j].inode = i /\ job'[j].data = job[j].data
      /\ job'[j].proc = job[j].proc /\ Busy(j) /\ Holding(j) /\ Writing(j)
      /\ \A k \in Jobs : k # j => job'[k] = job[k]
  BY <1>1 DEF StoreInv, StoreTypes, Busy, Holding, Writing
<1>3. job[j].data \in SUBSET Nat
  BY DEF StoreInv, StoreTypes
<1>4. content' \in [Inodes -> [whole : BOOLEAN, data : SUBSET Nat]]
  <2> DEFINE R == [whole : BOOLEAN, data : SUBSET Nat]
  <2>1. PICK c \in {Whole(job[j].data), Partial} : content' = [content EXCEPT ![i] = c]
    BY <1>1
  <2>2. c \in R
    <3>1. Whole(job[j].data) \in [whole : BOOLEAN, data : SUBSET Nat]
      BY <1>3, ZenonT(40) DEF Whole
    <3>2. Partial \in [whole : BOOLEAN, data : SUBSET Nat]
      BY ZenonT(40) DEF Partial
    <3> QED BY <2>1, <3>1, <3>2
  <2>3. content \in [Inodes -> R]
    BY DEF StoreInv, StoreTypes
  <2>4. \A S : c \in S /\ content \in [Inodes -> S] => content' \in [Inodes -> S]
    BY <2>1
  <2> QED BY <2>2, <2>3, <2>4
<1>5. StoreTypes'
  <2>1. job' \in [Jobs -> [at : Ats, proc : Procs \cup {None}, data : SUBSET Nat, inode : Inodes \cup {None}]]
    BY <1>1, SMTT(30) DEF StoreInv, StoreTypes, Ats
  <2>2. UNCHANGED <<pc, table, made, pending, tmp, file>>
    BY <1>1
  <2> QED BY <1>4, <2>1, <2>2 DEF StoreInv, StoreTypes
<1>6. Owned'
  BY <1>1, <1>2 DEF StoreInv, Owned, Busy, Holding
<1>7. TempOwned'
  <2> SUFFICES ASSUME tmp # None, tmp \notin shared
               PROVE  /\ \A k, l \in Jobs : Writing(k)' /\ Writing(l)' => k = l
                      /\ \A k \in Jobs : Writing(k)' =>
                           /\ job'[k].inode = tmp
                           /\ job'[k].at = "write" => ~content'[tmp].whole
                           /\ job'[k].at = "rename" => content'[tmp] = Whole(job'[k].data)
    BY <1>1 DEF StoreInv, TempOwned, Writing
  <2>1. i = tmp /\ ~content[tmp].whole /\ tmp \in Inodes
    BY <1>1, <1>2 DEF StoreInv, TempOwned, StoreTypes
  <2>2. content'[tmp] = Whole(job[j].data)
    BY <1>1, <2>1 DEF StoreInv, StoreTypes
  <2>3. \A k \in Jobs : Writing(k) => k = j
    BY <1>2 DEF StoreInv, TempOwned
  <2>4. \A k \in Jobs : Writing(k)' => k = j
    BY <1>2, <2>3 DEF Writing
  <2> QED BY <1>2, <2>1, <2>2, <2>4
<1>8. file # None /\ file \notin shared => i # file /\ content'[file] = content[file]
  BY <1>1 DEF StoreInv, StoreTypes, FileOwned
<1>9. file \notin shared => Stored' = Stored
  BY <1>1, <1>8 DEF Stored
<1>10. FileOwned'
  BY <1>1, <1>2, <1>8 DEF StoreInv, FileOwned
<1>11. StoredKnown'
  BY <1>1, <1>2, <1>9 DEF StoreInv, StoredKnown, Holding
<1> QED BY <1>5, <1>6, <1>7, <1>9, <1>10, <1>11 DEF StoreInv, StoreKept

\* The temporary file becomes the file.  Unless it is shared it holds what this save
\* copied, which is in its process's table; the others do not know it yet.
LEMMA RenameStep ==
    ASSUME StoreInv, NEW j \in Jobs, RenameTemp(j)
    PROVE  StoreInv' /\ (StoreKept \/ file' \in shared' \/ j \in stale)
<1>1. /\ job[j].at = "rename" /\ tmp # None /\ file' = tmp /\ tmp' = None
      /\ job' = [job EXCEPT ![j] = Idle]
      /\ pending' = [p \in Procs |-> IF pending[p] = j THEN None ELSE pending[p]]
      /\ blind' = Procs \ {job[j].proc} /\ stale' = Jobs \ {j}
      /\ UNCHANGED <<pc, table, made, timer, content, shared>>
  BY DEF RenameTemp, Settle
<1>2. StoreTypes'
  BY <1>1 DEF StoreInv, StoreTypes, Idle, Ats, None
<1>3. job'[j] = Idle /\ \A k \in Jobs : k # j => job'[k] = job[k]
  BY <1>1 DEF StoreInv, StoreTypes
<1>4. \A k \in Jobs : job'[k].at # "idle" => k # j /\ job'[k] = job[k]
  BY <1>3 DEF Idle
<1>5. Owned'
  BY <1>1, <1>4 DEF StoreInv, Owned, Busy, Holding
<1>6. TempOwned'
  BY <1>1 DEF TempOwned
<1>7. ASSUME tmp \notin shared
      PROVE  /\ content[tmp] = Whole(job[j].data)
             /\ \A k \in Jobs : k # j => ~Writing(k)
  BY <1>1, <1>7 DEF StoreInv, TempOwned, Writing
<1>8. FileOwned'
  BY <1>1, <1>4, <1>7 DEF FileOwned, Whole, Writing
<1>9. tmp \notin shared => Stored' = job[j].data
  BY <1>1, <1>7 DEF Stored, Whole
<1>10. StoredKnown'
  <2> SUFFICES ASSUME tmp \notin shared
               PROVE  /\ \A p \in Procs \ blind' : pc[p] # "off" => Stored' \subseteq table[p]
                      /\ \A k \in Jobs \ stale' : Holding(k)' => Stored' \subseteq job'[k].data
    BY <1>1 DEF StoredKnown
  <2>1. \A p \in Procs \ blind' : p = job[j].proc
    BY <1>1
  <2>2. job[j].data \subseteq table[job[j].proc]
    BY <1>1 DEF StoreInv, Owned, Busy, Holding
  <2>3. \A k \in Jobs \ stale' : ~Holding(k)'
    BY <1>1, <1>3 DEF Holding, Idle
  <2> QED BY <1>9, <2>1, <2>2, <2>3
<1>11. file \notin shared /\ j \notin stale => Stored \subseteq job[j].data
  BY <1>1 DEF StoreInv, StoredKnown, Holding
<1> QED BY <1>1, <1>2, <1>5, <1>6, <1>8, <1>9, <1>10, <1>11 DEF StoreInv, StoreKept

\* A save that fails, with the process that does not expect it or without.
LEMMA RejectStep ==
    ASSUME StoreInv, NEW j \in Jobs, UnlinkTemp(j) \/ MkdirFails(j)
    PROVE  StoreInv' /\ StoreKept
<1>1. /\ Busy(j) /\ Reject(j) /\ UNCHANGED <<made, file, content, histories>> /\ tmp' \in {tmp, None}
  BY DEF UnlinkTemp, MkdirFails, diskVars, Busy
<1>2. CASE Settle(j) /\ UNCHANGED <<pc, table, timer>>
  <2>1. job' = [job EXCEPT ![j] = Idle]
        /\ pending' = [p \in Procs |-> IF pending[p] = j THEN None ELSE pending[p]]
        /\ UNCHANGED <<blind, stale, shared>>
    BY <1>1, <1>2 DEF Settle, histories
  <2>2. StoreTypes'
    BY <1>1, <1>2, <2>1 DEF StoreInv, StoreTypes, Idle, Ats, None
  <2>3. \A k \in Jobs : job'[k].at # "idle" => job'[k] = job[k] /\ Busy(k)
    BY <2>1 DEF StoreInv, StoreTypes, Idle, Busy
  <2>4. Owned'
    BY <1>2, <2>3 DEF StoreInv, Owned, Busy, Holding
  <2>5. \A k \in Jobs : Writing(k)' => job'[k] = job[k]
    BY <2>3 DEF Writing
  <2>6. file \notin shared =>
          /\ \A k \in Jobs \ stale' : Holding(k)' => Stored \subseteq job'[k].data
          /\ \A q \in Procs \ blind' : pc'[q] # "off" => Stored \subseteq table'[q]
    BY <1>2, <2>1, <2>3 DEF StoreInv, StoredKnown, Holding
  <2> QED BY <1>1, <2>1, <2>2, <2>4, <2>5, <2>6, OffDisk
<1>3. CASE Gone(job[j].proc)
  BY <1>1, <1>3, GoneKeeps DEF StoreInv, Owned
<1> QED BY <1>1, <1>2, <1>3 DEF Reject

\* The steps of a process beside its saves: it stays, and its table does not shrink
\* while it has saves.
LEMMA ProcessStep ==
    ASSUME StoreInv, StoreTypes', UNCHANGED <<jobVars, diskVars, stale, shared>>,
           \A j \in Jobs : Busy(j) =>
               pc'[job[j].proc] # "off" /\ table[job[j].proc] \subseteq table'[job[j].proc],
           file \notin shared => \A p \in Procs \ blind' : pc'[p] # "off" => Stored \subseteq table'[p]
    PROVE  StoreInv' /\ StoreKept
<1>1. UNCHANGED <<job, pending, tmp, file, content>>
  BY DEF jobVars, diskVars
<1>2. Owned'
  BY <1>1 DEF StoreInv, Owned, Busy, Holding
<1>3. file \notin shared => \A j \in Jobs \ stale' : Holding(j)' => Stored \subseteq job'[j].data
  BY <1>1 DEF StoreInv, StoredKnown, Holding
<1> QED BY <1>1, <1>2, <1>3, OffDisk

LEMMA StartStep ==
    ASSUME StoreInv, NEW p \in Procs, Start(p)
    PROVE  StoreInv' /\ StoreKept
<1>1. PICK t \in {Stored, {}} : Loads(p, t) /\ (t = Stored \/ p \in blind') /\ blind \ {p} \subseteq blind'
  BY DEF Start
<1>2. /\ pc[p] = "off" /\ pc' = [pc EXCEPT ![p] = "up"]
      /\ table' = [table EXCEPT ![p] = t]
      /\ UNCHANGED <<made, jobVars, diskVars, stale, shared>>
  BY <1>1 DEF Loads
<1>3. t \in SUBSET Nat
  BY DEF Stored, StoreInv, StoreTypes
<1>4. StoreTypes'
  BY <1>2, <1>3 DEF StoreInv, StoreTypes, jobVars, diskVars
<1>5. table'[p] = t /\ \A q \in Procs : q # p => pc'[q] = pc[q] /\ table'[q] = table[q]
  BY <1>2 DEF StoreInv, StoreTypes
<1>6. \A j \in Jobs : Busy(j) => job[j].proc \in Procs /\ job[j].proc # p /\ pc[job[j].proc] # "off"
  BY <1>2 DEF StoreInv, Owned
<1>7. file \notin shared => \A q \in Procs \ blind' : pc'[q] # "off" => Stored \subseteq table'[q]
  BY <1>1, <1>5 DEF StoreInv, StoredKnown
<1>8. \A j \in Jobs : Busy(j) =>
         pc'[job[j].proc] # "off" /\ table[job[j].proc] \subseteq table'[job[j].proc]
  BY <1>5, <1>6
<1> QED BY <1>2, <1>4, <1>7, <1>8, ProcessStep

LEMMA ChangeStep ==
    ASSUME StoreInv, NEW p \in Procs, Change(p)
    PROVE  StoreInv' /\ StoreKept
<1>1. /\ made' = made + 1 /\ table' = [table EXCEPT ![p] = @ \cup {made'}]
      /\ UNCHANGED <<pc, jobVars, diskVars, blind, stale, shared>>
  BY DEF Change, histories
<1>2. made' \in Nat
  BY <1>1 DEF StoreInv, StoreTypes
<1>3. StoreTypes'
  BY <1>1, <1>2 DEF StoreInv, StoreTypes, jobVars, diskVars
<1>4. \A q \in Procs : table[q] \subseteq table'[q]
  BY <1>1 DEF StoreInv, StoreTypes
<1>5. file \notin shared => \A q \in Procs \ blind' : pc'[q] # "off" => Stored \subseteq table'[q]
  BY <1>1, <1>4 DEF StoreInv, StoredKnown
<1>6. \A j \in Jobs : Busy(j) =>
         pc'[job[j].proc] # "off" /\ table[job[j].proc] \subseteq table'[job[j].proc]
  BY <1>1, <1>4 DEF StoreInv, Owned
<1> QED BY <1>1, <1>3, <1>5, <1>6, ProcessStep

LEMMA DestroySteps ==
    ASSUME StoreInv, NEW p \in Procs, Destroy(p) \/ Destroyed(p)
    PROVE  StoreInv' /\ StoreKept
<1>1. PICK c \in {"destroying", "destroyed"} :
        /\ pc' = [pc EXCEPT ![p] = c] /\ pc[p] # "off"
        /\ UNCHANGED <<table, made, jobVars, diskVars, blind, stale, shared>>
  BY DEF Destroy, Destroyed, histories
<1>2. StoreTypes'
  BY <1>1 DEF StoreInv, StoreTypes, jobVars, diskVars
<1>3. \A q \in Procs : pc'[q] # "off" <=> pc[q] # "off"
  BY <1>1 DEF StoreInv, StoreTypes
<1>4. file \notin shared => \A q \in Procs \ blind' : pc'[q] # "off" => Stored \subseteq table'[q]
  BY <1>1, <1>3 DEF StoreInv, StoredKnown
<1>5. \A j \in Jobs : Busy(j) =>
         pc'[job[j].proc] # "off" /\ table[job[j].proc] \subseteq table'[job[j].proc]
  BY <1>1, <1>3 DEF StoreInv, Owned
<1> QED BY <1>1, <1>2, <1>4, <1>5, ProcessStep

\* A save begins, whatever saves are not over yet.
LEMMA TimerStep ==
    ASSUME StoreInv, NEW p \in Procs, TimerFires(p)
    PROVE  StoreInv' /\ StoreKept
<1>1. /\ pc[p] \in {"up", "destroying"}
      /\ UNCHANGED <<pc, table, made, tmp, file, content, blind, stale, shared>>
  BY DEF TimerFires, diskVars, histories
<1>2. PICK j \in Jobs : /\ job[j].at = "idle"
                        /\ job' = [job EXCEPT ![j] = [at |-> "snapshot", proc |-> p, data |-> {}, inode |-> None]]
                        /\ pending' = [pending EXCEPT ![p] = j]
  BY DEF TimerFires
<1>3. /\ job'[j].at = "snapshot" /\ job'[j].proc = p
      /\ \A k \in Jobs : k # j => job'[k] = job[k]
  BY <1>2 DEF StoreInv, StoreTypes
<1>4. StoreTypes'
  BY <1>1, <1>2 DEF StoreInv, StoreTypes, Ats
<1>5. Owned'
  BY <1>1, <1>3 DEF StoreInv, Owned, Busy, Holding
<1>6. \A k \in Jobs : Writing(k)' => job'[k] = job[k]
  BY <1>3 DEF Writing
<1>7. file \notin shared =>
        /\ \A k \in Jobs \ stale' : Holding(k)' => Stored \subseteq job'[k].data
        /\ \A q \in Procs \ blind' : pc'[q] # "off" => Stored \subseteq table'[q]
  BY <1>1, <1>3 DEF StoreInv, StoredKnown, Holding
<1> QED BY <1>1, <1>4, <1>5, <1>6, <1>7, OffDisk

Excused == file \in shared \/ file' \in shared' \/ \E j \in stale : RenameTemp(j)

LEMMA NextStore ==
    ASSUME StoreInv, [Next]_vars
    PROVE  StoreInv' /\ (Stored \subseteq Stored' \/ Excused)
<1>1. CASE UNCHANGED vars
  <2>1. UNCHANGED <<pc, table, made, pending, job, tmp, file, content, blind, stale, shared>>
    BY <1>1 DEF vars, jobVars, diskVars, histories
  <2>2. StoreTypes' /\ Owned'
    BY <2>1 DEF StoreInv, StoreTypes, Owned, Busy, Holding
  <2>3. TempOwned' /\ FileOwned'
    BY <2>1 DEF StoreInv, TempOwned, FileOwned, Writing
  <2>4. Stored' = Stored
    BY <2>1 DEF Stored
  <2>5. StoredKnown'
    BY <2>1, <2>4 DEF StoreInv, StoredKnown, Holding
  <2> QED BY <2>2, <2>3, <2>4, <2>5 DEF StoreInv
<1>2. ASSUME NEW p \in Procs, Start(p) \/ Change(p) \/ Destroy(p) \/ Destroyed(p) \/ TimerFires(p)
      PROVE  StoreInv' /\ StoreKept
  BY <1>2, StartStep, ChangeStep, DestroySteps, TimerStep
<1>3. ASSUME NEW p \in Procs, Exit(p) \/ listCommand(p)
      PROVE  StoreInv' /\ StoreKept
  <2>1. Gone(p) /\ UNCHANGED <<made, tmp, file, content, histories>>
    BY <1>3 DEF Exit, listCommand, diskVars
  <2> QED BY <2>1, GoneKeeps
<1>4. ASSUME NEW j \in Jobs, DoSave(j) \/ SaveFails(j) \/ MkdirFails(j)
      PROVE  StoreInv' /\ (StoreKept \/ Excused)
  <2>1. CASE RenameTemp(j)
    <3>1. j \in stale => Excused
      BY <2>1 DEF Excused
    <3>2. file' \in shared' => Excused
      BY DEF Excused
    <3> QED BY <2>1, <3>1, <3>2, RenameStep
  <2> QED BY <1>4, <2>1, SnapshotStep, OpenStep, WriteStep, FailStep, RejectStep DEF DoSave
<1>5. StoreKept => Stored \subseteq Stored' \/ Excused
  BY DEF StoreKept, Excused
<1> QED
  BY <1>1, <1>2, <1>3, <1>4, <1>5, SessionStoreAssumption
  DEF Next, createSessionManager, sessionCommand, createCommand, completeCommand, failCommand, statusCommand

\* sessions.json is never half written, whatever step of a save a process dies or
\* an operation fails in, and whoever else saves, unless two saves wrote it at the
\* same time: doSave writes a temporary file and renames it.
THEOREM SessionsFileIntact == Spec => []FileIntact
<1>1. Init => StoreInv
  BY InitStore
<1>2. StoreInv /\ [Next]_vars => StoreInv'
  BY NextStore
<1>3. StoreInv => FileIntact
  BY DEF StoreInv, FileOwned, FileIntact
<1> QED BY <1>1, <1>2, <1>3, PTL DEF Spec

\* What doSave brought to disk stays there: a process that could read it holds it,
\* and every save of that process until another one's overtakes it.
THEOREM SavedStaysSaved == Spec => NoRollback
<1> DEFINE Kept == Stored \subseteq Stored' \/ file \in shared \/ file' \in shared' \/ \E j \in stale : RenameTemp(j)
<1>1. Init => StoreInv
  BY InitStore
<1>2. StoreInv /\ [Next]_vars => StoreInv' /\ [Kept]_vars
  BY NextStore DEF Excused
<1> QED BY <1>1, <1>2, PTL DEF Spec, NoRollback

-----------------------------------------------------------------------------
(* The table.                                                              *)

\* What the bound needs: the sets counted are finite and apart.
CInv ==
    /\ live \subseteq Ids /\ creating \subseteq Ids
    /\ Cardinality(creating) <= MaxCreating
    /\ BoundedExcess

LEMMA Counts ==
    ASSUME CInv
    PROVE  /\ IsFiniteSet(live) /\ IsFiniteSet(creating)
           /\ Cardinality(live) \in Nat /\ Cardinality(creating) \in Nat
BY SessionTableAssumption, FS_Subset, FS_CardinalityType DEF CInv

\* Adding a session and removing aged ones adds at most one.
LEMMA AddCounts ==
    ASSUME CInv, NEW s, NEW a, AddSession(s, a)
    PROVE  Cardinality(live') <= Cardinality(live) + 1
<1>1. IsFiniteSet(live \cup {s})
      /\ Cardinality(live \cup {s}) <= Cardinality(live) + 1
  BY Counts, FS_AddElement
<1>2. live' \subseteq live \cup {s}
  BY DEF AddSession
<1>3. Cardinality(live') <= Cardinality(live \cup {s})
  BY <1>1, <1>2, FS_Subset
<1> QED BY <1>1, <1>2, <1>3, Counts, FS_Subset, FS_CardinalityType

\* cleanup leaves at most MaxSessions.
LEMMA CleanupCounts ==
    ASSUME CInv, NEW gone \in SUBSET live, IsEvicted(gone)
    PROVE  Cardinality(live \ gone) <= MaxSessions
<1>1. IsFiniteSet(gone) /\ Cardinality(gone) \in Nat
  BY Counts, FS_Subset, FS_CardinalityType
<1>2. CASE Surplus <= 0
  BY <1>2, Counts, SessionTableAssumption DEF IsEvicted, Surplus
<1>3. CASE ~(Surplus <= 0)
  <2>1. live \cap gone = gone
    OBVIOUS
  <2>2. Cardinality(live \ gone) = Cardinality(live) - Cardinality(gone)
    BY <2>1, Counts, FS_Difference
  <2> QED
    BY <1>1, <1>3, <2>2, Counts, SessionTableAssumption DEF IsEvicted, Surplus
<1> QED BY <1>2, <1>3

LEMMA InitCInv == TableInit => CInv
BY FS_EmptySet, SessionTableAssumption DEF TableInit, CInv, BoundedExcess

LEMMA NextCInv == CInv /\ [TableNext]_tableVars => CInv'
<1> SUFFICES ASSUME CInv, [TableNext]_tableVars PROVE CInv'
  OBVIOUS
<1>1. CASE UNCHANGED <<live, creating>>
  BY <1>1 DEF CInv, BoundedExcess
<1>2. ASSUME NEW s \in Ids, BeginCreate(s) PROVE CInv'
  <2>1. PICK gone \in SUBSET live : IsEvicted(gone) /\ live' = live \ gone
    BY <1>2 DEF BeginCreate
  <2>2. Cardinality(live') <= MaxSessions
    BY <2>1, CleanupCounts
  <2>3. /\ creating' = creating \cup {s} /\ live' \subseteq Ids
        /\ Cardinality(creating) < MaxCreating
    BY <1>2, <2>1 DEF BeginCreate, CInv
  <2>4. Cardinality(creating') <= Cardinality(creating) + 1
        /\ Cardinality(creating') \in Nat
    BY <2>3, Counts, FS_AddElement, FS_CardinalityType, SMTT(30)
  <2>5. Cardinality(live') \in Nat
    BY <2>1, Counts, FS_Subset, FS_CardinalityType
  <2>6. Cardinality(creating') <= MaxCreating
    BY <2>3, <2>4, Counts, SessionTableAssumption
  <2> QED
    BY <2>2, <2>3, <2>5, <2>6, <2>4, SessionTableAssumption
    DEF CInv, BoundedExcess
<1>3. ASSUME NEW s \in Ids, NEW a \in Agents, CreateSession(s, a) PROVE CInv'
  <2>1. AddSession(s, a) /\ creating' = creating \ {s}
    BY <1>3 DEF CreateSession
  <2>2. Cardinality(live') <= Cardinality(live) + 1
    BY <2>1, AddCounts
  <2>3. live' \subseteq Ids /\ creating' \subseteq Ids
    BY <2>1 DEF CInv, AddSession
  <2>4. Cardinality(live') \in Nat /\ Cardinality(creating') \in Nat
    BY <2>3, SessionTableAssumption, FS_Subset, FS_CardinalityType
  <2>5. CASE s \in creating
    <3>1. Cardinality(creating') = Cardinality(creating) - 1
      BY <2>1, <2>5, Counts, FS_RemoveElement
    <3> QED
      BY <2>2, <2>3, <2>4, <3>1, Counts, SessionTableAssumption
      DEF CInv, BoundedExcess
  <2>6. CASE s \notin creating
    <3>1. creating' = creating /\ Cardinality(live) < MaxSessions
      BY <1>3, <2>1, <2>6 DEF CreateSession
    <3> QED
      BY <2>2, <2>3, <2>4, <3>1, Counts, SessionTableAssumption
      DEF CInv, BoundedExcess
  <2> QED BY <2>5, <2>6
<1>4. CASE Restart
  <2>1. live' = live /\ creating' = {}
    BY <1>4 DEF Restart
  <2>2. Cardinality(creating') = 0
    BY <2>1, FS_EmptySet
  <2> QED
    BY <2>1, <2>2, Counts, SessionTableAssumption DEF CInv, BoundedExcess
<1> QED
  BY <1>1, <1>2, <1>3, <1>4
  DEF TableNext, session_create, session_complete, session_fail, CompleteSession, FailSession,
      UpdateMetadata, AddAgent, Age, tableVars

\* The table never holds more sessions than MAX_SESSIONS and the number of
\* createSession calls that can be in progress together.
THEOREM TableBounded == TableSpec => []BoundedExcess
<1>1. CInv => BoundedExcess
  BY DEF CInv
<1> QED BY <1>1, InitCInv, NextCInv, PTL DEF TableSpec

\* cleanup takes a session somebody works in only when no finished one is left in
\* the table; cleanupOldSessions takes finished ones alone.
THEOREM FinishedGoFirst == TableSpec => ActiveGoLast
<1> DEFINE Spared == getActiveSessions \ live' # {} => Finished \cap live' = {}
<1>1. ASSUME NEW s \in Ids, BeginCreate(s) PROVE Spared
  <2>1. PICK gone \in SUBSET live : IsEvicted(gone) /\ live' = live \ gone
    BY <1>1 DEF BeginCreate
  <2>2. ASSUME NEW a \in getActiveSessions \ live', NEW f \in Finished \cap live'
        PROVE  FALSE
    <3>1. a \in gone /\ f \in live \ gone /\ a \notin Finished /\ f \in Finished
      BY <2>1, <2>2 DEF getActiveSessions, Finished
    <3>2. GoesFirst(a, f)
      BY <2>1, <3>1 DEF IsEvicted
    <3> QED BY <3>1, <3>2 DEF GoesFirst
  <2> QED BY <2>2
<1>2. ASSUME NEW s \in Ids, NEW a \in Agents, CreateSession(s, a) PROVE Spared
  <2>1. live' = (live \cup {s}) \ (aged \cap Finished)
    BY <1>2 DEF CreateSession, AddSession
  <2> QED BY <2>1 DEF getActiveSessions, Finished
<1>3. live' = live => Spared
  BY DEF getActiveSessions
<1>4. [TableNext]_tableVars => [Spared]_tableVars
  BY <1>1, <1>2, <1>3
  DEF TableNext, session_create, session_complete, session_fail, CompleteSession,
      FailSession, UpdateMetadata, AddAgent, Age, Restart
<1> QED BY <1>4, PTL DEF TableSpec, ActiveGoLast
=============================================================================
