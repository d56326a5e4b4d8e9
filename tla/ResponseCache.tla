---------------------------- MODULE ResponseCache ----------------------------
(***************************************************************************)
(* The cache of responses (src/core/response-cache.ts): every process has  *)
(* an LRU cache in memory (L1) before one SQLite table that all processes  *)
(* share (L2).  A response is written to L1 and then to L2, where the      *)
(* oldest rows are evicted when there are too many that have not expired;  *)
(* a response found in L2 is promoted to L1.  `ax cache` opens the table   *)
(* from a process of its own.                                              *)
(*                                                                         *)
(* A response is known by its stamp, the order in which set took its time; *)
(* all have the same time to live, so that they expire in that order.      *)
(***************************************************************************)
EXTENDS Integers, Sequences, FiniteSets

CONSTANTS
    Processes,
    Commands,       \* the processes that run `ax cache`
    Keys,           \* hashes of provider, prompt and parameters
    MaxSize,        \* maxSize: entries of L2
    Keep,           \* floor(maxSize * 0.8), what an eviction leaves
    MaxMemorySize,  \* maxMemorySize: entries of L1
    MaxStamp        \* bound: responses set

ASSUME SizesAssumption == /\ IsFiniteSet(Keys) /\ MaxSize \in Nat \ {0} /\ Keep \in 0 .. MaxSize /\ MaxMemorySize \in Nat
                          /\ MaxStamp \in Nat /\ Commands \subseteq Processes

VARIABLES
    l1,         \* l1[p]: entries in the order of their last use
    l2,         \* the rows: a function from keys to stamps
    now,        \* the last stamp given
    horizon,    \* responses up to this stamp have expired
    open,       \* open[p]: initialized
    doing,      \* doing[p]: how far a set has come
    seen,       \* history: seen[p][k], the stamp p found or set last for k
    behind,     \* history: behind[p][k], L2 may hold an older response than p has seen
    dropped     \* history: dropped[p], the stamps p has cleared

cacheVars == <<l1, l2, now, horizon, open, doing, seen, behind, dropped>>

Ready == [at |-> "ready"]
Rows == DOMAIN l2
Live(k) == l2[k] > horizon
count == Cardinality({k \in Rows : Live(k)})
Cached(p) == {l1[p][i] : i \in DOMAIN l1[p]}
Entry(p, k) == {e \in Cached(p) : e.key = k}
\* A Map: a key is there once at most.
Without(s, k) ==
    IF \A i \in DOMAIN s : s[i].key # k THEN s
    ELSE LET i == CHOOSE i \in DOMAIN s : s[i].key = k IN [j \in 1..(Len(s) - 1) |-> s[IF j < i THEN j ELSE j + 1]]

-----------------------------------------------------------------------------
(* L1 *)

\* The entry goes to the end; the first one is evicted when there are too many.
LRUSet(s, e) == LET t == Append(Without(s, e.key), e)
                IN IF Len(t) > MaxMemorySize THEN Tail(t) ELSE t

-----------------------------------------------------------------------------
(* Opening and closing *)

\* The rows that have expired are deleted when the table is opened, and then only.
initialize(p) ==
    /\ ~open[p]
    /\ open' = [open EXCEPT ![p] = TRUE]
    /\ l2' = [k \in {k \in Rows : Live(k)} |-> l2[k]]
    /\ seen' = [seen EXCEPT ![p] = [k \in Keys |-> 0]]
    /\ behind' = [behind EXCEPT ![p] = [k \in Keys |-> FALSE]]
    /\ dropped' = [dropped EXCEPT ![p] = {}]
    /\ UNCHANGED <<l1, now, horizon, doing>>

\* close, or the end of the process in the middle of a set.
close(p) ==
    /\ open[p]
    /\ open' = [open EXCEPT ![p] = FALSE]
    /\ l1' = [l1 EXCEPT ![p] = <<>>]
    /\ doing' = [doing EXCEPT ![p] = Ready]
    /\ UNCHANGED <<l2, now, horizon, seen, behind, dropped>>

-----------------------------------------------------------------------------
(* get *)

Idle(p) == open[p] /\ doing[p] = Ready
Serve(p, k, stamp) == seen' = [seen EXCEPT ![p][k] = stamp]
FreshInL1(p, k) == \E e \in Entry(p, k) : e.stamp > horizon

\* L1 looks a key up: the entry is moved to the end of the order, also one that has expired.
HitL1(p, k) ==
    /\ Idle(p)
    /\ \E e \in Entry(p, k) :
          /\ e.stamp > horizon
          /\ l1' = [l1 EXCEPT ![p] = Append(Without(@, k), e)]
          /\ Serve(p, k, e.stamp)
    /\ UNCHANGED <<l2, now, horizon, open, doing, behind, dropped>>

\* A hit in L2 is put into L1, also if the update of the row's access count fails and a miss is reported.
HitL2(p, k) ==
    /\ Idle(p) /\ ~FreshInL1(p, k)
    /\ k \in Rows /\ Live(k)
    /\ l1' = [l1 EXCEPT ![p] = LRUSet(@, [key |-> k, stamp |-> l2[k]])]
    /\ Serve(p, k, l2[k])
    /\ UNCHANGED <<l2, now, horizon, open, doing, behind, dropped>>

Miss(p, k) ==
    /\ Idle(p) /\ ~FreshInL1(p, k) /\ ~(k \in Rows /\ Live(k))
    /\ \E e \in Entry(p, k) : l1' = [l1 EXCEPT ![p] = Append(Without(@, k), e)]
    /\ UNCHANGED <<l2, now, horizon, open, doing, seen, behind, dropped>>

-----------------------------------------------------------------------------
(* set *)

\* The response gets its time and goes to L1 ...
set(p, k) ==
    /\ Idle(p) /\ now < MaxStamp
    /\ now' = now + 1
    /\ l1' = [l1 EXCEPT ![p] = LRUSet(@, [key |-> k, stamp |-> now + 1])]
    /\ doing' = [doing EXCEPT ![p] = [at |-> "writing", key |-> k, stamp |-> now + 1]]
    /\ Serve(p, k, now + 1)
    /\ behind' = [behind EXCEPT ![p][k] = FALSE]
    /\ UNCHANGED <<l2, horizon, open, dropped>>

\* Mutant: L2 keeps the row it has.
WriteIgnoring(p) ==
    /\ open[p] /\ doing[p].at = "writing"
    /\ LET k == doing[p].key IN
       /\ l2' = [j \in Rows \union {k} |-> IF j \in Rows THEN l2[j] ELSE doing[p].stamp]
       /\ behind' = behind
    /\ doing' = [doing EXCEPT ![p] = [at |-> "written"]]
    /\ UNCHANGED <<l1, now, horizon, open, seen, dropped>>

\* ... and then to L2, over the row that is there, also a younger one of another process: a write that comes late.
Write(p) ==
    /\ open[p] /\ doing[p].at = "writing"
    /\ LET k == doing[p].key IN
       /\ l2' = [j \in Rows \union {k} |-> IF j = k THEN doing[p].stamp ELSE l2[j]]
       /\ behind' = [q \in Processes |->
              IF seen[q][k] > doing[p].stamp THEN [behind[q] EXCEPT ![k] = TRUE] ELSE behind[q]]
    /\ doing' = [doing EXCEPT ![p] = [at |-> "written"]]
    /\ UNCHANGED <<l1, now, horizon, open, seen, dropped>>

\* A write that fails is logged; L1 keeps the response.
WriteFails(p) ==
    /\ open[p] /\ doing[p].at = "writing"
    /\ behind' = [behind EXCEPT ![p][doing[p].key] = TRUE]
    /\ doing' = [doing EXCEPT ![p] = Ready]
    /\ UNCHANGED <<l1, l2, now, horizon, open, seen, dropped>>

\* Mutant: the rows to delete are counted down to one less than is to be kept.
checkAndEvictTooMuch(p) ==
    /\ open[p] /\ doing[p].at = "written"
    /\ doing' = [doing EXCEPT ![p] = IF count > MaxSize THEN [at |-> "evicting", n |-> count - Keep + 1, of |-> count]
                                                        ELSE Ready]
    /\ UNCHANGED <<l1, l2, now, horizon, open, seen, behind, dropped>>

\* The rows that have not expired are counted ...
checkAndEvict(p) ==
    /\ open[p] /\ doing[p].at = "written"
    /\ doing' = [doing EXCEPT ![p] = IF count > MaxSize THEN [at |-> "evicting", n |-> count - Keep, of |-> count] ELSE Ready]
    /\ UNCHANGED <<l1, l2, now, horizon, open, seen, behind, dropped>>

\* ... and the oldest of all rows deleted, by a second statement.
Evict(p) ==
    /\ open[p] /\ doing[p].at = "evicting"
    /\ l2' = [k \in {k \in Rows : Cardinality({j \in Rows : l2[j] < l2[k]}) >= doing[p].n} |-> l2[k]]
    /\ doing' = [doing EXCEPT ![p] = Ready]
    /\ UNCHANGED <<l1, now, horizon, open, seen, behind, dropped>>

\* Counting or deleting fails: logged.
EvictionFails(p) ==
    /\ open[p] /\ doing[p].at \in {"written", "evicting"}
    /\ doing' = [doing EXCEPT ![p] = Ready]
    /\ UNCHANGED <<l1, l2, now, horizon, open, seen, behind, dropped>>

-----------------------------------------------------------------------------
(* clear *)

\* Mutant: only the table is cleared.
clearL2Only(p) ==
    /\ Idle(p)
    /\ l2' = [k \in {} |-> 0]
    /\ dropped' = [dropped EXCEPT ![p] = @ \union {l2[k] : k \in Rows} \union {e.stamp : e \in Cached(p)}]
    /\ UNCHANGED <<l1, now, horizon, open, doing, seen, behind>>

\* Both levels of this process; the L1 of other processes keeps what it has.
clear(p) ==
    /\ Idle(p)
    /\ l1' = [l1 EXCEPT ![p] = <<>>]
    /\ l2' = [k \in {} |-> 0]
    /\ dropped' = [dropped EXCEPT ![p] = @ \union {l2[k] : k \in Rows} \union {e.stamp : e \in Cached(p)}]
    /\ UNCHANGED <<now, horizon, open, doing, seen, behind>>

\* The statement fails: logged, and only L1 is empty.
ClearFails(p) ==
    /\ Idle(p)
    /\ l1' = [l1 EXCEPT ![p] = <<>>]
    /\ UNCHANGED <<l2, now, horizon, open, doing, seen, behind, dropped>>

-----------------------------------------------------------------------------
(* `ax cache`: a process that opens the table, does one thing and closes it. *)

statusCommand(p) == doing[p] = Ready /\ close(p)
statsCommand(p) == doing[p] = Ready /\ close(p)
\* getStats counts what has not expired.
getStats == count
\* It clears if there are such entries and --confirm was given, and closes after that.
clearCommand(p) == getStats > 0 /\ (clear(p) \/ ClearFails(p))

\* Time passes: the oldest responses expire.
ExpireResponses ==
    /\ horizon < now /\ horizon' = horizon + 1
    /\ UNCHANGED <<l1, l2, now, open, doing, seen, behind, dropped>>

-----------------------------------------------------------------------------
CacheInit ==
    /\ l1 = [p \in Processes |-> <<>>] /\ l2 = [k \in {} |-> 0]
    /\ now = 0 /\ horizon = 0
    /\ open = [p \in Processes |-> FALSE] /\ doing = [p \in Processes |-> Ready]
    /\ seen = [p \in Processes |-> [k \in Keys |-> 0]]
    /\ behind = [p \in Processes |-> [k \in Keys |-> FALSE]]
    /\ dropped = [p \in Processes |-> {}]

CacheNext ==
    \/ \E p \in Processes : initialize(p)
    \/ \E p \in Processes \ Commands :
          \/ close(p) \/ clear(p) \/ ClearFails(p)
          \/ Write(p) \/ WriteFails(p) \/ checkAndEvict(p) \/ Evict(p) \/ EvictionFails(p)
          \/ \E k \in Keys : HitL1(p, k) \/ HitL2(p, k) \/ Miss(p, k) \/ set(p, k)
    \/ \E p \in Commands : statusCommand(p) \/ statsCommand(p) \/ clearCommand(p)
    \/ ExpireResponses

CacheSpec == CacheInit /\ [][CacheNext]_cacheVars

-----------------------------------------------------------------------------
(* Properties *)

\* What a process finds for a key never goes back to an older response than it found or
\* set before, through promotions, evictions at both levels, expiry and other processes' writes,
\* unless its own write to L2 failed or another process's write of an older response came late.
NoGoingBack == [][\A p \in Processes, k \in Keys :
    open'[p] => (seen'[p][k] >= seen[p][k] \/ behind[p][k] \/ ~open[p])]_cacheVars

\* A response that a process has cleared, in memory and in the table, does not come back to it:
\* no later hit of that process, from either level, serves it.
ClearedStaysCleared == \A p \in Processes : open[p] =>
    /\ {e.stamp : e \in Cached(p)} \intersect dropped[p] = {}
    /\ {l2[k] : k \in Rows} \intersect dropped[p] = {}

\* An eviction spares the 80 per cent it means to keep: it leaves that many responses that have
\* not expired, unless another process has deleted rows or rows have expired since it counted.
EvictionSparing == [][\A p \in Processes :
    (doing[p].at = "evicting" /\ l2' # l2 /\ doing' # doing /\ doing'[p] = Ready /\ count >= doing[p].of)
        => Cardinality({k \in DOMAIN l2' : l2'[k] > horizon}) >= Keep]_cacheVars
=============================================================================
