------------------------------- MODULE TTLCache -------------------------------
(***************************************************************************)
(* The cache in memory of src/core/cache.ts: entries with a time to live,  *)
(* a limit on their number and one on their total size, evicted in the     *)
(* order of last use.  A cache is a record of its entries, in the order of *)
(* the Map that holds them, and of the total it keeps of their sizes.      *)
(***************************************************************************)
EXTENDS Integers, Sequences, FiniteSets, Subsequences

CONSTANTS
    MaxEntries,     \* config.maxEntries
    MaxSize         \* config.maxSize; 0: no limit

Empty == [entries |-> <<>>, total |-> 0]

At(c, k) == {i \in DOMAIN c.entries : c.entries[i].key = k}
Fresh(c, k) == \E i \in At(c, k) : c.entries[i].fresh
\* The size of some entries is the number of the units that they consist of.
Units(s) == UNION {{i} \X (1 .. s[i].size) : i \in DOMAIN s}
SizeOf(s) == Cardinality(Units(s))

Others(c, k) == Only(c.entries, DOMAIN c.entries \ At(c, k))
Replaced(c, k) == SizeOf(Only(c.entries, At(c, k)))

\* delete: the entry and its size go.
Delete(c, k) == [entries |-> Others(c, k), total |-> c.total - Replaced(c, k)]

\* get: an entry that is still fresh is moved to the end, one that has expired is deleted.
Get(c, k) == IF Fresh(c, k) THEN [c EXCEPT !.entries = Others(c, k) \o Only(@, At(c, k))] ELSE Delete(c, k)

\* How many entries, the oldest first, go before one of the given size comes.  total is what is left of the total when
\* the entry to be replaced no longer counts.
Evictions(s, total, size) ==
    LET Room(n) == /\ Len(s) - n < MaxEntries \/ n = Len(s)
                   /\ MaxSize = 0 \/ n = Len(s) \/ total - SizeOf(SubSeq(s, 1, n)) + size <= MaxSize
    IN CHOOSE n \in 0 .. Len(s) : Room(n) /\ \A j \in 0 .. n - 1 : ~Room(j)

TooLarge(size) == MaxSize > 0 /\ size > MaxSize
Evicted(c, k, size) == Evictions(c.entries, c.total - Replaced(c, k), size)

\* Mutant: the size of the entry that is replaced stays in the total.
SetAdding(c, k, size) ==
    LET gone == SubSeq(c.entries, 1, Evicted(c, k, size))
        kept == SubSeq(c.entries, Len(gone) + 1, Len(c.entries))
        new == [key |-> k, size |-> size, fresh |-> TRUE]
    IN IF TooLarge(size) THEN c
       ELSE [entries |-> IF \E i \in DOMAIN kept : kept[i].key = k
                         THEN [i \in DOMAIN kept |-> IF kept[i].key = k THEN new ELSE kept[i]]
                         ELSE Append(kept, new),
             total |-> c.total - SizeOf(gone) + size]

\* set: the size of the entry that is replaced is taken off the total, but the entry stays in the map, where the
\* eviction may take it, and its size again.  An entry that stays keeps its place in the order.
Set(c, k, size) ==
    LET gone == SubSeq(c.entries, 1, Evicted(c, k, size))
        kept == SubSeq(c.entries, Len(gone) + 1, Len(c.entries))
        new == [key |-> k, size |-> size, fresh |-> TRUE]
    IN IF TooLarge(size) THEN c
       ELSE [entries |-> IF \E i \in DOMAIN kept : kept[i].key = k
                         THEN [i \in DOMAIN kept |-> IF kept[i].key = k THEN new ELSE kept[i]]
                         ELSE Append(kept, new),
             total |-> c.total - Replaced(c, k) - SizeOf(gone) + size]

\* What the total falls short of by this set: the size of an entry that its own replacement evicted.
Shortfall(c, k, size) ==
    IF ~TooLarge(size) /\ \E i \in At(c, k) : i <= Evicted(c, k, size) THEN Replaced(c, k) ELSE 0

\* The time of an entry is over ...
Expire(c, k) == [c EXCEPT !.entries = [i \in DOMAIN @ |-> IF @[i].key = k THEN [@[i] EXCEPT !.fresh = FALSE] ELSE @[i]]]
\* ... and the timer deletes it, if no get has.
Cleanup(c) == LET live == {i \in DOMAIN c.entries : c.entries[i].fresh}
              IN [entries |-> Only(c.entries, live), total |-> c.total - SizeOf(Only(c.entries, DOMAIN c.entries \ live))]
=============================================================================
