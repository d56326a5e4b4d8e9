----------------------------- MODULE Subsequences -----------------------------
(* The elements of a sequence at some places, in their order: what a loop that skips the others collects. *)
EXTENDS Integers, Sequences

\* f lists the places I from the first to the last.
Ascending(I, f) == /\ \A i \in I : \E j \in DOMAIN f : f[j] = i
                   /\ \A j, k \in DOMAIN f : j < k => f[j] < f[k]

Only(s, I) == LET f == CHOOSE f \in UNION {[1 .. n -> I] : n \in 0 .. Len(s)} : Ascending(I, f)
              IN [j \in DOMAIN f |-> s[f[j]]]
===============================================================================
