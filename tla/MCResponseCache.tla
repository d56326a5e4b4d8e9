--------------------------- MODULE MCResponseCache ---------------------------
(* Two processes that use the cache, alike, and an `ax cache` command. *)
EXTENDS ResponseCache, TLC

CONSTANTS p1, p2, ax

MCProcesses == {p1, p2, ax}
MCCommands == {ax}
MCSymmetry == Permutations({p1, p2}) \union Permutations(Keys)
=============================================================================
