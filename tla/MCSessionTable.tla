--------------------------- MODULE MCSessionTable ---------------------------
(* SessionTable for TLC: sessions and agents are interchangeable.          *)
EXTENDS SessionTable, TLC

Symmetry == Permutations(Ids) \cup Permutations(Agents)
=============================================================================
