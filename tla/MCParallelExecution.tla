------------------------- MODULE MCParallelExecution -------------------------
(* ParallelExecution for TLC: graphs with few dependencies, of which one     *)
(* may be unknown.                                                           *)
EXTENDS ParallelExecution, FiniteSetsExt

CONSTANT MaxEdges   \* bound: dependencies declared by all agents together

Edges == {<<a, d>> \in Agents \X Names : a # d}

\* Sets of at most that many edges.
FewEdges == UNION {kSubset(n, Edges) : n \in 0..MaxEdges}

SomeGraphs ==
    {[a \in Agents |-> {d \in Names : <<a, d>> \in E}] : E \in FewEdges}
=============================================================================
