----------------------------- MODULE MCDelegation -----------------------------
(* Delegation with small values. *)
EXTENDS Delegation
CONSTANTS cto, web, api, ops

\* cto and web depend on each other: together they cannot be run, alone not started.
SomeDeps == (cto :> {web}) @@ (web :> {cto}) @@ (api :> {}) @@ (ops :> {})
SomeLimits == (cto :> 3) @@ (web :> 1) @@ (api :> 0) @@ (ops :> 2)

\* The profile of api gives the name of another agent.
SomeNames == [a \in Agents |-> IF a = api THEN web ELSE a]
===============================================================================
