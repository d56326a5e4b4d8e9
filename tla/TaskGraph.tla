------------------------------ MODULE TaskGraph ------------------------------
(***************************************************************************)
(* What the execution of a set of agents that depend on each other         *)
(* promises, whatever the order, the batches, the failures and the         *)
(* cancellation: an agent is started at most once and only when all it     *)
(* depends on has completed, it ends once, and what was given up is never  *)
(* taken up again.  ParallelExecution implements it.                       *)
(***************************************************************************)
CONSTANTS Agents, Names

VARIABLES
    deps,     \* the agents an agent depends on, known or not
    status    \* of an agent

vars == <<deps, status>>

Status == {"pending", "running", "completed", "failed", "skipped"}

Init ==
    /\ deps \in [Agents -> SUBSET Names]
    /\ status = [a \in Agents |-> "pending"]

Ready(a) == \A d \in deps[a] : d \in Agents /\ status[d] = "completed"

\* How the status of one agent may change in a step.
May(a, s) ==
    \/ s = status[a]
    \/ status[a] = "pending" /\ s = "running" /\ Ready(a)
    \/ status[a] = "pending" /\ s = "skipped"
    \/ status[a] = "running" /\ s \in {"completed", "failed"}

Advance ==
    /\ status' \in [Agents -> Status]
    /\ \A a \in Agents : May(a, status'[a])
    /\ UNCHANGED deps

Spec == Init /\ [][Advance]_vars
=============================================================================
