------------------------------ MODULE MCMemory ------------------------------
(***************************************************************************)
(* A server with two callers and an `ax memory` command over one table.    *)
(* The server holds at most 2 entries, cleans up at 2 down to 1, and makes *)
(* room for one at the limit; the command never cleans up.                 *)
(***************************************************************************)
EXTENDS Memory

CONSTANTS server, command, tool, agent, cli, x, broken

MCProcesses == {server, command}
MCClients == {tool, agent, cli}
MCToolClients == {tool}
MCLibraryClients == {agent, cli}
MCCommandClients == {cli}
MCProcessOf == [c \in MCClients |-> IF c = cli THEN command ELSE server]
MCLimit == [p \in MCProcesses |-> IF p = server THEN 2 ELSE 3]
MCHeadroom == [p \in MCProcesses |-> IF p = server THEN 1 ELSE 0]
MCTriggerAt == [p \in MCProcesses |-> IF p = server THEN 2 ELSE 3]
MCTargetAt == [p \in MCProcesses |-> IF p = server THEN 1 ELSE 2]
MCContents == {x}
MCStrategy == [p \in MCProcesses |-> "hybrid"]
MCHashOf == [content \in MCContents |-> 1]
MCFiles == {[kind |-> "ok", entries |-> <<x, broken>>], [kind |-> "unsupported", entries |-> <<>>]}
=============================================================================
