----------------------------- MODULE MCMcpServer -----------------------------
(* Clients that wait for nothing: requests that overlap, notifications, refusals, wide characters, bad headers. *)
EXTENDS McpServer

Plainly(method) == [method |-> method, tool |-> "none", id |-> TRUE, frame |-> "good", wide |-> FALSE]
Call(tool) == [Plainly("tools/call") EXCEPT !.tool = tool]
Hello == Plainly("initialize")
Notice == [Plainly("notifications/initialized") EXCEPT !.id = FALSE]
List == Plainly("tools/list")
Wide == [Call("run_agent") EXCEPT !.wide = TRUE]

MCScripts == {
    <<Hello, List, Call("session_complete"), Call("run_agent")>>,
    <<Hello, Hello, Call("session_create"), Call("session_status")>>,
    <<Hello, Notice, Call("unknown"), Call("invalid")>>,
    <<List, Wide, Hello, Wide>>,
    <<[List EXCEPT !.frame = "no length"], Hello, List, Plainly("ping")>>,
    <<Hello, [List EXCEPT !.frame = "invalid length"], List, List>> }
=============================================================================
