------------------------------ MODULE McpServer ------------------------------
(***************************************************************************)
(* The MCP server (src/mcp/server.ts): JSON-RPC over stdin and stdout with *)
(* Content-Length framing.  Each chunk of input starts a run of the data   *)
(* handler, all of them over one buffer: a run takes messages out of the   *)
(* buffer and waits for each request to be handled, while the next chunk   *)
(* starts another run.  The services behind the tools are made by the      *)
(* first initialize request; others that come meanwhile wait for it.       *)
(*                                                                         *)
(* The input is a sequence of units: of each message a header and a body   *)
(* of two characters.  A chunk may end within the second character of a    *)
(* body, if that is not an ASCII character; each part is then decoded to   *)
(* a replacement character of its own, and the body becomes longer.        *)
(***************************************************************************)
EXTENDS Integers, Sequences, FiniteSets

CONSTANTS
    Scripts,    \* what clients send: sequences of messages
    MaxMessages     \* bound: their length

ASSUME ScriptsAssumption ==
    /\ Scripts \subseteq Seq([method : STRING, tool : STRING, id : BOOLEAN, frame : STRING, wide : BOOLEAN])
    /\ \A s \in Scripts : Len(s) <= MaxMessages

VARIABLES
    script,         \* the messages of this client
    sent,           \* how many of them it has sent
    pipe,           \* units on the way
    buffer,         \* units received and not taken yet
    contentLength,  \* the message whose header has been taken, 0: none
    initialization, \* initializationPromise: "none", "running", "failed" or "done" (initialized)
    working,        \* the requests that runs of the handler wait for, with their stages
    alive,
    responses,      \* what has been written, in order
    started,        \* history: the messages whose requests have been started, in order
    unframed,       \* history: a message without a usable Content-Length, or a cut character, has come
    initializations,\* history: calls of initializeServices
    greeted         \* history: the requests started after a successful answer to initialize

vars == <<script, sent, pipe, buffer, contentLength, initialization, working, alive, responses, started, unframed,
          initializations, greeted>>
client == <<script, sent>>

Message(i) == script[i]
Waiting == {w.of : w \in working}

-----------------------------------------------------------------------------
(* Framing *)

Header(i) == [of |-> i, part |-> "header"]
Body(i) == <<[of |-> i, part |-> "first"], [of |-> i, part |-> "second"]>>
Units(i) == <<Header(i)>> \o Body(i)

\* The ends of the headers in what has been received.
HeaderEnds(b) == {k \in DOMAIN b : b[k].part = "header"}
\* What stands between two of them, a rest of a body say, joins the first line of the header that follows and hides it.
Plain(b, k) == k = 1 \/ b[k - 1].part = "header"
HasLength(b, k) == Plain(b, k) /\ Message(b[k].of).frame = "good"
BadLength(b, k) == Plain(b, k) /\ Message(b[k].of).frame = "invalid length"

From(b, k) == SubSeq(b, k, Len(b))
\* Headers without a length are skipped; one whose length is no number discards all that has been received.
TakeHeader(b) ==
    LET decisive == {k \in HeaderEnds(b) : HasLength(b, k) \/ BadLength(b, k)}
        first == {k \in decisive : \A j \in decisive : k <= j}
        last == {k \in HeaderEnds(b) : \A j \in HeaderEnds(b) : k >= j}
    IN IF first # {}
       THEN LET k == CHOOSE k \in first : TRUE
            IN IF HasLength(b, k) THEN [buffer |-> From(b, k + 1), length |-> b[k].of] ELSE [buffer |-> <<>>, length |-> 0]
       ELSE [buffer |-> From(b, 1 + IF last = {} THEN 0 ELSE CHOOSE k \in last : TRUE), length |-> 0]

\* Mutant: a message is not removed before its request is handled.
LoopRemovingLate(b, l) ==
    LET h == IF l = 0 THEN TakeHeader(b) ELSE [buffer |-> b, length |-> l]
        rest == From(h.buffer, 3)
    IN IF h.length = 0 \/ Len(h.buffer) < 2 THEN [buffer |-> h.buffer, length |-> h.length, request |-> 0, errors |-> 0]
       ELSE IF SubSeq(h.buffer, 1, 2) = Body(h.length)
       THEN [buffer |-> h.buffer, length |-> h.length, request |-> h.length, errors |-> 0]
       ELSE [buffer |-> TakeHeader(rest).buffer, length |-> TakeHeader(rest).length, request |-> 0, errors |-> 1]

\* The loop of the handler, up to a request or for want of input: what is left of the buffer, the length that is known,
\* the request, if any, and how many bodies were no JSON.  After such a body its rest hides the headers that follow.
Loop(b, l) ==
    LET h == IF l = 0 THEN TakeHeader(b) ELSE [buffer |-> b, length |-> l]
        rest == From(h.buffer, 3)
    IN IF h.length = 0 \/ Len(h.buffer) < 2 THEN [buffer |-> h.buffer, length |-> h.length, request |-> 0, errors |-> 0]
       ELSE IF SubSeq(h.buffer, 1, 2) = Body(h.length)
       THEN [buffer |-> rest, length |-> 0, request |-> h.length, errors |-> 0]
       ELSE [buffer |-> TakeHeader(rest).buffer, length |-> TakeHeader(rest).length, request |-> 0, errors |-> 1]

-----------------------------------------------------------------------------
(* handleRequest: what happens before the first await *)

\* The tools with their schemas are there, and the server is initialized, once the services have been made.
toolsRegistered == initialization = "done"

Stage(i, at, result) == [of |-> i, at |-> at, result |-> result]
Refused(i) == Stage(i, "answer", "not initialized")

\* Mutant: only the first initialize request waits for the services.
handleInitializeAtOnce(i) ==
    IF initialization = "none" THEN Stage(i, "initialize", "ok") ELSE Stage(i, "answer", "ok")

\* The first initialize request makes the services; the others wait for the same promise, also when it has failed.
handleInitialize(i) ==
    IF toolsRegistered THEN Stage(i, "answer", "ok") ELSE Stage(i, "initialize", "ok")

handleToolsList(i) == IF toolsRegistered THEN Stage(i, "answer", "ok") ELSE Refused(i)

\* A tool runs once the server is initialized and if its input has the fields and types of its schema.
validateToolInput(i) == Message(i).tool # "invalid"
handleToolCall(i) ==
    IF ~toolsRegistered THEN Refused(i)
    ELSE IF Message(i).tool = "unknown" THEN Stage(i, "answer", "tool not found")
    ELSE IF ~validateToolInput(i) THEN Stage(i, "answer", "invalid params")
    ELSE Stage(i, "tool", "ok")

handleRequest(i) ==
    CASE Message(i).method = "initialize" -> handleInitialize(i)
      [] Message(i).method = "tools/list" -> handleToolsList(i)
      [] Message(i).method = "tools/call" -> handleToolCall(i)
      [] OTHER -> Stage(i, "answer", "method not found")

\* A run of the handler takes up the buffer b after it has written what it had to: it starts the next request, or ends.
Proceed(b, others, written) ==
    LET turn == Loop(b, contentLength)
        i == turn.request
    IN /\ buffer' = turn.buffer /\ contentLength' = turn.length
       /\ responses' = written \o [k \in 1 .. turn.errors |-> [id |-> 0, result |-> "parse error"]]
       /\ IF i = 0
          THEN /\ working' = others
               /\ UNCHANGED <<initialization, initializations, started, greeted>>
          ELSE /\ working' = others \union {handleRequest(i)}
               /\ started' = Append(started, i)
               /\ greeted' = IF \E k \in DOMAIN written : written[k].id # 0 /\ written[k].result = "ok"
                                                          /\ Message(written[k].id).method = "initialize"
                             THEN greeted \union {i} ELSE greeted
               /\ IF Message(i).method = "initialize" /\ initialization = "none"
                  THEN initialization' = "running" /\ initializations' = initializations + 1
                  ELSE UNCHANGED <<initialization, initializations>>

-----------------------------------------------------------------------------
(* The client *)

Send == /\ alive /\ sent < Len(script)
        /\ sent' = sent + 1
        /\ pipe' = pipe \o Units(sent + 1)
        /\ UNCHANGED <<script, buffer, contentLength, initialization, working, alive, responses, started, unframed,
                       initializations, greeted>>

-----------------------------------------------------------------------------
(* The data handler *)

\* A chunk of whole units ...
Data(n) ==
    /\ alive /\ n \in 1 .. Len(pipe)
    /\ pipe' = From(pipe, n + 1)
    /\ Proceed(buffer \o SubSeq(pipe, 1, n), working, responses)
    /\ unframed' = (unframed \/ \E k \in 1 .. n : pipe[k].part = "header" /\ Message(pipe[k].of).frame # "good")
    /\ UNCHANGED <<client, alive>>

\* ... and one that ends within a character.
DataCut(n) ==
    /\ alive /\ n \in 1 .. Len(pipe)
    /\ pipe[n].part = "second" /\ Message(pipe[n].of).wide
    /\ pipe' = <<[pipe[n] EXCEPT !.part = "cut"]>> \o From(pipe, n + 1)
    /\ Proceed(buffer \o SubSeq(pipe, 1, n - 1) \o <<[pipe[n] EXCEPT !.part = "cut"]>>, working, responses)
    /\ unframed' = TRUE
    /\ UNCHANGED <<client, alive>>

\* Mutant: notifications are answered too.
writeResponseAlways(i, result) == Append(responses, [id |-> i, result |-> result])

\* The answer is written, unless the request is a notification, and the run goes on with the buffer.
writeResponse(i, result) == IF Message(i).id THEN Append(responses, [id |-> i, result |-> result]) ELSE responses

\* Mutant: the failure of the services is not reported to those that wait for them.
AnswerIfDone(w) ==
    /\ alive /\ w \in working
    /\ w.at = "answer" \/ (w.at = "initialize" /\ initialization = "done")
    /\ Proceed(buffer, working \ {w}, writeResponse(w.of, w.result))
    /\ UNCHANGED <<client, pipe, unframed, alive>>

Answer(w) ==
    /\ alive /\ w \in working
    /\ w.at = "answer" \/ (w.at = "initialize" /\ initialization \in {"done", "failed"})
    /\ Proceed(buffer, working \ {w},
               writeResponse(w.of, IF w.at = "initialize" /\ initialization = "failed" THEN "internal error" ELSE w.result))
    /\ UNCHANGED <<client, pipe, unframed, alive>>

\* A tool returns, when the manager it calls has answered ...
ToolReturns(w) ==
    /\ alive /\ w \in working /\ w.at = "tool"
    /\ Proceed(buffer, working \ {w},
               writeResponse(w.of, w.result))
    /\ UNCHANGED <<client, pipe, unframed, alive>>

\* ... or throws, which is an answer too.
ToolFails(w) ==
    /\ alive /\ w \in working /\ w.at = "tool"
    /\ Proceed(buffer, working \ {w}, writeResponse(w.of, "tool error"))
    /\ UNCHANGED <<client, pipe, unframed, alive>>

-----------------------------------------------------------------------------
(* The services, and the end *)

initializeServices(ok) ==
    /\ alive /\ initialization = "running"
    /\ initialization' = IF ok THEN "done" ELSE "failed"
    /\ UNCHANGED <<client, pipe, buffer, contentLength, working, alive, responses, started, unframed,
                   initializations, greeted>>

\* The input ends, or a signal comes: the process exits at once, whatever it is working on.
Exit == /\ alive /\ alive' = FALSE
        /\ UNCHANGED <<client, pipe, buffer, contentLength, initialization, working, responses, started, unframed,
                       initializations, greeted>>

-----------------------------------------------------------------------------
Init ==
    /\ script \in Scripts /\ sent = 0 /\ pipe = <<>>
    /\ buffer = <<>> /\ contentLength = 0
    /\ initialization = "none" /\ working = {}
    /\ alive = TRUE /\ responses = <<>>
    /\ started = <<>> /\ unframed = FALSE /\ initializations = 0 /\ greeted = {}

Receive == \E n \in 1 .. Len(pipe) : Data(n) \/ DataCut(n)
Work == \E w \in working : Answer(w) \/ ToolReturns(w) \/ ToolFails(w)

Next == Send \/ Receive \/ Work \/ (\E ok \in BOOLEAN : initializeServices(ok)) \/ Exit

\* Input that has come is read, requests that can be answered are, tools and the start of the services end.
Fairness ==
    /\ WF_vars(Receive)
    /\ WF_vars(\E ok \in BOOLEAN : initializeServices(ok))
    /\ \A i \in 1 .. MaxMessages : WF_vars(\E w \in working : w.of = i /\ (Answer(w) \/ ToolReturns(w) \/ ToolFails(w)))

Spec == Init /\ [][Next]_vars /\ Fairness

-----------------------------------------------------------------------------
(* Properties *)

\* Requests are started in the order in which they were sent, each of them once, however the input is cut into chunks and
\* however the runs of the handler overlap; and as long as the framing is right, none is left out.
StartedInOrder ==
    /\ \A j, k \in DOMAIN started : j < k => started[j] < started[k]
    /\ ~unframed => \A k \in DOMAIN started : started[k] = k

\* A request that has an id is answered at most once and a notification never; whatever has been started
\* is answered or still being worked on.
AnsweredOnce ==
    LET Answers(i) == Cardinality({k \in DOMAIN responses : responses[k].id = i})
    IN \A i \in 1 .. Len(script) :
          Answers(i) = IF Message(i).id /\ i \in {started[k] : k \in DOMAIN started} \ Waiting THEN 1 ELSE 0

\* The services are made once, however many initialize requests overlap, and after a successful answer to one
\* of them no request that is started is refused for want of it.
InitializedForAll ==
    /\ initializations <= 1
    /\ \A k \in DOMAIN responses : responses[k].id \in greeted => responses[k].result # "not initialized"

\* Every request with an id is answered in the end, if the process lives on and the framing is right.
Answered == \A i \in 1 .. MaxMessages :
    (i <= sent /\ Message(i).id) ~> (~alive \/ unframed \/ \E k \in DOMAIN responses : responses[k].id = i)
=============================================================================
