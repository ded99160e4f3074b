------------------------------ MODULE McpSession ------------------------------
(***************************************************************************)
(* One mcp::McpClient over a StdioClientTransport (src/src/mcp/            *)
(* mcp_client.cpp, stdio_client_transport.cpp) and the McpServer it has    *)
(* spawned, over two pipes of bounded capacity.                            *)
(*                                                                         *)
(* Bound: the program makes the calls in Calls, numbered as McpClient      *)
(* numbers its requests; result and outcome record what became of them.    *)
(***************************************************************************)
EXTENDS McpServer

VARIABLES next_id,     \* McpClient::next_id_
          client,      \* where the call in progress is
          sending,     \* the request it sends
          outcome      \* what each call's caller has seen

vars == << toServer, toClient, closed, server, next_id, client, sending, outcome >>

ASSUME SessionAssumption == Ids \subseteq Nat \ {0} /\ \A n \in Ids : 1..n \subseteq Ids

Calls == Ids

\* Where a client is that is in a call.
InCall == {"sending", "writing", "waiting", "notifying"}

\* Outcomes, as in RemoteCalls.
NotMade == [how |-> "not_made", from |-> 0]
Pending == [how |-> "pending", from |-> 0]
Threw   == [how |-> "threw", from |-> 0]
Returned(c) == [how |-> "returned", from |-> c]

-----------------------------------------------------------------------------
Broken == serving = "exited"

EndsWith(how) ==
  /\ client' = "idle"
  /\ outcome' = [outcome EXCEPT ![sending.id] = how]

\* A plausible bug, for the mutation checks: any response is taken for the answer.
IsAnyResponse(m) == m.kind = "response"

\* is_response(message) && message.value("id", -1) == id.
IsAnswer(m) == m.kind = "response" /\ m.id = sending.id
Skipped(m)  == m.kind \in {"text", "event"} \/ (m.kind = "response" /\ ~IsAnswer(m))

ReadLine ==
  /\ client = "waiting" /\ toClient # << >>
  /\ toClient' = Tail(toClient)

-----------------------------------------------------------------------------
(* Ways this code could be wrong, for the mutation checks.                 *)

\* The end of the server's output is skipped like an empty line.
EofSkipped ==
  /\ client = "waiting"
  /\ toClient = << >> /\ Broken
  /\ UNCHANGED vars

-----------------------------------------------------------------------------
Init ==
  /\ ServerInit
  /\ next_id = 1
  /\ client = "idle"
  /\ sending = Line("empty")
  /\ outcome = [c \in Calls |-> NotMade]

\* initialize(), list_tools() or call_tool(): send_request() takes an id ...
Call(method, name) ==
  /\ client = "idle" /\ next_id \in Calls
  /\ sending' = Request(next_id, method, name)
  /\ client' = "sending"
  /\ outcome' = [outcome EXCEPT ![next_id] = Pending]
  /\ next_id' = next_id + 1
  /\ UNCHANGED << toServer, toClient, closed, server >>

\* ... and dump() may refuse the arguments.
DumpThrows ==
  /\ client = "sending" /\ sending.method = "tools/call"
  /\ EndsWith(Threw)
  /\ UNCHANGED << toServer, toClient, closed, server, next_id, sending >>

\* From here on the call is in write(2) until the pipe has room.
Dumped ==
  /\ client = "sending"
  /\ client' = "writing"
  /\ UNCHANGED << toServer, toClient, closed, server, next_id, sending, outcome >>

WriteRequest ==
  /\ client = "writing"
  /\ ~Broken /\ Room(toServer)
  /\ toServer' = Append(toServer, sending)
  /\ client' = "waiting"
  /\ UNCHANGED << toClient, closed, server, next_id, sending, outcome >>

\* Nobody reads the pipe: the client's process dies of SIGPIPE.
SendToNobody ==
  /\ client \in {"writing", "notifying"} /\ Broken
  /\ client' = "killed"
  /\ closed' = TRUE
  /\ UNCHANGED << toServer, toClient, server, next_id, sending, outcome >>

Skip ==
  /\ ReadLine
  /\ Skipped(Head(toClient))
  /\ UNCHANGED << toServer, closed, server, next_id, client, sending, outcome >>

\* message.value("id", -1) throws when the id is not a number.
OddId ==
  /\ ReadLine
  /\ Head(toClient).kind = "odd"
  /\ EndsWith(Threw)
  /\ UNCHANGED << toServer, closed, server, next_id, sending >>

\* A JSON-RPC error, and a tool's own isError, are thrown.
ErrorAnswer ==
  /\ ReadLine
  /\ IsAnswer(Head(toClient)) /\ Head(toClient).body \in {"error", "is_error"}
  /\ EndsWith(Threw)
  /\ UNCHANGED << toServer, closed, server, next_id, sending >>

ResultAnswer ==
  /\ ReadLine
  /\ IsAnswer(Head(toClient)) /\ Head(toClient).body = "result"
  /\ IF sending.method = "initialize"
     THEN client' = "notifying" /\ UNCHANGED outcome
     ELSE EndsWith(Returned(Head(toClient).id))
  /\ UNCHANGED << toServer, closed, server, next_id, sending >>

\* initialize() goes on with notifications/initialized.
WriteNotification ==
  /\ client = "notifying"
  /\ ~Broken /\ Room(toServer)
  /\ toServer' = Append(toServer, Line("event"))
  /\ EndsWith(Returned(sending.id))
  /\ UNCHANGED << toClient, closed, server, next_id, sending >>

ServerClosed ==
  /\ client = "waiting"
  /\ toClient = << >> /\ Broken
  /\ EndsWith(Threw)
  /\ UNCHANGED << toServer, toClient, closed, server, next_id, sending >>

\* The client is destroyed; see StdioTransport.
Destroy ==
  /\ client = "idle"
  /\ client' = "destroyed"
  /\ closed' = TRUE
  /\ UNCHANGED << toServer, toClient, server, next_id, sending, outcome >>

\* The server's process is killed, or crashes.
ServerDies ==
  /\ ~Broken
  /\ serving' = "exited"
  /\ UNCHANGED << toServer, toClient, closed, request, response, printed, received, handled,
                  next_id, client, sending, outcome >>

MakeCall == \E method \in Methods \ {"other"}, name \in Names : Call(method, name)

Proceed ==
  \/ DumpThrows \/ Dumped \/ WriteRequest \/ SendToNobody
  \/ Skip \/ OddId \/ ErrorAnswer \/ ResultAnswer \/ WriteNotification \/ ServerClosed

ServerSteps ==
  Serve /\ UNCHANGED << next_id, client, sending, outcome >>

ToolsPrint ==
  /\ \E noise \in Prints : ToolPrints(noise)
  /\ UNCHANGED << next_id, client, sending, outcome >>

Terminated == client \in {"killed", "destroyed"} /\ Broken /\ UNCHANGED vars

Next == MakeCall \/ Proceed \/ Destroy \/ ServerSteps \/ ToolsPrint \/ ServerDies \/ Terminated

Spec == Init /\ [][Next]_vars

\* The client's thread runs while it is in a call; the server runs, and tools end,
\* except that a tool that prints into a full pipe is held up.
MayBlock == serving = "tool" /\ ~closed /\ ~Room(toClient)
FairSpec == Spec /\ WF_vars(Proceed) /\ WF_vars(~MayBlock /\ ServerSteps)

-----------------------------------------------------------------------------
TypeOK ==
  /\ ServerTypeOK
  /\ next_id \in Nat \ {0}
  /\ client \in InCall \cup {"idle", "killed", "destroyed"}
  /\ sending \in Lines
  /\ outcome \in [Calls -> [how : {"not_made", "pending", "returned", "threw"}, from : Ids \cup {0}]]

\* After a call that returned, nothing is left over: what earlier calls left in
\* the pipe to the client has been skipped, and the next call starts from two
\* pipes that hold at most notifications (stdio_client_transport.cpp:18-46).
InSync ==
  client = "idle" /\ next_id > 1 /\ outcome[next_id - 1].how = "returned" =>
    /\ toClient = << >>
    /\ serving \notin {"tool", "write"}
    /\ \A i \in 1..Len(toServer) : toServer[i].kind = "event"

\* Client and server wait for each other: both write, and both pipes are full.  It
\* takes calls that threw while their requests were still on their way.
Stuck ==
  /\ client = "writing" /\ ~Room(toServer)
  /\ sending.id - 1 \in Calls /\ outcome[sending.id - 1] = Threw
  /\ ~Room(toClient)
  /\ serving = "tool" \/ (serving = "write" /\ response.body # "unprintable")

\* Every call ends, whenever the server dies, unless the two come to wait for each
\* other: write_line() blocks, with no timeout, while nobody reads the server's
\* output (stdio_transport.cpp:101-114), and only the server's death ends that.  A
\* call that does not follow one that threw always ends.
CallEnds == client \in InCall ~> client \in {"idle", "killed"} \/ Stuck

\* The calls are carried out as RemoteCalls promises.  A response that json::dump()
\* refuses, which the server dies of, counts as a failure.
ResultOf(c) ==
  LET mine == {i \in 1..Len(handled) : handled[i].id = c}
  IN  IF mine = {} THEN "none"
      ELSE IF \E i \in mine : handled[i].body = "result" THEN "result" ELSE "failure"

Remote == INSTANCE RemoteCalls WITH result <- [c \in Calls |-> ResultOf(c)]
RemoteCallsSpec == Remote!Spec
=============================================================================
