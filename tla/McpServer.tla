------------------------------ MODULE McpServer ------------------------------
(***************************************************************************)
(* mcp::McpServer::serve and handle_message (src/src/mcp/mcp_server.cpp)   *)
(* between two pipes: lines come in from a client, responses go out, and   *)
(* the tools that requests call may print lines of their own to the        *)
(* standard output the responses go to.                                    *)
(*                                                                         *)
(* A line is what the server tells apart: not JSON ("text"), empty, JSON   *)
(* that is no request ("event": a notification or a response), a request,  *)
(* or JSON with an id and a method that is not a string ("malformed").     *)
(*                                                                         *)
(* Bounds: Capacity lines fit in a pipe; the tools print MaxPrints lines.  *)
(***************************************************************************)
EXTENDS Integers, Sequences

CONSTANTS Ids, None, Tools, Unregistered, Capacity, MaxPrints

ASSUME ServerAssumption ==
  /\ None \notin Ids
  /\ Unregistered \notin Tools
  /\ Capacity \in Nat \ {0} /\ MaxPrints \in Nat

VARIABLES
  toServer, toClient,  \* the lines in the pipes
  closed,              \* the client has closed its ends
  serving,             \* where serve() is
  request, response,   \* handle_message()'s locals
  printed,             \* lines printed by tools so far
  received, handled    \* history: ids of the requests read; responses decided

server == << serving, request, response, printed, received, handled >>

-----------------------------------------------------------------------------
Methods == {"initialize", "tools/list", "tools/call", "other"}
Names   == Tools \cup {Unregistered}

Line(kind) == [kind |-> kind, id |-> None, method |-> "other", name |-> Unregistered]
Request(id, method, name) ==
  [kind |-> "request", id |-> id, method |-> method, name |-> name]
Requests == {Request(id, method, name) : id \in Ids, method \in Methods, name \in Names}
Lines == Requests \cup {Line(kind) : kind \in {"text", "empty", "event", "malformed"}}

\* What goes back: responses, and what tools print: not JSON, JSON that is no
\* response, or JSON with an id that is not a number.
Response(id, body) == [kind |-> "response", id |-> id, body |-> body]
Noise(kind) == [kind |-> kind, id |-> None, body |-> "none"]
Prints == {Noise(kind) : kind \in {"text", "event", "odd"}}
Bodies == {"result", "is_error", "error", "unprintable"}
Replies == {Response(id, body) : id \in Ids, body \in Bodies}

Room(pipe) == Len(pipe) < Capacity

\* How a tool ends, and the response that is built from it.  An unprintable
\* response holds text that json::dump() refuses (invalid UTF-8).
BodyOf == [value |-> "result", error |-> "is_error", std_exception |-> "error",
           unprintable |-> "unprintable"]

Decide(r) ==
  /\ response' = r
  /\ handled' = Append(handled, r)
  /\ serving' = "write"

-----------------------------------------------------------------------------
(* Ways this code could be wrong, for the mutation checks.                 *)

\* Whatever carries no request is answered too.
IgnoreNothing ==
  /\ serving = "getline" /\ toServer # << >>
  /\ Head(toServer).kind \in {"text", "empty", "event"}
  /\ toServer' = Tail(toServer)
  /\ response' = Response(Head(toServer).id, "error")
  /\ serving' = "write"
  /\ UNCHANGED << toClient, closed, request, printed, received, handled >>

\* A response that cannot be written is dropped.
WriteDropping ==
  /\ serving = "write" /\ ~closed
  /\ IF response.body = "unprintable"
     THEN serving' = "getline" /\ UNCHANGED toClient
     ELSE /\ Room(toClient)
          /\ toClient' = Append(toClient, response)
          /\ serving' = "getline"
  /\ UNCHANGED << toServer, closed, request, response, printed, received, handled >>

-----------------------------------------------------------------------------
ServerInit ==
  /\ toServer = << >>
  /\ toClient = << >>
  /\ closed = FALSE
  /\ serving = "getline"
  /\ request = Line("empty")
  /\ response = Noise("text")
  /\ printed = 0
  /\ received = << >>
  /\ handled = << >>

\* Empty lines, what is not JSON, and what is no request.
Ignore ==
  /\ serving = "getline" /\ toServer # << >>
  /\ Head(toServer).kind \in {"text", "empty", "event"}
  /\ toServer' = Tail(toServer)
  /\ UNCHANGED << toClient, closed, server >>

\* parse_request() throws, outside of handle_message()'s try.
Malformed ==
  /\ serving = "getline" /\ toServer # << >>
  /\ Head(toServer).kind = "malformed"
  /\ toServer' = Tail(toServer)
  /\ serving' = "exited"
  /\ UNCHANGED << toClient, closed, request, response, printed, received, handled >>

TakeRequest ==
  /\ serving = "getline" /\ toServer # << >>
  /\ Head(toServer).kind = "request"
  /\ request' = Head(toServer)
  /\ toServer' = Tail(toServer)
  /\ received' = Append(received, Head(toServer).id)

\* Requests that need no tool: initialize and tools/list succeed; another
\* method, an unknown tool, or a call without a name gets a JSON-RPC error.
Answer ==
  /\ TakeRequest
  /\ \/ /\ request'.method \in {"initialize", "tools/list"}
        /\ Decide(Response(request'.id, "result"))
     \/ /\ request'.method = "other" \/ request'.name \notin Tools
        /\ request'.method \in {"other", "tools/call"}
        /\ Decide(Response(request'.id, "error"))
  /\ UNCHANGED << toClient, closed, printed >>

CallTool ==
  /\ TakeRequest
  /\ request'.method = "tools/call" /\ request'.name \in Tools
  /\ serving' = "tool"
  /\ UNCHANGED << toClient, closed, response, printed, handled >>

ToolPrints(noise) ==
  /\ serving = "tool" /\ printed < MaxPrints
  /\ ~closed /\ Room(toClient)
  /\ toClient' = Append(toClient, noise)
  /\ printed' = printed + 1
  /\ UNCHANGED << toServer, closed, serving, request, response, received, handled >>

ToolEnds(ending) ==
  /\ serving = "tool"
  /\ Decide(Response(request.id, BodyOf[ending]))
  /\ UNCHANGED << toServer, toClient, closed, request, printed, received >>

\* Only std::exception is caught.
ToolThrowsOther ==
  /\ serving = "tool"
  /\ serving' = "exited"
  /\ UNCHANGED << toServer, toClient, closed, request, response, printed, received, handled >>

\* `out << response->dump()`: dump() may throw, out of serve().
Write ==
  /\ serving = "write" /\ ~closed
  /\ IF response.body = "unprintable"
     THEN serving' = "exited" /\ UNCHANGED toClient
     ELSE /\ Room(toClient)
          /\ toClient' = Append(toClient, response)
          /\ serving' = "getline"
  /\ UNCHANGED << toServer, closed, request, response, printed, received, handled >>

\* Nobody reads what is written any more: SIGPIPE.
WriteToNobody ==
  /\ serving = "write" /\ closed
  /\ serving' = "exited"
  /\ UNCHANGED << toServer, toClient, closed, request, response, printed, received, handled >>

Eof ==
  /\ serving = "getline" /\ toServer = << >> /\ closed
  /\ serving' = "exited"
  /\ UNCHANGED << toServer, toClient, closed, request, response, printed, received, handled >>

\* serve()'s own steps; a tool ends in the end.
Serve ==
  \/ Ignore \/ Malformed \/ Answer \/ CallTool
  \/ \E ending \in DOMAIN BodyOf : ToolEnds(ending)
  \/ ToolThrowsOther \/ Write \/ WriteToNobody \/ Eof

-----------------------------------------------------------------------------
ServerTypeOK ==
  /\ toServer \in Seq(Lines) /\ Len(toServer) <= Capacity
  /\ toClient \in Seq(Replies \cup Prints) /\ Len(toClient) <= Capacity
  /\ closed \in BOOLEAN
  /\ serving \in {"getline", "tool", "write", "exited"}
  /\ request \in Lines
  /\ response \in Replies \cup Prints
  /\ printed \in 0..MaxPrints
  /\ received \in Seq(Ids)
  /\ handled \in Seq(Replies)
=============================================================================
