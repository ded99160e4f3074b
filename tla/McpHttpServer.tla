---------------------------- MODULE McpHttpServer ----------------------------
(***************************************************************************)
(* mcp::McpHttpServer (src/src/mcp/mcp_http_server.cpp): the listening     *)
(* socket, the thread that accepts and serves one connection at a time,    *)
(* and the destructor that stops it.  A post is a connection with the one  *)
(* request it carries; whoever connects is left to the module that uses    *)
(* this one.                                                               *)
(*                                                                         *)
(* Of a request only what run() tells apart is kept: its Origin, its path, *)
(* its method and its body ("unreadable" has no valid length, "malformed"  *)
(* is JSON with an id and a method that is no string, "plain" needs no     *)
(* tool).  Bound: the kernel holds Backlog connections (listen(fd, 8)).    *)
(***************************************************************************)
EXTENDS Integers, Sequences, FiniteSets

CONSTANTS Posts, Backlog

ASSUME HttpAssumption == Posts # {} /\ Backlog \in Nat \ {0}

VARIABLES
  backlog,          \* the connections the kernel holds for accept()
  conn,             \* each connection, as the server's side sees it
  message,          \* what each client is sending
  got,              \* how much of it has arrived
  hung,             \* the client is gone, or the network between
  answer,           \* the complete response on its way to each client
  serving, at,      \* where run() is, and with which connection
  response,         \* what it is about to write
  stop, destructor, \* stop_, and where the destructor is
  handled           \* history: the messages that were carried out

sockets == << backlog, conn, message, got, hung >>
thread == << serving, at, response >>
httpServer == << sockets, answer, thread, stop, destructor, handled >>

-----------------------------------------------------------------------------
Bodies == {"unreadable", "garbage", "event", "malformed", "plain", "tool"}
Messages == [origin : {"local", "foreign"}, path : {"ours", "other"},
             method : {"POST", "GET"}, body : Bodies]
Nothing == [origin |-> "local", path |-> "ours", method |-> "GET", body |-> "garbage"]

Response(status, body) == [status |-> status, body |-> body]
NoResponse == Response(0, "none")

Listening == destructor # "returned" /\ serving # "aborted"
Room == Len(backlog) < Backlog

\* A client connects and begins to send; it waits for room in the backlog.
Connect(p, m) ==
  /\ Listening /\ Room /\ conn[p] = "none"
  /\ backlog' = Append(backlog, p)
  /\ conn' = [conn EXCEPT ![p] = "queued"]
  /\ message' = [message EXCEPT ![p] = m]
  /\ UNCHANGED << got, hung >>

\* The tests run() makes, in its order.
Refusal(m) ==
  CASE m.origin = "foreign" -> 403
    [] m.origin = "local" /\ m.path = "other" -> 404
    [] m.origin = "local" /\ m.path = "ours" /\ m.method = "GET" -> 405
    [] OTHER -> IF m.body = "garbage" THEN 400 ELSE 0

\* The process is killed: its sockets are closed.
Abort ==
  /\ serving' = "aborted"
  /\ backlog' = << >>
  /\ conn' = [p \in Posts |-> IF conn[p] = "none" THEN "none" ELSE "closed"]

Goto(place) == serving' = place
CarriedOut(body) == handled' = Append(handled, [post |-> at, body |-> body])

-----------------------------------------------------------------------------
(* Ways this code could be wrong, for the mutation checks.                 *)

\* A poll that times out is not the end of the round.
PollForEver == serving = "poll" /\ backlog = << >> /\ UNCHANGED httpServer

\* The listening socket is not closed.
DestroyedOpen ==
  /\ destructor = "joining" /\ serving = "done"
  /\ destructor' = "returned"
  /\ UNCHANGED << sockets, answer, thread, stop, handled >>

\* A result that cannot be printed is answered like a body that cannot be parsed.
ToolEndsBadly(body) ==
  /\ serving = "tool"
  /\ CarriedOut(body)
  /\ response' = IF body = "unprintable" THEN Response(400, "none") ELSE Response(200, body)
  /\ Goto("send")
  /\ UNCHANGED << sockets, answer, at, stop, destructor >>

-----------------------------------------------------------------------------
HttpInit ==
  /\ backlog = << >>
  /\ conn = [p \in Posts |-> "none"]
  /\ message = [p \in Posts |-> Nothing]
  /\ got = [p \in Posts |-> "part"]
  /\ hung = [p \in Posts |-> FALSE]
  /\ answer = [p \in Posts |-> NoResponse]
  /\ serving = "loop"
  /\ at = CHOOSE p \in Posts : TRUE
  /\ response = NoResponse
  /\ stop = FALSE
  /\ destructor = "none"
  /\ handled = << >>

(* The destructor. *)

Stop ==
  /\ destructor = "none" /\ serving # "aborted"
  /\ stop' = TRUE
  /\ destructor' = "joining"
  /\ UNCHANGED << sockets, answer, thread, handled >>

\* join() returns, and the listening socket is closed: what was queued is reset.
Destroyed ==
  /\ destructor = "joining" /\ serving = "done"
  /\ destructor' = "returned"
  /\ backlog' = << >>
  /\ conn' = [p \in Posts |-> IF conn[p] = "queued" THEN "closed" ELSE conn[p]]
  /\ UNCHANGED << message, got, hung, answer, thread, stop, handled >>

(* run(). *)

CheckStop ==
  /\ serving = "loop"
  /\ Goto(IF stop THEN "done" ELSE "poll")
  /\ UNCHANGED << sockets, answer, at, response, stop, destructor, handled >>

PollTimesOut ==
  /\ serving = "poll" /\ backlog = << >>
  /\ Goto("loop")
  /\ UNCHANGED << sockets, answer, at, response, stop, destructor, handled >>

Accept ==
  /\ serving = "poll" /\ backlog # << >>
  /\ at' = Head(backlog)
  /\ backlog' = Tail(backlog)
  /\ conn' = [conn EXCEPT ![Head(backlog)] = "serving"]
  /\ Goto("recv")
  /\ UNCHANGED << message, got, hung, answer, response, stop, destructor, handled >>

\* read_raw_request() throws: end of file, or a length that is no number.
RecvThrows ==
  /\ serving = "recv"
  /\ \/ hung[at] /\ got[at] = "part"
     \/ got[at] = "whole" /\ message[at].body = "unreadable"
  /\ Goto("close")
  /\ UNCHANGED << sockets, answer, at, response, stop, destructor, handled >>

Received ==
  /\ serving = "recv"
  /\ got[at] = "whole" /\ message[at].body # "unreadable"
  /\ Goto("handle")
  /\ UNCHANGED << sockets, answer, at, response, stop, destructor, handled >>

Refuse ==
  /\ serving = "handle" /\ Refusal(message[at]) # 0
  /\ response' = Response(Refusal(message[at]), "none")
  /\ Goto("send")
  /\ UNCHANGED << sockets, answer, at, stop, destructor, handled >>

\* handle_message(), as in McpServer; parse_request()'s exception is caught here.
Handle ==
  /\ serving = "handle" /\ Refusal(message[at]) = 0
  /\ CASE message[at].body = "event" ->
            response' = Response(202, "none") /\ Goto("send") /\ UNCHANGED handled
       [] message[at].body = "malformed" ->
            Goto("close") /\ UNCHANGED << response, handled >>
       [] message[at].body = "plain" ->
            \E body \in {"result", "error"} :
              CarriedOut(body) /\ response' = Response(200, body) /\ Goto("send")
       [] message[at].body = "tool" ->
            Goto("tool") /\ UNCHANGED << response, handled >>
  /\ UNCHANGED << sockets, answer, at, stop, destructor >>

\* The tool is over (an isError result is an "error" here); response->dump() throws if there is text in it that is not
\* UTF-8, and the connection is dropped.
ToolEnds(body) ==
  /\ serving = "tool"
  /\ CarriedOut(body)
  /\ IF body = "unprintable" THEN Goto("close") /\ UNCHANGED response
     ELSE Goto("send") /\ response' = Response(200, body)
  /\ UNCHANGED << sockets, answer, at, stop, destructor >>

\* What is no std::exception leaves the thread's function.
ToolThrowsOther ==
  /\ serving = "tool"
  /\ Abort
  /\ UNCHANGED << message, got, hung, answer, at, response, stop, destructor, handled >>

\* send() takes the response, or a part of it, or fails.
Send ==
  /\ serving = "send"
  /\ \/ answer' = [answer EXCEPT ![at] = response] /\ Goto("close")
     \/ UNCHANGED answer /\ Goto("sending")
     \/ hung[at] /\ UNCHANGED answer /\ Goto("close")
  /\ UNCHANGED << sockets, at, response, stop, destructor, handled >>

SendRest ==
  /\ serving = "sending" /\ ~hung[at]
  /\ answer' = [answer EXCEPT ![at] = response]
  /\ Goto("close")
  /\ UNCHANGED << sockets, at, response, stop, destructor, handled >>

\* The client has gone in the meantime: send() without MSG_NOSIGNAL raises
\* SIGPIPE, if the connection's reset has not been reported before.
SendRestToNobody ==
  /\ serving = "sending" /\ hung[at]
  /\ \/ Abort
     \/ Goto("close") /\ UNCHANGED << backlog, conn >>
  /\ UNCHANGED << message, got, hung, answer, at, response, stop, destructor, handled >>

\* close(): the kernel forgets the connection, and the round's locals are gone.
CloseConnection ==
  /\ serving = "close"
  /\ conn' = [conn EXCEPT ![at] = "closed"]
  /\ got' = [got EXCEPT ![at] = "part"]
  /\ hung' = [hung EXCEPT ![at] = FALSE]
  /\ response' = NoResponse
  /\ Goto("loop")
  /\ UNCHANGED << backlog, message, answer, at, stop, destructor, handled >>

Run ==
  \/ CheckStop \/ PollTimesOut \/ Accept \/ RecvThrows \/ Received
  \/ Refuse \/ Handle \/ ToolThrowsOther
  \/ \E body \in {"result", "error", "unprintable"} : ToolEnds(body)
  \/ Send \/ SendRest \/ SendRestToNobody \/ CloseConnection

-----------------------------------------------------------------------------
Results == {"none", "result", "error", "unprintable"}
ResponseType == [status : {0, 200, 202, 400, 403, 404, 405}, body : Results]

HttpTypeOK ==
  /\ backlog \in Seq({p \in Posts : conn[p] = "queued"})
  /\ conn \in [Posts -> {"none", "queued", "serving", "closed"}]
  /\ message \in [Posts -> Messages]
  /\ got \in [Posts -> {"part", "whole"}]
  /\ hung \in [Posts -> BOOLEAN]
  /\ answer \in [Posts -> ResponseType]
  /\ serving \in {"loop", "poll", "recv", "handle", "tool", "send", "sending", "close",
                  "done", "aborted"}
  /\ at \in Posts
  /\ response \in ResponseType
  /\ stop \in BOOLEAN
  /\ destructor \in {"none", "joining", "returned"}
  /\ handled \in Seq([post : Posts, body : Results])
=============================================================================
