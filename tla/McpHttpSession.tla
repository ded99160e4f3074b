---------------------------- MODULE McpHttpSession ----------------------------
(***************************************************************************)
(* One mcp::McpClient over an HttpClientTransport (src/src/mcp/            *)
(* mcp_client.cpp, http_client_transport.cpp) and an McpHttpServer, which  *)
(* strangers also connect to.  Each request and each notification of the   *)
(* client is a connection of its own.                                      *)
(*                                                                         *)
(* Bound: the client makes the calls in Calls, numbered as McpClient does. *)
(***************************************************************************)
EXTENDS McpHttpServer

CONSTANTS Calls,             \* 1..n
          Program,           \* what the program may call, for each of them
          Strangers,         \* numbers of the strangers' connections
          StrangersMessages  \* what they may send

VARIABLES next_id,     \* McpClient::next_id_
          client,      \* "idle", "sending", or the kind of post it waits for
          doing,       \* what the call in progress is
          outcome      \* what each call's caller has seen

vars == << httpServer, next_id, client, doing, outcome >>

Post(as, n) == [as |-> as, n |-> n]
SessionPosts == {Post(as, c) : as \in {"request", "notification"}, c \in Calls}
                  \cup {Post("stranger", s) : s \in Strangers}

ASSUME SessionAssumption ==
  /\ Calls \subseteq Nat \ {0} /\ \A n \in Calls : 1..n \subseteq Calls
  /\ Program \in [Calls -> SUBSET {"initialize", "list_tools", "call_tool"}]
  /\ Posts = SessionPosts
  /\ StrangersMessages \subseteq Messages

\* Outcomes, as in RemoteCalls.
NotMade == [how |-> "not_made", from |-> 0]
Pending == [how |-> "pending", from |-> 0]
Threw   == [how |-> "threw", from |-> 0]
Returned(c) == [how |-> "returned", from |-> c]

-----------------------------------------------------------------------------
Current == next_id - 1
Mine == Post(client, Current)
Body(what) == IF what = "call_tool" THEN "tool" ELSE "plain"
OurMessage(body) == [origin |-> "local", path |-> "ours", method |-> "POST", body |-> body]

EndsWith(how) ==
  /\ client' = "idle"
  /\ outcome' = [outcome EXCEPT ![Current] = how]

-----------------------------------------------------------------------------
(* Ways this code could be wrong, for the mutation checks.                 *)

\* Only an HTTP status that tells of an error is taken for one.
AnsweredUnlessRefused ==
  /\ client = "request" /\ conn[Mine] = "closed"
  /\ IF answer[Mine].status < 300 /\ answer[Mine].body # "error"
     THEN EndsWith(Returned(Current))
     ELSE EndsWith(Threw)
  /\ UNCHANGED << httpServer, next_id, doing >>

-----------------------------------------------------------------------------
Init ==
  /\ HttpInit
  /\ next_id = 1
  /\ client = "idle"
  /\ doing = "list_tools"
  /\ outcome = [c \in Calls |-> NotMade]

\* initialize(), list_tools() or call_tool(): send_request() takes an id ...
Call(what) ==
  /\ client = "idle" /\ next_id \in Calls /\ what \in Program[next_id]
  /\ next_id' = next_id + 1
  /\ doing' = what
  /\ client' = "sending"
  /\ outcome' = [outcome EXCEPT ![next_id] = Pending]
  /\ UNCHANGED httpServer

\* ... posts the request ...
PostRequest ==
  /\ client = "sending"
  /\ Connect(Post("request", Current), OurMessage(Body(doing)))
  /\ client' = "request"
  /\ UNCHANGED << answer, thread, stop, destructor, handled, next_id, doing, outcome >>

\* ... unless dump() refuses the arguments, or nobody listens or the backlog stays
\* full (status 0).
RequestNotSent ==
  /\ client = "sending"
  /\ doing = "call_tool" \/ ~Listening \/ ~Room
  /\ EndsWith(Threw)
  /\ UNCHANGED << httpServer, next_id, doing >>

\* The response is complete, or the connection is closed without one: status 0,
\* or a body that cannot be parsed.
RequestAnswered ==
  /\ client = "request" /\ conn[Mine] = "closed"
  /\ IF answer[Mine].status = 200 /\ answer[Mine].body = "result"
     THEN /\ doing # "initialize"
          /\ EndsWith(Returned(Current))
     ELSE EndsWith(Threw)
  /\ UNCHANGED << httpServer, next_id, doing >>

\* initialize() goes on with notifications/initialized, to whoever listens.
PostNotification ==
  /\ client = "request" /\ conn[Mine] = "closed"
  /\ answer[Mine].status = 200 /\ answer[Mine].body = "result"
  /\ doing = "initialize"
  /\ \/ /\ ~Listening \/ ~Room
        /\ EndsWith(Threw)
        /\ UNCHANGED sockets
     \/ /\ Connect(Post("notification", Current), OurMessage("event"))
        /\ client' = "notification"
        /\ UNCHANGED outcome
  /\ UNCHANGED << answer, thread, stop, destructor, handled, next_id, doing >>

NotificationAnswered ==
  /\ client = "notification" /\ conn[Mine] = "closed"
  /\ EndsWith(IF answer[Mine].status = 202 THEN Returned(Current) ELSE Threw)
  /\ UNCHANGED << httpServer, next_id, doing >>

\* The connection is lost, for both sides.
ConnectionLost ==
  /\ client \in {"request", "notification"} /\ conn[Mine] # "closed"
  /\ hung' = [hung EXCEPT ![Mine] = TRUE]
  /\ EndsWith(Threw)
  /\ UNCHANGED << backlog, conn, message, got, answer, thread, stop, destructor, handled,
                  next_id, doing >>

(* The network, and the strangers. *)

Arrives(p) ==
  /\ conn[p] \in {"queued", "serving"} /\ ~hung[p] /\ got[p] = "part"
  /\ got' = [got EXCEPT ![p] = "whole"]
  /\ UNCHANGED << backlog, conn, message, hung, answer, thread, stop, destructor, handled,
                  next_id, client, doing, outcome >>

StrangerConnects(s, m) ==
  /\ Connect(Post("stranger", s), m)
  /\ UNCHANGED << answer, thread, stop, destructor, handled, next_id, client, doing, outcome >>

StrangerLeaves(s) ==
  /\ conn[Post("stranger", s)] \in {"queued", "serving"} /\ ~hung[Post("stranger", s)]
  /\ hung' = [hung EXCEPT ![Post("stranger", s)] = TRUE]
  /\ UNCHANGED << backlog, conn, message, got, answer, thread, stop, destructor, handled,
                  next_id, client, doing, outcome >>

Server(action) == action /\ UNCHANGED << next_id, client, doing, outcome >>

MakeCall == \E what \in {"initialize", "list_tools", "call_tool"} : Call(what)
Proceed ==
  \/ PostRequest \/ RequestNotSent \/ RequestAnswered \/ PostNotification
  \/ NotificationAnswered
Visit == \E s \in Strangers : StrangerLeaves(s) \/ \E m \in StrangersMessages : StrangerConnects(s, m)

Next ==
  \/ MakeCall \/ Proceed \/ ConnectionLost \/ Visit
  \/ \E p \in Posts : Arrives(p)
  \/ Server(Run) \/ Server(Stop) \/ Server(Destroyed)
  \/ serving = "aborted" /\ UNCHANGED vars
  \/ destructor = "returned" /\ UNCHANGED vars

Spec == Init /\ [][Next]_vars

\* The server's thread and its tools, the destructor and a client in a call go
\* on; what is sent arrives, unless whoever sends it has left.
FairSpec ==
  /\ Spec
  /\ WF_vars(Server(Run)) /\ WF_vars(Server(Destroyed)) /\ WF_vars(Proceed)
  /\ \A p \in Posts : WF_vars(Arrives(p))

-----------------------------------------------------------------------------
TypeOK ==
  /\ HttpTypeOK
  /\ next_id \in Nat \ {0}
  /\ client \in {"idle", "sending", "request", "notification"}
  /\ doing \in {"initialize", "list_tools", "call_tool"}
  /\ outcome \in [Calls -> [how : {"not_made", "pending", "returned", "threw"}, from : Calls \cup {0}]]

\* What a client is told is what was done: a message is carried out at most
\* once, before 200 is sent with its own result, and never before any other
\* status, which a client may take as leave to send it again
\* (mcp_http_server.cpp:185-219).
StatusTellsEffect ==
  \A p \in Posts :
    LET effects == {i \in 1..Len(handled) : handled[i].post = p}
    IN  /\ Cardinality(effects) <= 1
        /\ answer[p].status = 200 => \E i \in effects : handled[i].body = answer[p].body
        /\ answer[p].status \notin {0, 200} => effects = {}
        /\ effects # {} => Refusal(message[p]) = 0

\* Destroying the server takes bounded time once its last client has sent its
\* request or left (mcp_http_server.cpp:158-166, 172-183).
DestructorReturns == destructor = "joining" ~> destructor = "returned" \/ serving = "aborted"

\* Every call ends, whoever else is served, stops the server, or kills it.
CallEnds == client # "idle" ~> client = "idle"

\* The calls are carried out as RemoteCalls promises.
ResultOf(c) ==
  LET mine == {i \in 1..Len(handled) : handled[i].post = Post("request", c)}
  IN  IF mine = {} THEN "none"
      ELSE IF \E i \in mine : handled[i].body = "result" THEN "result" ELSE "failure"

Remote == INSTANCE RemoteCalls WITH result <- [c \in Calls |-> ResultOf(c)]
RemoteCallsSpec == Remote!Spec
=============================================================================
