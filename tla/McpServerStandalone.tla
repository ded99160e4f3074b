------------------------- MODULE McpServerStandalone -------------------------
(***************************************************************************)
(* McpServer::serve with any client: it sends lines of every kind at any   *)
(* time, reads what comes back, and closes the connection when it likes.   *)
(*                                                                         *)
(* Bound: the client sends MaxLines lines.                                 *)
(***************************************************************************)
EXTENDS McpServer, FiniteSets

CONSTANTS MaxLines,
          Kinds       \* the kinds of lines this client sends

ASSUME StandaloneAssumption == MaxLines \in Nat

VARIABLES arrived,    \* history: number of lines sent
          answered    \* history: ids of the responses the client has read

standaloneVars == << toServer, toClient, closed, server, arrived, answered >>

StandaloneInit == ServerInit /\ arrived = 0 /\ answered = << >>

\* The client, external.
Arrive(line) ==
  /\ arrived < MaxLines /\ ~closed /\ Room(toServer)
  /\ line.kind \in Kinds
  /\ toServer' = Append(toServer, line)
  /\ arrived' = arrived + 1
  /\ UNCHANGED << toClient, closed, server, answered >>

ClientReads ==
  /\ toClient # << >> /\ ~closed
  /\ answered' = IF Head(toClient).kind = "response"
                 THEN Append(answered, Head(toClient).id) ELSE answered
  /\ toClient' = Tail(toClient)
  /\ UNCHANGED << toServer, closed, server, arrived >>

Close ==
  /\ ~closed
  /\ closed' = TRUE
  /\ UNCHANGED << toServer, toClient, server, arrived, answered >>

Client == (\E line \in Lines : Arrive(line)) \/ ClientReads \/ Close

Serving ==
  /\ Serve \/ \E noise \in Prints : ToolPrints(noise)
  /\ UNCHANGED << arrived, answered >>

StandaloneTerminated == serving = "exited" /\ closed /\ UNCHANGED standaloneVars

StandaloneNext == Client \/ Serving \/ StandaloneTerminated

StandaloneSpec == StandaloneInit /\ [][StandaloneNext]_standaloneVars

-----------------------------------------------------------------------------
StandaloneTypeOK ==
  /\ ServerTypeOK
  /\ arrived \in 0..MaxLines
  /\ answered \in Seq(Ids)

Responses == {i \in 1..Len(toClient) : toClient[i].kind = "response"}
UpTo(i) == {j \in Responses : j <= i}

\* How many requests are unanswered.
Owed == CASE serving = "getline" -> {0} [] serving = "exited" -> {0, 1} [] OTHER -> {1}

\* Every request is answered once, in order, and nothing else is answered; only
\* the request being handled, or the one serve() died of, is unanswered: what the
\* client has read are the ids of the first requests, and the responses in the
\* pipe go on where it is (mcp_server.cpp:12-66).
AnsweredOnceInOrder ==
  /\ \A k \in 1..Len(answered) : answered[k] = received[k]
  /\ \A i \in Responses : toClient[i].id = received[Len(answered) + Cardinality(UpTo(i))]
  /\ Len(received) - Len(answered) - Cardinality(Responses) \in Owed
=============================================================================
