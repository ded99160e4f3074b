----------------------------- MODULE HttpReplies -----------------------------
(***************************************************************************)
(* What an McpClient makes of the answer to a request over HTTP:           *)
(* HttpClientTransport::send_request (src/src/mcp/                         *)
(* http_client_transport.cpp) with parse_response (jsonrpc.cpp).           *)
(***************************************************************************)
EXTENDS JsonReplies

Throws          == [throws |-> TRUE, result |-> ""]
Returns(result) == [throws |-> FALSE, result |-> result]

\* json::parse takes a whole object, and white space in it: one with a result, an
\* error, or a notification, which has neither.
Object(of)  == << "{", of, "}" >>
Parses(json, of) == SelectSeq(json, LAMBDA c : c # "\n") = Object(of)

\* parse_response, and what its caller makes of it.
parse_response(json) ==
  CASE Parses(json, "result")       -> Returns("result")
    [] Parses(json, "notification") -> Returns("{}")
    [] OTHER                        -> Throws

\* A plausible bug, for the mutation checks: the status is not looked at.
ReceivedAnyStatus(response) ==
  LET data == IF response.content_type = "text/event-stream" THEN extract_last_sse_event_data(response.body)
              ELSE Found(response.body)
  IN  IF ~data.found THEN Throws ELSE parse_response(data.json)

Received(response) ==
  LET data == IF response.content_type = "text/event-stream" THEN extract_last_sse_event_data(response.body)
              ELSE Found(response.body)
  IN  IF response.status # 200 \/ ~data.found THEN Throws ELSE parse_response(data.json)

\* The id of the session is kept as soon as an answer has one, whatever its status.
session_id(kept, response) == IF response.session = "" THEN kept ELSE response.session
=============================================================================
