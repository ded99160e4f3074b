--------------------------- MODULE MCAgentExecutor ---------------------------
(* A run with a FunctionTool, another Tool and ids that may repeat, for TLC: *)
(* the model may ask for any one call, or any two, and be any of the         *)
(* providers whose formats are in ProviderFormats.                           *)
EXTENDS AgentExecutor

CONSTANTS c1, c2

MCIds == {c1, c2}

MCCallLists ==
  LET call == [id : Ids, tool_name : Names]
  IN  [1..1 -> call] \cup [1..2 -> call]

Formats == INSTANCE ProviderFormats WITH CallId <- LAMBDA n : << c1, c2 >>[n + 1]

System == [role |-> "system", tool_calls |-> << >>, tool_call_id |-> None, content |-> "value"]

\* What a provider is sent of its own replies is what it said, with or without a
\* text next to the calls, and in a conversation that may be sent, with a system
\* message or without, each call has its result, found by id or by name; for
\* Gemini although its ids, made up by this library, come again in every round
\* (gemini_wire_format.cpp:15-19,85-88).
ProvidersUnderstand ==
  LET Replies == {messages[i] : i \in {j \in 1..Len(messages) : messages[j].role = "assistant"}}
      Saying(m, text) == [m EXCEPT !.content = text]
      Survives(m, Render(_), Parse(_)) == Parse(Render(m).parts) = m
      OfGemini == \A m \in Replies : Formats!parse_gemini_message(Formats!WithIds(m)) = m
      Requests(said) == {Formats!openai_request(said, tools), Formats!anthropic_request(said, tools)}
                        \cup (IF OfGemini THEN {Formats!gemini_request(said, tools)} ELSE {})
  IN  pc = "loop" =>
        /\ \A m \in Replies, text \in {"", "value"} :
             /\ Survives(Saying(m, text), Formats!message_to_openai_json, Formats!parse_openai_message)
             /\ Survives(Saying(m, text), Formats!message_to_anthropic_json, Formats!parse_anthropic_message)
        /\ \A said \in {messages, << System >> \o messages} :
             \A request \in Requests(said) :
               /\ Formats!PairsUp(request.contents)
               /\ Len(request.system) + Len(request.contents) = Len(said)
=============================================================================
