--------------------------- MODULE ProviderFormats ---------------------------
(***************************************************************************)
(* How the three kinds of provider are sent a conversation and how their   *)
(* replies are read: openai_wire_format.cpp (OpenAI, Azure and compatible  *)
(* servers), anthropic_wire_format.cpp, gemini_wire_format.cpp under       *)
(* src/src/providers, and the requests invoke() makes of them.  Messages   *)
(* are those of AgentExecutor and system messages; images, settings and    *)
(* the arguments and results themselves are left out.                      *)
(***************************************************************************)
EXTENDS Integers, Sequences, SequencesExt

CONSTANTS None, CallId(_)   \* CallId(n): "call_" and the number n

\* What a rendered message is made of.
Part(type, text, id, name) == [type |-> type, text |-> text, id |-> id, name |-> name]
Text(content) == Part("text", content, None, None)
Asked(id, name) == Part("call", "", id, name)
Result(id, name) == Part("result", "", id, name)
Rendered(role, parts) == [role |-> role, parts |-> parts]

\* A request: the system messages, if they are kept apart, the conversation, and
\* the tools that are offered.
Request(system, contents, tools) == [system |-> system, contents |-> contents, tools |-> tools]

IsSystem(m) == m.role = "system"
Prompts(messages) ==
  LET system == SelectSeq(messages, IsSystem) IN [i \in 1..Len(system) |-> system[i].content]
Others(messages) == SelectSeq(messages, LAMBDA m : ~IsSystem(m))

TextUnlessEmpty(content) == IF content = "" THEN << >> ELSE << Text(content) >>

\* A rendered message has at most one text.
OfType(parts, type) == SelectSeq(parts, LAMBDA p : p.type = type)
TextIn(parts) ==
  LET texts == OfType(parts, "text") IN IF texts = << >> THEN "" ELSE texts[1].text

\* The message the text and the calls of a reply become; ids are those of its calls.
Reply(parts, ids) ==
  LET calls == OfType(parts, "call")
  IN  [role         |-> "assistant",
       tool_calls   |-> [i \in DOMAIN calls |->
                           [id |-> ids[i], tool_name |-> calls[i].name]],
       tool_call_id |-> None,
       content      |-> TextIn(parts)]
OwnIds(parts) == [i \in DOMAIN OfType(parts, "call") |-> OfType(parts, "call")[i].id]

\* An assistant's calls come after its text, which is left out if it is empty.
WithIds(m) ==
  IF m.tool_calls = << >> THEN << Text(m.content) >>
  ELSE TextUnlessEmpty(m.content) \o
       [i \in 1..Len(m.tool_calls) |-> Asked(m.tool_calls[i].id, m.tool_calls[i].tool_name)]

-----------------------------------------------------------------------------
message_to_openai_json(m) ==
  IF m.role = "tool" THEN Rendered("tool", << Result(m.tool_call_id, None) >>)
  ELSE Rendered(m.role, WithIds(m))

openai_request(messages, tools) ==
  Request(<< >>, [i \in 1..Len(messages) |-> message_to_openai_json(messages[i])], tools)

parse_openai_message(parts) == Reply(parts, OwnIds(parts))

\* A result is a message of the user.
message_to_anthropic_json(m) ==
  IF m.role = "tool" THEN Rendered("user", << Result(m.tool_call_id, None) >>)
  ELSE Rendered(m.role, WithIds(m))

anthropic_request(messages, tools) ==
  LET others == Others(messages)
  IN  Request(Prompts(messages),
              [i \in 1..Len(others) |-> message_to_anthropic_json(others[i])], tools)

parse_anthropic_message(parts) == Reply(parts, OwnIds(parts))

\* Gemini knows no ids: the calls of each reply are numbered from 0 ...
parse_gemini_message(parts) ==
  Reply(parts, [i \in DOMAIN OfType(parts, "call") |-> CallId(i - 1)])

\* A plausible bug, for the mutation checks: the first function that had an id
\* keeps it.
NamedOnce(names, calls) ==
  FoldLeft(LAMBDA f, c : [id \in DOMAIN f \cup {c.id} |-> IF id \in DOMAIN f THEN f[id] ELSE c.tool_name],
           names, calls)

\* ... and the names of the functions are kept by these ids, the last one if an
\* id comes again.
Named(names, calls) ==
  FoldLeft(LAMBDA f, c : [id \in DOMAIN f \cup {c.id} |-> IF id = c.id THEN c.tool_name ELSE f[id]],
           names, calls)

\* A result names the function that was last called with its id.
GeminiContent(names, m) ==
  IF m.role = "tool"
  THEN Rendered("function", << Result(None, IF m.tool_call_id \in DOMAIN names
                                            THEN names[m.tool_call_id] ELSE m.tool_call_id) >>)
  ELSE LET parts == WithIds(m)
       IN  Rendered(IF m.role = "assistant" THEN "model" ELSE "user",
                    [i \in 1..Len(parts) |-> [parts[i] EXCEPT !.id = None]])

messages_to_gemini_request(messages) ==
  LET Add(s, m) == [contents |-> Append(s.contents, GeminiContent(s.names, m)),
                    names    |-> Named(s.names, m.tool_calls)]
  IN  FoldLeft(Add, [contents |-> << >>, names |-> [id \in {} |-> None]], Others(messages)).contents

gemini_request(messages, tools) ==
  Request(Prompts(messages), messages_to_gemini_request(messages), tools)

-----------------------------------------------------------------------------
\* Every call is followed by its result, in the order of the calls, under the
\* call's id or, where there is none, with the name of its function.
PairsUp(contents) ==
  \A i \in 1..Len(contents) :
    LET asked == OfType(contents[i].parts, "call")
    IN  \A k \in 1..Len(asked) :
          /\ i + k <= Len(contents)
          /\ LET answer == contents[i + k].parts[1]
             IN  /\ answer.type = "result" /\ answer.id = asked[k].id
                 /\ answer.id = None => answer.name = asked[k].name
=============================================================================
