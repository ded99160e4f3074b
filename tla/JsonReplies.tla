---------------------------- MODULE JsonReplies ----------------------------
(***************************************************************************)
(* Where a reply's JSON is found: extract_json (src/src/parsers/           *)
(* json_parser.cpp) in what a model says, extract_last_sse_event_data      *)
(* (src/src/mcp/http_client_transport.cpp) in the event stream an MCP      *)
(* server answers with.  Both return what is then given to json::parse.    *)
(* "fence" is three backquotes, "data:" the beginning of a field.          *)
(***************************************************************************)
EXTENDS Texts

Nothing     == [found |-> FALSE, json |-> << >>]
Found(json) == [found |-> TRUE, json |-> json]

-----------------------------------------------------------------------------
(* extract_json *)

After(place, places) == {i \in places : i > place}
Positions(c, text) == Places(<< c >>, text)

\* What is between the line of the first fence and the next fence, if there are
\* both.
strip_code_fence(text) ==
  LET fences  == Positions("fence", text)
      newline == After(First(fences), Positions("\n", text))
      closing == After(First(newline), fences)
  IN  IF fences = {} \/ newline = {} \/ closing = {} THEN text
      ELSE SubSeq(text, First(newline) + 1, First(closing) - 1)

\* A plausible bug, for the mutation checks: it ends at the first closing brace.
extract_jsonShort(text) ==
  LET candidate == strip_code_fence(text)
      opening   == Positions("{", candidate)
      closing   == Positions("}", candidate)
  IN  IF opening = {} \/ closing = {} \/ First(closing) < First(opening) THEN Nothing
      ELSE Found(SubSeq(candidate, First(opening), First(closing)))

\* From the first opening brace to the last closing one; "{" and "}" stand for
\* brackets too.
extract_json(text) ==
  LET candidate == strip_code_fence(text)
      opening   == Positions("{", candidate)
      closing   == Positions("}", candidate)
      last      == CHOOSE i \in closing : \A j \in closing : j <= i
  IN  IF opening = {} \/ closing = {} \/ last < First(opening) THEN Nothing
      ELSE Found(SubSeq(candidate, First(opening), last))

-----------------------------------------------------------------------------
(* extract_last_sse_event_data *)

WithoutReturn(line) ==
  IF line # << >> /\ line[Len(line)] = "\r" THEN SubSeq(line, 1, Len(line) - 1) ELSE line

Value(line) ==
  LET value == SubSeq(line, 2, Len(line))
  IN  IF value # << >> /\ value[1] = " " THEN SubSeq(value, 2, Len(value)) ELSE value

\* A plausible bug, for the mutation checks: an event goes on after a blank line.
finalize_eventOpen(s) == [s EXCEPT !.last = IF s.have_current THEN Found(s.current) ELSE s.last]

finalize_event(s) ==
  [last    |-> IF s.have_current THEN Found(s.current) ELSE s.last,
   current |-> << >>, have_current |-> FALSE]

\* A blank line ends an event; other fields and comments are passed over.
ReadLine(s, sent) ==
  LET line == WithoutReturn(sent)
  IN  IF line = << >> THEN finalize_event(s)
      ELSE IF line[1] # "data:" THEN s
      ELSE [s EXCEPT !.current = IF s.have_current THEN s.current \o << "\n" >> \o Value(line)
                                 ELSE Value(line),
                     !.have_current = TRUE]

extract_last_sse_event_data(body) ==
  finalize_event(FoldLeft(ReadLine, [last |-> Nothing, current |-> << >>, have_current |-> FALSE],
                          split_string(body, << "\n" >>))).last
=============================================================================
