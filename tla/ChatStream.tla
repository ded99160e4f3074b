----------------------------- MODULE ChatStream -----------------------------
(***************************************************************************)
(* OpenAIChat::stream (src/src/providers/openai/openai_chat.cpp) and       *)
(* AzureOpenAIChat::stream, which is the same, with the OpenAiStreamParser *)
(* they feed (openai_wire_format.cpp), between a server that streams a     *)
(* reply and a consumer.  The network cuts the body anywhere, the          *)
(* connection may be lost, and the consumer may throw.                     *)
(*                                                                         *)
(* Bounds: Window bytes in flight, MaxNoise lines that say nothing.  A     *)
(* byte stands for a part of a line: "data: ", what follows, "\r", "\n".   *)
(***************************************************************************)
EXTENDS Integers, Sequences, SequencesExt

CONSTANTS Replies,   \* the messages the server may stream
          None, Window, MaxNoise

ASSUME StreamAssumption == Window \in Nat \ {0} /\ MaxNoise \in Nat

VARIABLES
  reply,                \* the server: the message it streams,
  told,                 \*   how much of its text and of each call it has sent,
  noise, status, server,
  wire,                 \* bytes sent and not yet delivered
  pc, buffer_, text_, done_, tool_calls_,   \* stream() and its parser
  deltas,               \* history: the pieces the consumer was given
  outcome, final        \* history: how stream() ended, and the last chunk

upstream == << reply, told, noise, status, server >>
parser   == << buffer_, text_, done_, tool_calls_ >>
ended    == << outcome, final >>
streamVars == << upstream, wire, pc, parser, deltas, ended >>

-----------------------------------------------------------------------------
Fragment(index, id, tool_name, arguments) ==
  [index |-> index, id |-> id, tool_name |-> tool_name, arguments |-> arguments]
Delta(content, fragments) == [content |-> content, tool_calls |-> fragments]

Byte(kind) == [kind |-> kind, delta |-> Delta(<< >>, << >>)]
Payload(delta) == [kind |-> "json", delta |-> delta]

\* Lines end in "\n", those of some servers in "\r\n".
Lines(byte) == {<< Byte("data: "), byte, Byte("\n") >>,
                << Byte("data: "), byte, Byte("\r"), Byte("\n") >>}

Empty == [content |-> << >>, tool_calls |-> << >>]
NewCall == [id |-> None, tool_name |-> None, arguments |-> << >>]

-----------------------------------------------------------------------------
(* OpenAiStreamParser *)

\* What a fragment adds to the call it belongs to.
Accumulated(calls, f) ==
  LET known == IF f.index \in DOMAIN calls THEN calls[f.index] ELSE NewCall
      call  == [id        |-> IF f.id # None THEN f.id ELSE known.id,
                tool_name |-> IF f.tool_name # None THEN f.tool_name ELSE known.tool_name,
                arguments |-> known.arguments \o f.arguments]
  IN  [i \in DOMAIN calls \cup {f.index} |-> IF i = f.index THEN call ELSE calls[i]]

\* A plausible bug, for the mutation checks: each fragment replaces the ones before.
AccumulatedLast(calls, f) ==
  LET known == IF f.index \in DOMAIN calls THEN calls[f.index] ELSE NewCall
      call  == [id        |-> IF f.id # None THEN f.id ELSE known.id,
                tool_name |-> IF f.tool_name # None THEN f.tool_name ELSE known.tool_name,
                arguments |-> f.arguments]
  IN  [i \in DOMAIN calls \cup {f.index} |-> IF i = f.index THEN call ELSE calls[i]]

\* json::parse() of arguments that are whole; of others it throws, and the call
\* is left with an empty object.
WholeArguments == UNION {{r.tool_calls[i].arguments : i \in DOMAIN r.tool_calls} : r \in Replies}
Parsed(arguments) == IF arguments \in WholeArguments THEN arguments ELSE << >>

\* The calls in the order of their indexes.
finish ==
  LET indexes == SetToSortSeq(DOMAIN tool_calls_, <)
      Call(k) == tool_calls_[indexes[k]]
  IN  [content    |-> text_,
       tool_calls |-> [k \in 1..Len(indexes) |->
                         [Call(k) EXCEPT !.arguments = Parsed(Call(k).arguments)]]]

LineEnds == {i \in 1..Len(buffer_) : buffer_[i].kind = "\n"}
FirstLine == SubSeq(buffer_, 1, (CHOOSE i \in LineEnds : \A j \in LineEnds : i <= j) - 1)

-----------------------------------------------------------------------------
StreamInit ==
  /\ reply \in Replies
  /\ told = [content |-> 0, calls |-> [k \in DOMAIN reply.tool_calls |-> None]]
  /\ noise = 0 /\ status = 0 /\ server = "answering"
  /\ wire = << >>
  /\ pc = "receiving"
  /\ buffer_ = << >> /\ text_ = << >> /\ done_ = FALSE
  /\ tool_calls_ = [i \in {} |-> NewCall]
  /\ deltas = << >>
  /\ outcome = "none" /\ final = Empty

\* The server answers the request: it streams, or refuses.
Respond(code) ==
  /\ server = "answering"
  /\ status' = code
  /\ server' = IF code = 200 THEN "streaming" ELSE "closed"
  /\ UNCHANGED << reply, told, noise, wire, pc, parser, deltas, ended >>

Sends(line) == Len(wire) < Window /\ wire' = wire \o line

\* The next piece of the text ...
SendContent ==
  /\ server = "streaming" /\ told.content < Len(reply.content)
  /\ told' = [told EXCEPT !.content = told.content + 1]
  /\ \E line \in Lines(Payload(Delta(<< reply.content[told'.content] >>, << >>))) : Sends(line)
  /\ UNCHANGED << reply, noise, status, server, pc, parser, deltas, ended >>

\* ... or a call: its id and name, alone (OpenAI) or with all of its arguments
\* (Ollama) ...
StartCall(k) ==
  /\ server = "streaming" /\ told.calls[k] = None
  /\ k > 1 => told.calls[k - 1] # None
  /\ \E arguments \in {<< >>, reply.tool_calls[k].arguments} :
       LET f == Fragment(k - 1, reply.tool_calls[k].id, reply.tool_calls[k].tool_name, arguments)
       IN  /\ told' = [told EXCEPT !.calls[k] = arguments]
           /\ \E line \in Lines(Payload(Delta(<< >>, << f >>))) : Sends(line)
  /\ UNCHANGED << reply, noise, status, server, pc, parser, deltas, ended >>

\* ... then the next part of its arguments.
ContinueCall(k) ==
  /\ server = "streaming" /\ told.calls[k] \notin {None, reply.tool_calls[k].arguments}
  /\ LET next == reply.tool_calls[k].arguments[Len(told.calls[k]) + 1]
         f    == Fragment(k - 1, None, None, << next >>)
     IN  /\ told' = [told EXCEPT !.calls[k] = Append(told.calls[k], next)]
         /\ \E line \in Lines(Payload(Delta(<< >>, << f >>))) : Sends(line)
  /\ UNCHANGED << reply, noise, status, server, pc, parser, deltas, ended >>

\* Blank lines, comments, payloads without choices or that are no JSON.
SendNoise ==
  /\ server = "streaming" /\ noise < MaxNoise
  /\ noise' = noise + 1
  /\ \E line \in {<< Byte("\n") >>, << Byte(": comment"), Byte("\n") >>} \cup Lines(Byte("garbage")) :
       Sends(line)
  /\ UNCHANGED << reply, told, status, server, pc, parser, deltas, ended >>

AllTold ==
  /\ told.content = Len(reply.content)
  /\ \A k \in DOMAIN reply.tool_calls : told.calls[k] = reply.tool_calls[k].arguments

\* The reply is complete: the server says so, or just closes the connection.
SendDone ==
  /\ server = "streaming" /\ AllTold
  /\ server' = "closed"
  /\ \/ \E line \in Lines(Byte("[DONE]")) : Sends(line)
     \/ UNCHANGED wire
  /\ UNCHANGED << reply, told, noise, status, pc, parser, deltas, ended >>

\* The connection is lost with what it carries.
Lose ==
  /\ server \in {"answering", "streaming"}
  /\ server' = "lost"
  /\ wire' = << >>
  /\ UNCHANGED << reply, told, noise, status, pc, parser, deltas, ended >>

-----------------------------------------------------------------------------
\* The write callback is given some of the bytes.
Receive(n) ==
  /\ pc = "receiving" /\ n \in 1..Len(wire)
  /\ buffer_' = buffer_ \o SubSeq(wire, 1, n)
  /\ wire' = SubSeq(wire, n + 1, Len(wire))
  /\ pc' = "feeding"
  /\ UNCHANGED << upstream, text_, done_, tool_calls_, deltas, ended >>

\* feed() takes the next line, without its "\r", and process_line() reads it.
\* "[DONE]" ends the transfer.  A consumer that throws at a piece throws through
\* the C code of libcurl: stream() throws, or the process is terminated.
FeedLine ==
  /\ pc = "feeding" /\ LineEnds # {}
  /\ LET line  == SelectSeq(FirstLine, LAMBDA b : b.kind # "\r")
         said  == IF Len(line) = 2 THEN line[2] ELSE Byte("nothing")
     IN  /\ buffer_' = SubSeq(buffer_, Len(FirstLine) + 2, Len(buffer_))
         /\ done_' = (said.kind = "[DONE]")
         /\ text_' = text_ \o said.delta.content
         /\ deltas' = deltas \o said.delta.content
         /\ tool_calls_' = FoldLeft(Accumulated, tool_calls_, said.delta.tool_calls)
         /\ \/ pc' = (IF done_' THEN "ended" ELSE "feeding") /\ UNCHANGED outcome
            \/ said.delta.content # << >> /\ pc' = "done" /\ outcome' \in {"threw", "terminated"}
  /\ UNCHANGED << upstream, wire, final >>

\* A plausible bug, for the mutation checks: what is incomplete is forgotten.
FeedForgets ==
  /\ pc = "feeding" /\ LineEnds = {}
  /\ pc' = "receiving"
  /\ buffer_' = << >>
  /\ UNCHANGED << upstream, wire, text_, done_, tool_calls_, deltas, ended >>

\* The rest of an incomplete line waits for the next call.
FeedReturns ==
  /\ pc = "feeding" /\ LineEnds = {}
  /\ pc' = "receiving"
  /\ UNCHANGED << upstream, wire, parser, deltas, ended >>

TransferEnds ==
  /\ pc = "receiving" /\ wire = << >> /\ server \in {"closed", "lost"}
  /\ pc' = "ended"
  /\ UNCHANGED << upstream, wire, parser, deltas, ended >>

\* Only the status of the response is looked at.  The final chunk is handed to
\* the consumer, who may throw.
Finish ==
  /\ pc = "ended"
  /\ pc' = "done"
  /\ \/ status = 200 /\ outcome' = "returned" /\ final' = finish
     \/ outcome' = "threw" /\ UNCHANGED final
  /\ UNCHANGED << upstream, wire, parser, deltas >>

StreamNext ==
  \/ \E code \in {200, 500} : Respond(code)
  \/ SendContent \/ SendNoise \/ SendDone \/ Lose
  \/ \E k \in DOMAIN reply.tool_calls : StartCall(k) \/ ContinueCall(k)
  \/ \E n \in 1..Len(wire) : Receive(n)
  \/ FeedLine \/ FeedReturns \/ TransferEnds \/ Finish

-----------------------------------------------------------------------------
\* However the body was cut: the consumer is given the reply's text from its
\* beginning, each piece once; stream() returns a message whose text is what
\* the consumer was given, and it is the whole reply unless the connection was
\* lost.  Then, as nothing but the status is looked at (openai_chat.cpp:103),
\* it may be a part of it, in which a call has its arguments whole or none.
StreamedReply ==
  /\ IsPrefix(deltas, reply.content)
  /\ outcome = "returned" =>
       /\ final.content = deltas
       /\ server = "closed" \/ done_ => final = reply
       /\ \A k \in DOMAIN final.tool_calls :
            LET whole == reply.tool_calls[k]
            IN  final.tool_calls[k] \in {whole, [whole EXCEPT !.arguments = << >>]}
=============================================================================
