-------------------------- MODULE ToolConversation --------------------------
(***************************************************************************)
(* The turn structure a tool-calling provider requires of the conversation *)
(* it is sent: the conversation only grows, one round at a time, and a     *)
(* round is an assistant message asking for tools followed by exactly one  *)
(* result per call, in the order of the calls and under their ids.         *)
(***************************************************************************)
EXTENDS Integers, Sequences

CONSTANT Opening   \* the messages a run starts from

VARIABLE transcript   \* the conversation the model was last sent

Init == transcript = << >>

Open == transcript = << >> /\ transcript' = Opening

Round ==
  LET n     == Len(transcript)
      asked == transcript'[n + 1]
  IN  /\ transcript # << >>
      /\ Len(transcript') > n
      /\ \A i \in 1..n : transcript'[i] = transcript[i]
      /\ asked.role = "assistant"
      /\ Len(asked.tool_calls) > 0
      /\ Len(transcript') = n + 1 + Len(asked.tool_calls)
      /\ \A k \in 1..Len(asked.tool_calls) :
           /\ transcript'[n + 1 + k].role = "tool"
           /\ transcript'[n + 1 + k].tool_call_id = asked.tool_calls[k].id

Next == Open \/ Round

Spec == Init /\ [][Next]_transcript
=============================================================================
