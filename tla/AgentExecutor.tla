---------------------------- MODULE AgentExecutor ----------------------------
(***************************************************************************)
(* AgentExecutor::run (src/src/agents/agent_executor.cpp) with the         *)
(* ToolRegistry it shares with the tool-bound model, and the tools it      *)
(* calls.  The model and the bodies of the tools are the environment: the  *)
(* model answers, asks for tools or throws; a tool's body returns a value, *)
(* reports an error, throws, or registers another tool before it returns.  *)
(*                                                                         *)
(* Bounds: the model's requests are the members of CallLists, the tools    *)
(* ever registered are the members of Names.                               *)
(***************************************************************************)
EXTENDS Integers, Sequences, FiniteSets

CONSTANTS Ids, Names, None,
          FunctionTools,   \* the tools that are FunctionTools
          CallLists,       \* the lists of calls the model may ask for
          MaxSteps         \* AgentConfig::max_steps

Calls == [id : Ids, tool_name : Names]

ASSUME AgentAssumption ==
  /\ None \notin Ids /\ None \notin Names
  /\ FunctionTools \subseteq Names
  /\ CallLists \subseteq Seq(Calls) \ {<< >>}
  /\ MaxSteps \in Nat

VARIABLES
  tools, by_name,        \* ToolRegistry::tools_ and by_name_
  pc, step, messages,    \* run()'s position and locals
  next,                  \* index of the call being processed
  outcome,               \* how run() ended
  sent, offered,         \* history: what the last invoke() was given
  ran                    \* history: the calls whose tool has been entered

registry == << tools, by_name >>
history == << sent, offered, ran >>
vars == << registry, pc, step, messages, next, outcome, history >>

-----------------------------------------------------------------------------
Contents == {"", "value", "error", "unknown"}

Message == [role : {"user", "assistant", "tool"}, tool_calls : Seq(Calls),
            tool_call_id : Ids \cup {None}, content : Contents]

User == [role |-> "user", tool_calls |-> << >>, tool_call_id |-> None, content |-> ""]
Asking(calls) ==
  [role |-> "assistant", tool_calls |-> calls, tool_call_id |-> None, content |-> ""]
ToolResult(id, content) ==
  [role |-> "tool", tool_calls |-> << >>, tool_call_id |-> id, content |-> content]

\* ToolRegistry::get, and the list the registry renders for a provider.
Known(n) == n \in by_name
Offer    == tools

NamesIn(list) == {list[i] : i \in 1..Len(list)}

\* The calls of the reply being processed, and the one it is at.
Reply == messages[Len(messages) - next + 1]
Call  == Reply.tool_calls[next]

\* A plausible bug, for the mutation checks: the first request's conversation
\* is sent again.
SendStale ==
  /\ sent' = IF sent = << >> THEN messages ELSE sent
  /\ offered' = Offer

\* bound_model_->invoke(messages): the registry is rendered into the request.
Send ==
  /\ sent' = messages
  /\ offered' = Offer

Return(how) == pc' = "done" /\ outcome' = how

\* The result of a call is pushed; the last one ends the step.
Push(content) ==
  /\ messages' = Append(messages, ToolResult(Call.id, content))
  /\ next' = next + 1
  /\ IF next = Len(Reply.tool_calls)
     THEN pc' = "loop" /\ step' = step + 1
     ELSE pc' = "calls" /\ UNCHANGED step

\* What a body can do.  "unprintable" is a value or an error text that
\* nlohmann::json::dump() refuses (invalid UTF-8).
Bodies(n) ==
  IF n \in FunctionTools
  THEN {"value", "std_exception", "other_exception", "unprintable"}
  ELSE {"value", "error", "std_exception", "other_exception", "unprintable"}

\* Tool::call as run() sees it: a FunctionTool turns a std::exception into an
\* error Result.
Outcome(n, body) ==
  IF n \in FunctionTools /\ body = "std_exception" THEN "error" ELSE body

-----------------------------------------------------------------------------
(* Ways this code could be wrong, for the mutation checks.                 *)

\* An unknown tool is skipped, without a result.
UnknownToolSkipped ==
  /\ pc = "calls"
  /\ ~Known(Call.tool_name)
  /\ next' = next + 1
  /\ IF next = Len(Reply.tool_calls)
     THEN pc' = "loop" /\ step' = step + 1
     ELSE pc' = "calls" /\ UNCHANGED step
  /\ UNCHANGED << registry, messages, outcome, history >>

\* A tool that reports an error is tried again.
ToolReturnsRetried(body) ==
  /\ pc = "tool"
  /\ IF Outcome(Call.tool_name, body) = "value"
     THEN Push("value") /\ UNCHANGED << registry, outcome, history >>
     ELSE /\ Outcome(Call.tool_name, body) = "error"
          /\ pc' = "calls"
          /\ UNCHANGED << registry, step, messages, next, outcome, history >>

-----------------------------------------------------------------------------
Init ==
  /\ tools = << >>
  /\ by_name = {}
  /\ pc = "idle"
  /\ step = 0
  /\ messages = << >>
  /\ next = 1
  /\ outcome = "none"
  /\ sent = << >>
  /\ offered = << >>
  /\ ran = << >>

\* ToolRegistry::add, by the application before run() or by a tool's body
\* during it.  A name already registered is refused.
Add(n) ==
  /\ pc \in {"idle", "tool"}
  /\ ~Known(n)
  /\ by_name' = by_name \cup {n}
  /\ tools' = Append(tools, n)
  /\ UNCHANGED << pc, step, messages, next, outcome, history >>

Run ==
  /\ pc = "idle"
  /\ messages' = << User >>
  /\ pc' = "loop"
  /\ UNCHANGED << registry, step, next, outcome, history >>

InvokeAnswers ==
  /\ pc = "loop" /\ step < MaxSteps
  /\ Send
  /\ Return("answer")
  /\ UNCHANGED << registry, step, messages, next, ran >>

InvokeThrows ==
  /\ pc = "loop" /\ step < MaxSteps
  /\ Send
  /\ Return("threw")
  /\ UNCHANGED << registry, step, messages, next, ran >>

InvokeAsks(calls) ==
  /\ pc = "loop" /\ step < MaxSteps
  /\ Send
  /\ messages' = Append(messages, Asking(calls))
  /\ next' = 1
  /\ pc' = "calls"
  /\ UNCHANGED << registry, step, outcome, ran >>

UnknownTool ==
  /\ pc = "calls"
  /\ ~Known(Call.tool_name)
  /\ Push("unknown")
  /\ UNCHANGED << registry, outcome, history >>

EnterTool ==
  /\ pc = "calls"
  /\ Known(Call.tool_name)
  /\ ran' = Append(ran, Call)
  /\ pc' = "tool"
  /\ UNCHANGED << registry, step, messages, next, outcome, sent, offered >>

ToolReturns(body) ==
  /\ pc = "tool"
  /\ Outcome(Call.tool_name, body) \in {"value", "error"}
  /\ Push(Outcome(Call.tool_name, body))
  /\ UNCHANGED << registry, outcome, history >>

ToolThrows(body) ==
  /\ pc = "tool"
  /\ Outcome(Call.tool_name, body) \notin {"value", "error"}
  /\ Return("threw")
  /\ UNCHANGED << registry, step, messages, next, history >>

GiveUp ==
  /\ pc = "loop" /\ step = MaxSteps
  /\ Return("exceeded")
  /\ UNCHANGED << registry, step, messages, next, history >>

Terminated == pc = "done" /\ UNCHANGED vars

Loop ==
  \/ Run
  \/ InvokeAnswers \/ InvokeThrows
  \/ \E calls \in CallLists : InvokeAsks(calls)
  \/ UnknownTool \/ EnterTool
  \/ /\ pc = "tool"
     /\ \E body \in Bodies(Call.tool_name) : ToolReturns(body) \/ ToolThrows(body)
  \/ GiveUp

Next == Loop \/ Terminated \/ \E n \in Names : Add(n)

Spec == Init /\ [][Next]_vars

-----------------------------------------------------------------------------
TypeOK ==
  /\ tools \in Seq(Names)
  /\ by_name \subseteq Names
  /\ pc \in {"idle", "loop", "calls", "tool", "done"}
  /\ step \in 0..MaxSteps
  /\ messages \in Seq(Message)
  /\ next \in Nat \ {0}
  /\ outcome \in {"none", "answer", "threw", "exceeded"}
  /\ sent \in Seq(Message)
  /\ offered \in Seq(Names)
  /\ ran \in Seq(Calls)

\* Where the results of the tools that ran are in a conversation.
Effects(conversation) ==
  {i \in 1..Len(conversation) : conversation[i].role = "tool" /\ conversation[i].content # "unknown"}

\* No tool runs twice, unreported, or out of order: the tool results in the
\* conversation are those of the calls that ran, one each; at most the call
\* the run is in (or was left in by an exception) has none yet.
EffectsReported ==
  LET at == Effects(messages)
  IN  /\ Len(ran) - Cardinality(at) \in {0, 1}
      /\ Len(ran) # Cardinality(at) => pc = "tool" \/ outcome = "threw"
      /\ \A i \in at : messages[i].tool_call_id = ran[Cardinality(at \cap 1..i)].id

\* An answer was given in view of everything the tools did; only a run that
\* gave up leaves results the model never saw, and then one round's worth
\* (agent_executor.cpp:14,39: the last round's tools still run).
AnswerSawEffects ==
  /\ outcome = "answer" => Cardinality(Effects(sent)) = Len(ran)
  /\ outcome = "exceeded" /\ MaxSteps > 0 =>
       Len(messages) = Len(sent) + 1 + Len(messages[Len(sent) + 1].tool_calls)

-----------------------------------------------------------------------------
Conversation == INSTANCE ToolConversation WITH transcript <- sent, Opening <- << User >>
ConversationSpec == Conversation!Spec
=============================================================================
