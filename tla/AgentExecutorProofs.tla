------------------------- MODULE AgentExecutorProofs -------------------------
(***************************************************************************)
(* For any model, any tools and any max_steps, AgentExecutor::run sends    *)
(* conversations with the turn structure of ToolConversation.  The         *)
(* invariant describes the conversation between two requests: it is the    *)
(* one last sent, the reply, and the results of the calls before `next`.   *)
(***************************************************************************)
EXTENDS AgentExecutor, SequenceTheorems, FiniteSetTheorems, TLAPS

USE AgentAssumption

\* The first `done` calls of a reply to `before` have been answered.
Answered(before, conversation, done) ==
  LET n == Len(before)
  IN  /\ before # << >>
      /\ done \in Nat
      /\ Len(conversation) = n + 1 + done
      /\ \A i \in 1..n : conversation[i] = before[i]
      /\ conversation[n + 1].role = "assistant"
      /\ Len(conversation[n + 1].tool_calls) > 0
      /\ done <= Len(conversation[n + 1].tool_calls)
      /\ \A k \in 1..done :
           /\ conversation[n + 1 + k].role = "tool"
           /\ conversation[n + 1 + k].tool_call_id = conversation[n + 1].tool_calls[k].id

InRound ==
  pc \in {"calls", "tool"} =>
    /\ Answered(sent, messages, next - 1)
    /\ next <= Len(Reply.tool_calls)
    /\ step < MaxSteps

BetweenRounds ==
  pc = "loop" =>
    \/ sent = << >> /\ messages = << User >>
    \/ Answered(sent, messages, Len(messages[Len(sent) + 1].tool_calls))

NotStarted == pc = "idle" => sent = << >>

IInv ==
  /\ TypeOK
  /\ NotStarted
  /\ InRound
  /\ BetweenRounds

-----------------------------------------------------------------------------
LEMMA SeqFacts ==
  ASSUME NEW S, NEW s \in Seq(S)
  PROVE  Len(s) \in Nat /\ \A i \in 1..Len(s) : s[i] \in S
  BY LenProperties, ElementOfSeq

\* While a reply is processed, Reply is the message after the ones sent.
LEMMA ReplyIs ==
  ASSUME IInv, pc \in {"calls", "tool"}
  PROVE  /\ Reply = messages[Len(sent) + 1]
         /\ Len(sent) \in Nat
         /\ Len(messages) = Len(sent) + next
         /\ Len(Reply.tool_calls) \in Nat
         /\ next \in 1..Len(Reply.tool_calls)
         /\ Call \in Calls
  <1>1. /\ next \in Nat \ {0} /\ Len(sent) \in Nat /\ Len(messages) \in Nat
        /\ \A i \in 1..Len(messages) : messages[i] \in Message
    BY SeqFacts DEF IInv, TypeOK
  <1>2. Len(messages) = Len(sent) + next /\ next <= Len(Reply.tool_calls)
    BY <1>1 DEF IInv, InRound, Answered
  <1>3. Reply = messages[Len(sent) + 1]
    BY <1>1, <1>2 DEF Reply
  <1>4. Reply.tool_calls \in Seq(Calls)
    BY <1>1, <1>2, <1>3 DEF Message
  <1>5. Len(Reply.tool_calls) \in Nat /\ next \in 1..Len(Reply.tool_calls)
    BY <1>1, <1>2, <1>4, SeqFacts
  <1>6. Call \in Calls
    BY <1>4, <1>5, SeqFacts DEF Call
  <1>7. QED
    BY <1>1, <1>2, <1>3, <1>5, <1>6

LEMMA InitEstablishes == Init => IInv
  BY DEF Init, IInv, TypeOK, NotStarted, InRound, BetweenRounds

\* Pushing the result of the current call answers it.
LEMMA PushStep ==
  ASSUME IInv, pc \in {"calls", "tool"}, NEW content \in Contents, Push(content),
         UNCHANGED << registry, outcome, history >>
  PROVE  IInv'
  <1> DEFINE n == Len(sent)
             result == ToolResult(Call.id, content)
  <1>1. /\ Reply = messages[n + 1]
        /\ n \in Nat /\ Len(messages) = n + next
        /\ Len(Reply.tool_calls) \in Nat
        /\ next \in 1..Len(Reply.tool_calls)
        /\ Call \in Calls
    BY ReplyIs
  <1>2. result \in Message
    BY <1>1 DEF ToolResult, Message, Calls
  <1>3. /\ messages \in Seq(Message)
        /\ messages' \in Seq(Message)
        /\ Len(messages') = n + next + 1
        /\ messages'[n + next + 1] = result
        /\ \A i \in 1..(n + next) : messages'[i] = messages[i]
    <2>1. messages \in Seq(Message) /\ messages' = Append(messages, result)
      BY DEF Push, IInv, TypeOK
    <2>2. /\ messages' \in Seq(Message)
          /\ Len(messages') = Len(messages) + 1
          /\ messages'[Len(messages) + 1] = result
          /\ \A i \in 1..Len(messages) : messages'[i] = messages[i]
      BY <1>2, <2>1, AppendProperties
    <2>3. QED
      BY <1>1, <2>1, <2>2
  <1>4. Answered(sent, messages, next - 1)
    BY DEF IInv, InRound
  <1>5. Answered(sent, messages', next)
    <2>1. messages'[n + 1] = Reply
      BY <1>1, <1>3
    <2>2. \A i \in 1..n : messages'[i] = sent[i]
      BY <1>1, <1>3, <1>4 DEF Answered
    <2>3. result.role = "tool" /\ result.tool_call_id = Reply.tool_calls[next].id
      BY DEF ToolResult, Call
    <2>4. ASSUME NEW k \in 1..next
          PROVE  /\ messages'[n + 1 + k].role = "tool"
                 /\ messages'[n + 1 + k].tool_call_id = Reply.tool_calls[k].id
      <3>1. CASE k = next
        BY <1>1, <1>3, <2>3, <3>1
      <3>2. CASE k \in 1..(next - 1)
        <4>1. messages'[n + 1 + k] = messages[n + 1 + k]
          BY <1>1, <1>3, <3>2
        <4>2. QED
          BY <1>1, <1>4, <3>2, <4>1 DEF Answered
      <3>3. QED
        BY <1>1, <3>1, <3>2
    <2>5. Reply.role = "assistant" /\ sent # << >>
      BY <1>1, <1>4 DEF Answered
    <2>6. QED
      BY <1>1, <1>3, <2>1, <2>2, <2>4, <2>5 DEF Answered
  <1>6. /\ sent' = sent /\ next' = next + 1
        /\ \/ next = Len(Reply.tool_calls) /\ pc' = "loop" /\ step' = step + 1
           \/ next # Len(Reply.tool_calls) /\ pc' = "calls" /\ step' = step
    BY DEF Push, history
  <1>7. TypeOK'
    <2>1. step' \in 0..MaxSteps /\ next' \in Nat \ {0} /\ pc' \in {"loop", "calls"}
      BY <1>1, <1>6 DEF IInv, TypeOK, InRound
    <2>2. messages' \in Seq(Message) /\ UNCHANGED << tools, by_name, outcome, sent, offered, ran >>
      BY <1>3, <1>6 DEF registry, history
    <2>3. QED
      BY <2>1, <2>2 DEF IInv, TypeOK
  <1>8. messages'[Len(sent') + 1] = Reply
    BY <1>1, <1>3, <1>6
  <1>9. InRound' /\ BetweenRounds'
    <2>1. CASE next = Len(Reply.tool_calls)
      BY <1>5, <1>6, <1>8, <2>1 DEF InRound, BetweenRounds
    <2>2. CASE next # Len(Reply.tool_calls)
      <3>1. Reply' = Reply
        <4>1. Len(messages') - next' + 1 = n + 1 /\ sent' = sent
          BY <1>1, <1>3, <1>6
        <4>2. Reply' = messages'[n + 1]
          BY <4>1 DEF Reply
        <4>3. QED
          BY <1>8, <4>1, <4>2
      <3>2. next' <= Len(Reply'.tool_calls) /\ next' - 1 = next
        BY <1>1, <1>6, <2>2, <3>1
      <3>3. QED
        BY <1>5, <1>6, <2>2, <3>2 DEF IInv, InRound, BetweenRounds
    <2>3. QED
      BY <2>1, <2>2
  <1>10. QED
    BY <1>6, <1>7, <1>9 DEF IInv, NotStarted

\* invoke() starts a round: what was sent is the whole conversation so far.
LEMMA AskStep ==
  ASSUME IInv, NEW calls \in CallLists, InvokeAsks(calls)
  PROVE  IInv'
  <1> DEFINE n == Len(messages)
  <1>1. calls \in Seq(Calls) /\ Len(calls) \in Nat \ {0}
    BY EmptySeq, LenProperties
  <1>2. Asking(calls) \in Message
    BY <1>1 DEF Asking, Message, Contents
  <1>3. /\ messages \in Seq(Message) /\ n \in Nat
        /\ messages' \in Seq(Message)
        /\ Len(messages') = n + 1
        /\ messages'[n + 1] = Asking(calls)
        /\ \A i \in 1..n : messages'[i] = messages[i]
    <2>1. messages \in Seq(Message) /\ messages' = Append(messages, Asking(calls))
      BY DEF InvokeAsks, IInv, TypeOK
    <2>2. QED
      BY <1>2, <2>1, AppendProperties, LenProperties
  <1>4. messages # << >>
    <2>1. n > 0
      <3>1. CASE messages = << User >>
        BY <3>1
      <3>2. CASE Answered(sent, messages, Len(messages[Len(sent) + 1].tool_calls))
        <4>1. Len(sent) \in Nat
          BY LenProperties DEF IInv, TypeOK
        <4>2. PICK done \in Nat : n = Len(sent) + 1 + done
          BY <3>2 DEF Answered
        <4>3. QED
          BY <1>3, <4>1, <4>2
      <3>3. QED
        BY <3>1, <3>2 DEF InvokeAsks, IInv, BetweenRounds
    <2>2. QED
      BY <2>1
  <1>5. sent' = messages /\ next' = 1 /\ pc' = "calls" /\ step' = step /\ step < MaxSteps
    BY DEF InvokeAsks, Send
  <1>6. TypeOK'
    BY <1>3, <1>5 DEF IInv, TypeOK, InvokeAsks, Send, Offer, registry
  <1>7. Answered(sent', messages', 0)
    <2>1. messages'[n + 1].role = "assistant" /\ messages'[n + 1].tool_calls = calls
      <3>1. Asking(calls).role = "assistant" /\ Asking(calls).tool_calls = calls
        BY DEF Asking
      <3>2. messages'[n + 1] = Asking(calls)
        BY <1>3
      <3>3. QED
        BY <3>1, <3>2
    <2>2. Answered(messages, messages', 0)
      BY <1>1, <1>3, <1>4, <2>1 DEF Answered
    <2>3. QED
      BY <1>5, <2>2
  <1>8. Reply' = Asking(calls)
    BY <1>3, <1>5 DEF Reply
  <1>9. InRound'
    <2>1. Reply'.tool_calls = calls
      BY <1>8 DEF Asking
    <2>2. next' - 1 = 0 /\ next' <= Len(Reply'.tool_calls) /\ step' < MaxSteps
      BY <1>1, <1>5, <2>1
    <2>3. QED
      BY <1>7, <2>2 DEF InRound
  <1>10. QED
    BY <1>5, <1>6, <1>9 DEF IInv, NotStarted, BetweenRounds

LEMMA Step == IInv /\ [Next]_vars => IInv'
  <1> SUFFICES ASSUME IInv, [Next]_vars
               PROVE  IInv'
    OBVIOUS
  <1>1. ASSUME NEW n \in Names, Add(n) PROVE IInv'
    BY <1>1, AppendProperties
    DEF Add, IInv, TypeOK, NotStarted, InRound, BetweenRounds, Reply, history
  <1>2. CASE Run
    <2>1. User \in Message
      BY EmptySeq DEF User, Message, Contents
    <2>2. << User >> \in Seq(Message)
      BY <2>1
    <2>3. QED
      BY <1>2, <2>2
      DEF Run, IInv, TypeOK, NotStarted, InRound, BetweenRounds, registry, history
  <1>3. CASE InvokeAnswers \/ InvokeThrows
    BY <1>3 DEF InvokeAnswers, InvokeThrows, Send, Offer, Return, IInv, TypeOK, NotStarted,
                InRound, BetweenRounds, registry
  <1>4. ASSUME NEW calls \in CallLists, InvokeAsks(calls) PROVE IInv'
    BY <1>4, AskStep
  <1>5. CASE UnknownTool
    BY <1>5, PushStep DEF UnknownTool, Contents
  <1>6. CASE EnterTool
    <2>1. Call \in Calls
      BY <1>6, ReplyIs DEF EnterTool
    <2>2. ran' \in Seq(Calls)
      BY <1>6, <2>1, AppendProperties DEF EnterTool, IInv, TypeOK
    <2>3. QED
      BY <1>6, <2>2
      DEF EnterTool, IInv, TypeOK, NotStarted, InRound, BetweenRounds, Reply, registry
  <1>7. ASSUME NEW body, ToolReturns(body) PROVE IInv'
    <2>1. Outcome(Call.tool_name, body) \in Contents
      BY <1>7 DEF ToolReturns, Contents
    <2>2. QED
      BY <1>7, <2>1, PushStep DEF ToolReturns
  <1>8. CASE GiveUp \/ \E body : ToolThrows(body)
    BY <1>8 DEF GiveUp, ToolThrows, Return, IInv, TypeOK, NotStarted, InRound,
                BetweenRounds, registry, history
  <1>9. CASE UNCHANGED vars
    BY <1>9 DEF vars, registry, history, IInv, TypeOK, NotStarted, InRound,
                BetweenRounds, Reply
  <1>10. QED
    BY <1>1, <1>2, <1>3, <1>4, <1>5, <1>6, <1>7, <1>8, <1>9
    DEF Next, Loop, Terminated

THEOREM Invariant == Spec => []IInv
  BY InitEstablishes, Step, PTL DEF Spec

\* run()'s locals and the registry have the types the code gives them; in
\* particular the model is invoked at most max_steps times.
THEOREM TypeCorrect == Spec => []TypeOK
  <1>1. IInv => TypeOK
    BY DEF IInv
  <1>2. QED
    BY <1>1, Invariant, PTL

\* Every request continues the one before it by one well-formed round
\* (agent_executor.cpp:15-36).
THEOREM ImplementsConversation == Spec => ConversationSpec
  <1>1. Init => Conversation!Init
    BY DEF Init, Conversation!Init
  <1>2. IInv /\ [Next]_vars => [Conversation!Next]_sent
    <2> SUFFICES ASSUME IInv, [Next]_vars
                 PROVE  [Conversation!Next]_sent
      OBVIOUS
    <2>1. CASE pc = "loop" /\ Send
      <3>1. CASE sent = << >> /\ messages = << User >>
        BY <2>1, <3>1 DEF Send, Conversation!Next, Conversation!Open
      <3>2. CASE Answered(sent, messages, Len(messages[Len(sent) + 1].tool_calls))
        <4>1. /\ Len(sent) \in Nat /\ Len(messages) \in Nat
              /\ \A i \in 1..Len(messages) : messages[i] \in Message
          BY SeqFacts DEF IInv, TypeOK
        <4>2. Len(sent) + 1 \in 1..Len(messages)
          <5>1. PICK done \in Nat : Len(messages) = Len(sent) + 1 + done
            BY <3>2 DEF Answered
          <5>2. QED
            BY <4>1, <5>1
        <4>3. Len(messages[Len(sent) + 1].tool_calls) \in Nat
          BY <4>1, <4>2, LenProperties DEF Message
        <4>4. Conversation!Round
          <5> DEFINE n == Len(sent)
                     asked == messages[n + 1]
          <5>1. sent' = messages
            BY <2>1 DEF Send
          <5>2. /\ sent # << >>
                /\ Len(messages) = n + 1 + Len(asked.tool_calls)
                /\ \A i \in 1..n : messages[i] = sent[i]
                /\ asked.role = "assistant"
                /\ Len(asked.tool_calls) > 0
                /\ \A k \in 1..Len(asked.tool_calls) :
                     /\ messages[n + 1 + k].role = "tool"
                     /\ messages[n + 1 + k].tool_call_id = asked.tool_calls[k].id
            BY <3>2 DEF Answered
          <5>3. Len(messages) > n
            BY <4>1, <4>2
          <5>4. QED
            BY <5>1, <5>2, <5>3 DEF Conversation!Round
        <4>5. QED
          BY <4>4 DEF Conversation!Next
      <3>3. QED
        BY <2>1, <3>1, <3>2 DEF IInv, BetweenRounds
    <2>2. CASE UNCHANGED sent
      BY <2>2
    <2>3. (pc = "loop" /\ Send) \/ UNCHANGED sent
      BY DEF Next, Loop, Terminated, vars, history, Add, Run, InvokeAnswers, InvokeThrows,
             InvokeAsks, UnknownTool, EnterTool, ToolReturns, ToolThrows, GiveUp
    <2>4. QED
      BY <2>1, <2>2, <2>3
  <1>3. QED
    BY <1>1, <1>2, Invariant, PTL DEF Spec, ConversationSpec, Conversation!Spec

-----------------------------------------------------------------------------
(* What the tools did, in what the model is told. *)

Started ==
  /\ pc = "idle" => ran = << >>
  /\ sent = << >> => step = 0

Ended ==
  /\ pc = "done" <=> outcome # "none"
  /\ outcome = "answer" => sent = messages
  /\ outcome = "exceeded" /\ MaxSteps > 0 =>
       Len(messages) = Len(sent) + 1 + Len(messages[Len(sent) + 1].tool_calls)

\* Every call that ran has its result, but for the one whose tool is at work, or
\* was when it threw.
Told ==
  /\ pc = "tool" => Len(ran) = Cardinality(Effects(messages)) + 1 /\ ran[Len(ran)] = Call
  /\ pc = "done" /\ outcome = "threw" => Len(ran) - Cardinality(Effects(messages)) \in {0, 1}
  /\ pc # "tool" /\ outcome # "threw" => Len(ran) = Cardinality(Effects(messages))

\* The results are those of the calls that ran, in their order.
InOrder ==
  \A i \in Effects(messages) :
    messages[i].tool_call_id = ran[Cardinality(Effects(messages) \cap 1..i)].id

EInv ==
  /\ Started
  /\ Ended
  /\ Told
  /\ InOrder

LEMMA EffectsFinite ==
  ASSUME NEW ms \in Seq(Message)
  PROVE  IsFiniteSet(Effects(ms)) /\ Cardinality(Effects(ms)) \in Nat
  <1>1. IsFiniteSet(1..Len(ms))
    BY LenProperties, FS_Interval
  <1>2. Effects(ms) \in SUBSET (1..Len(ms))
    BY DEF Effects
  <1>3. QED
    BY <1>1, <1>2, FS_Subset, FS_CardinalityType

\* The place of a result among the results.
LEMMA RankOfEffect ==
  ASSUME NEW ms \in Seq(Message), NEW i \in Effects(ms)
  PROVE  Cardinality(Effects(ms) \cap 1..i) \in 1..Cardinality(Effects(ms))
  <1> DEFINE before == Effects(ms) \cap 1..i
  <1>1. before \in SUBSET Effects(ms) /\ IsFiniteSet(Effects(ms))
    BY EffectsFinite
  <1>2. IsFiniteSet(before) /\ Cardinality(before) <= Cardinality(Effects(ms))
    BY <1>1, FS_Subset
  <1>3. i \in before
    BY LenProperties DEF Effects
  <1>4. Cardinality(before) # 0
    BY <1>2, <1>3, FS_EmptySet
  <1>5. Cardinality(before) \in Nat /\ Cardinality(Effects(ms)) \in Nat
    BY <1>2, EffectsFinite, FS_CardinalityType
  <1> HIDE DEF before
  <1>6. Cardinality(before) \in 1..Cardinality(Effects(ms))
    BY <1>2, <1>4, <1>5
  <1>7. QED
    BY <1>6 DEF before

\* A message at the end is the last result or none.
LEMMA EffectsOfAppend ==
  ASSUME NEW ms \in Seq(Message), NEW m \in Message
  PROVE  LET n     == Len(ms)
             new   == Append(ms, m)
             isNew == m.role = "tool" /\ m.content # "unknown"
         IN  /\ n \in Nat
             /\ isNew => /\ Effects(new) = Effects(ms) \cup {n + 1}
                         /\ Cardinality(Effects(new)) = Cardinality(Effects(ms)) + 1
                         /\ Effects(new) \cap 1..(n + 1) = Effects(new)
             /\ ~isNew => Effects(new) = Effects(ms)
  <1> DEFINE n     == Len(ms)
             new   == Append(ms, m)
             isNew == m.role = "tool" /\ m.content # "unknown"
  <1>1. /\ n \in Nat /\ Len(new) = n + 1 /\ new[n + 1] = m
        /\ \A i \in 1..n : new[i] = ms[i]
    BY AppendProperties, LenProperties
  <1> HIDE DEF new
  <1>2. Effects(new) = Effects(ms) \cup (IF isNew THEN {n + 1} ELSE {})
    BY <1>1 DEF Effects
  <1>3. \A i \in Effects(ms) : i \in 1..n
    BY DEF Effects
  <1>4. n + 1 \notin Effects(ms)
    BY <1>1, <1>3
  <1>5. isNew => Cardinality(Effects(new)) = Cardinality(Effects(ms)) + 1
    BY <1>2, <1>4, EffectsFinite, FS_AddElement
  <1>6. isNew => Effects(new) \cap 1..(n + 1) = Effects(new)
    BY <1>1, <1>2, <1>3
  <1>7. QED
    BY <1>1, <1>2, <1>5, <1>6 DEF new

LEMMA EffectsOfNone == Effects(<< >>) = {} /\ Effects(<< User >>) = {}
  <1>1. Effects(<< >>) = {}
    BY EmptySeq DEF Effects
  <1>2. Len(<< User >>) = 1 /\ << User >>[1].role = "user"
    BY DEF User
  <1>3. Effects(<< User >>) = {}
    BY <1>2 DEF Effects
  <1>4. QED
    BY <1>1, <1>3

\* What is appended moves no effect, and none appears before it.
LEMMA EffectKept ==
  ASSUME NEW ms \in Seq(Message), NEW m \in Message, NEW i \in Effects(ms)
  PROVE  /\ Append(ms, m)[i] = ms[i]
         /\ Effects(Append(ms, m)) \cap 1..i = Effects(ms) \cap 1..i
  <1> DEFINE new == Append(ms, m)
  <1>1. /\ Len(ms) \in Nat /\ Len(new) = Len(ms) + 1
        /\ \A k \in 1..Len(ms) : new[k] = ms[k]
    BY AppendProperties, LenProperties
  <1> HIDE DEF new
  <1>2. i \in 1..Len(ms)
    BY DEF Effects
  <1>3. 1..i \subseteq 1..Len(ms)
    BY <1>1, <1>2
  <1>4. ASSUME NEW k \in 1..i PROVE k \in Effects(new) <=> k \in Effects(ms)
    <2>1. k \in 1..Len(ms) /\ k \in 1..Len(new)
      BY <1>1, <1>3
    <2>2. new[k] = ms[k]
      BY <1>1, <2>1
    <2>3. QED
      BY <2>1, <2>2 DEF Effects
  <1>5. new[i] = ms[i] /\ Effects(new) \cap 1..i = Effects(ms) \cap 1..i
    BY <1>1, <1>2, <1>4
  <1>6. QED
    BY <1>5 DEF new

\* The result of a call is pushed behind the reply that asked for it.
LEMMA PushTold ==
  ASSUME IInv, EInv, pc \in {"calls", "tool"}, NEW content \in Contents, Push(content),
         UNCHANGED << registry, outcome, history >>,
         pc = "tool" <=> content # "unknown"
  PROVE  EInv'
  <1> DEFINE result == ToolResult(Call.id, content)
             n == Len(messages)
             at == Effects(messages)
             at1 == Effects(messages')
  <1>1. Call \in Calls
    BY ReplyIs
  <1>2. result \in Message
    BY <1>1 DEF ToolResult, Message, Calls
  <1>3. messages \in Seq(Message) /\ messages' = Append(messages, result)
    BY DEF Push, IInv, TypeOK
  <1>4. result.role = "tool" /\ result.content = content /\ result.tool_call_id = Call.id
    BY DEF ToolResult
  <1> HIDE DEF result
  <1>5. /\ n \in Nat
        /\ \A i \in at : messages'[i] = messages[i] /\ at1 \cap 1..i = at \cap 1..i
        /\ content # "unknown" => /\ at1 = at \cup {n + 1}
                                  /\ Cardinality(at1) = Cardinality(at) + 1
                                  /\ at1 \cap 1..(n + 1) = at1
        /\ content = "unknown" => at1 = at
    <2> HIDE DEF at, at1
    <2>1. at = Effects(messages) /\ at1 = Effects(Append(messages, result))
      BY <1>3 DEF at, at1
    <2>2. (result.role = "tool" /\ result.content # "unknown") <=> content # "unknown"
      BY <1>4
    <2>3. ASSUME NEW i \in at
          PROVE  Append(messages, result)[i] = messages[i] /\ at1 \cap 1..i = at \cap 1..i
      <3>1. i \in Effects(messages)
        BY <2>1
      <3>2. /\ Append(messages, result)[i] = messages[i]
            /\ Effects(Append(messages, result)) \cap 1..i = Effects(messages) \cap 1..i
        BY <1>2, <1>3, <3>1, EffectKept
      <3>3. QED
        BY <2>1, <3>2
    <2>4. n \in Nat /\ (content = "unknown" => at1 = at)
      BY <1>2, <1>3, <2>1, <2>2, EffectsOfAppend
    <2>5. content # "unknown" => /\ at1 = at \cup {n + 1}
                                 /\ Cardinality(at1) = Cardinality(at) + 1
                                 /\ at1 \cap 1..(n + 1) = at1
      BY <1>2, <1>3, <2>1, <2>2, EffectsOfAppend
    <2>6. QED
      BY <1>3, <2>3, <2>4, <2>5
  <1>6. messages'[n + 1] = result
    BY <1>2, <1>3, AppendProperties
  <1>7. /\ ran' = ran /\ outcome' = outcome /\ outcome = "none" /\ sent' = sent
        /\ pc' \in {"loop", "calls"}
    BY DEF Push, history, EInv, Ended
  <1>8. Started'
    <2>1. sent # << >>
      BY DEF IInv, InRound, Answered
    <2>2. QED
      BY <1>7, <2>1 DEF Started
  <1>9. Ended'
    BY <1>7 DEF Ended
  <1>10. Told'
    BY <1>5, <1>7 DEF Told, EInv
  <1>11. InOrder'
    <2> SUFFICES ASSUME NEW i \in at1
                 PROVE  messages'[i].tool_call_id = ran[Cardinality(at1 \cap 1..i)].id
      BY <1>7 DEF InOrder
    <2>1. CASE i \in at
      BY <1>5, <2>1 DEF EInv, InOrder
    <2>2. CASE i \notin at
      <3>1. content # "unknown" /\ i = n + 1
        BY <1>5, <2>2
      <3>2. Cardinality(at1 \cap 1..i) = Len(ran) /\ ran[Len(ran)] = Call
        BY <1>5, <3>1 DEF EInv, Told
      <3>3. QED
        BY <1>4, <1>6, <3>1, <3>2
    <2>3. QED
      BY <2>1, <2>2
  <1>12. QED
    BY <1>8, <1>9, <1>10, <1>11 DEF EInv

LEMMA AskTold ==
  ASSUME IInv, EInv, NEW calls \in CallLists, InvokeAsks(calls)
  PROVE  EInv'
  <1>1. calls \in Seq(Calls)
    OBVIOUS
  <1>2. Asking(calls) \in Message /\ Asking(calls).role = "assistant"
    BY <1>1 DEF Asking, Message, Contents
  <1>3. /\ messages \in Seq(Message) /\ messages' = Append(messages, Asking(calls))
        /\ sent' = messages /\ ran' = ran /\ outcome' = outcome /\ step' = step
        /\ pc = "loop" /\ pc' = "calls"
    BY DEF InvokeAsks, Send, IInv, TypeOK
  <1>4. /\ Effects(messages') = Effects(messages)
        /\ \A i \in Effects(messages) : messages'[i] = messages[i]
    <2>1. Effects(messages') = Effects(messages)
      BY <1>2, <1>3, EffectsOfAppend
    <2>2. \A i \in Effects(messages) : messages'[i] = messages[i]
      BY <1>2, <1>3, EffectKept
    <2>3. QED
      BY <2>1, <2>2
  <1>5. messages # << >>
    <2>1. Len(sent) \in Nat
      BY <1>3, LenProperties DEF IInv, TypeOK
    <2>2. CASE Answered(sent, messages, Len(messages[Len(sent) + 1].tool_calls))
      <3>1. PICK done \in Nat : Len(messages) = Len(sent) + 1 + done
        BY <2>2 DEF Answered
      <3>2. Len(messages) # 0
        BY <2>1, <3>1
      <3>3. QED
        BY <3>2, EmptySeq
    <2>3. CASE messages = << User >>
      BY <2>3
    <2>4. QED
      BY <1>3, <2>2, <2>3 DEF IInv, BetweenRounds
  <1>6. QED
    BY <1>3, <1>4, <1>5 DEF EInv, Started, Ended, Told, InOrder

LEMMA EnterTold ==
  ASSUME IInv, EInv, EnterTool
  PROVE  EInv'
  <1>1. Call \in Calls
    BY ReplyIs DEF EnterTool
  <1>2. /\ UNCHANGED << messages, next, step, sent, outcome >> /\ ran' = Append(ran, Call)
        /\ pc = "calls" /\ pc' = "tool" /\ outcome = "none"
        /\ messages \in Seq(Message) /\ ran \in Seq(Calls)
    BY DEF EnterTool, EInv, Ended, IInv, TypeOK
  <1>3. /\ Len(ran') = Len(ran) + 1 /\ ran'[Len(ran) + 1] = Call
        /\ \A k \in 1..Len(ran) : ran'[k] = ran[k]
    BY <1>1, <1>2, AppendProperties
  <1>4. Call' = Call
    BY <1>2 DEF Call, Reply
  <1>5. Len(ran) = Cardinality(Effects(messages))
    BY <1>2 DEF EInv, Told
  <1>6. InOrder'
    <2> SUFFICES ASSUME NEW i \in Effects(messages)
                 PROVE  messages[i].tool_call_id = ran'[Cardinality(Effects(messages) \cap 1..i)].id
      BY <1>2 DEF InOrder
    <2>1. Cardinality(Effects(messages) \cap 1..i) \in 1..Len(ran)
      BY <1>2, <1>5, RankOfEffect
    <2>2. QED
      BY <1>3, <2>1 DEF EInv, InOrder
  <1>7. Told'
    BY <1>2, <1>3, <1>4, <1>5 DEF Told
  <1>8. QED
    BY <1>2, <1>6, <1>7 DEF EInv, Started, Ended

LEMMA GiveUpTold ==
  ASSUME IInv, EInv, GiveUp
  PROVE  EInv'
  <1>1. /\ UNCHANGED << messages, next, step, sent, ran >> /\ pc = "loop" /\ pc' = "done"
        /\ outcome' = "exceeded" /\ outcome = "none" /\ step = MaxSteps
    BY DEF GiveUp, Return, history, EInv, Ended
  <1>2. ASSUME MaxSteps > 0
        PROVE  Len(messages) = Len(sent) + 1 + Len(messages[Len(sent) + 1].tool_calls)
    <2>1. sent # << >>
      BY <1>1, <1>2 DEF EInv, Started
    <2>2. QED
      BY <1>1, <2>1 DEF IInv, BetweenRounds, Answered
  <1>3. Ended'
    BY <1>1, <1>2 DEF Ended
  <1>4. QED
    BY <1>1, <1>3 DEF EInv, Started, Told, InOrder

LEMMA EffectsStep == IInv /\ EInv /\ [Next]_vars => EInv'
  <1> SUFFICES ASSUME IInv, EInv, [Next]_vars
               PROVE  EInv'
    OBVIOUS
  <1> USE DEF EInv
  <1>1. ASSUME NEW n \in Names, Add(n) PROVE EInv'
    BY <1>1 DEF Add, history, Started, Ended, Told, InOrder, Call, Reply
  <1>2. CASE Run
    <2>1. /\ messages' = << User >> /\ pc' = "loop" /\ pc = "idle"
          /\ ran' = ran /\ ran = << >> /\ outcome' = outcome /\ sent' = sent /\ step' = step
      BY <1>2 DEF Run, Started, history
    <2>2. Effects(messages') = {} /\ Cardinality({}) = 0 /\ Len(<< >>) = 0
      BY <2>1, EffectsOfNone, FS_EmptySet, EmptySeq
    <2>3. QED
      BY <2>1, <2>2 DEF Started, Ended, Told, InOrder
  <1>3. CASE InvokeAnswers \/ InvokeThrows
    <2>1. /\ UNCHANGED << messages, next, step, ran >> /\ pc = "loop" /\ pc' = "done"
          /\ outcome = "none" /\ outcome' \in {"answer", "threw"} /\ sent' = messages
      BY <1>3 DEF InvokeAnswers, InvokeThrows, Return, Send, Ended
    <2>2. Len(ran) = Cardinality(Effects(messages))
      BY <2>1 DEF Told
    <2>3. Cardinality(Effects(messages)) \in Nat
      BY EffectsFinite DEF IInv, TypeOK
    <2>4. messages # << >>
      <3>1. Len(sent) \in Nat
        BY LenProperties DEF IInv, TypeOK
      <3>2. CASE Answered(sent, messages, Len(messages[Len(sent) + 1].tool_calls))
        <4>1. PICK done \in Nat : Len(messages) = Len(sent) + 1 + done
          BY <3>2 DEF Answered
        <4>2. Len(messages) # 0
          BY <3>1, <4>1
        <4>3. QED
          BY <4>2, EmptySeq
      <3>3. QED
        BY <2>1, <3>2 DEF IInv, BetweenRounds
    <2>5. Started' /\ Ended'
      BY <2>1, <2>4 DEF Started, Ended
    <2>6. Told' /\ InOrder'
      BY <2>1, <2>2, <2>3 DEF Told, InOrder
    <2>7. QED
      BY <2>5, <2>6
  <1>4. ASSUME NEW calls \in CallLists, InvokeAsks(calls) PROVE EInv'
    BY <1>4, AskTold
  <1>5. CASE UnknownTool
    BY <1>5, PushTold DEF UnknownTool, Contents
  <1>6. CASE EnterTool
    BY <1>6, EnterTold
  <1>7. ASSUME NEW body, ToolReturns(body) PROVE EInv'
    <2>1. Outcome(Call.tool_name, body) \in Contents \ {"unknown"}
      BY <1>7 DEF ToolReturns, Contents
    <2>2. QED
      BY <1>7, <2>1, PushTold DEF ToolReturns
  <1>8. CASE GiveUp
    BY <1>8, GiveUpTold
  <1>9. ASSUME NEW body, ToolThrows(body) PROVE EInv'
    <2>1. /\ UNCHANGED << messages, next, step, sent, ran >> /\ pc = "tool" /\ pc' = "done"
          /\ outcome' = "threw"
      BY <1>9 DEF ToolThrows, Return, history
    <2>2. Len(ran) = Cardinality(Effects(messages)) + 1 /\ Cardinality(Effects(messages)) \in Nat
      BY <2>1, EffectsFinite DEF Told, IInv, TypeOK
    <2>3. Started' /\ Ended' /\ InOrder'
      BY <2>1 DEF Started, Ended, InOrder
    <2>4. Told'
      BY <2>1, <2>2 DEF Told
    <2>5. QED
      BY <2>3, <2>4
  <1>10. CASE UNCHANGED vars
    BY <1>10 DEF vars, registry, history, Started, Ended, Told, InOrder, Call, Reply
  <1>11. QED
    BY <1>1, <1>2, <1>3, <1>4, <1>5, <1>6, <1>7, <1>8, <1>9, <1>10
    DEF Next, Loop, Terminated

LEMMA InitTold == Init => EInv
  BY EffectsOfNone, FS_EmptySet, EmptySeq DEF Init, EInv, Started, Ended, Told, InOrder

\* For any model, any tools and any max_steps: no tool runs twice, unreported or
\* out of order (agent_executor.cpp:27-36).
THEOREM ReportsEffects == Spec => []EffectsReported
  <1>1. IInv /\ EInv => EffectsReported
    <2> SUFFICES ASSUME IInv, EInv
                 PROVE  EffectsReported
      OBVIOUS
    <2>1. Cardinality(Effects(messages)) \in Nat
      BY EffectsFinite DEF IInv, TypeOK
    <2>2. outcome = "threw" => pc = "done"
      BY DEF EInv, Ended
    <2>3. Len(ran) - Cardinality(Effects(messages)) \in {0, 1}
      BY <2>1, <2>2 DEF EInv, Told
    <2>4. QED
      BY <2>3 DEF EffectsReported, EInv, Told, InOrder
  <1>2. QED
    BY <1>1, InitTold, EffectsStep, Invariant, PTL DEF Spec

\* An answer is given in view of everything the tools did, and a run that gives
\* up leaves one round the model never saw (agent_executor.cpp:14,39).
THEOREM AnswersSeeEffects == Spec => []AnswerSawEffects
  <1>1. EInv => AnswerSawEffects
    <2> SUFFICES ASSUME EInv
                 PROVE  AnswerSawEffects
      OBVIOUS
    <2>1. outcome = "answer" => pc # "tool" /\ sent = messages
      BY DEF EInv, Ended
    <2>2. QED
      BY <2>1 DEF AnswerSawEffects, EInv, Ended, Told
  <1>2. QED
    BY <1>1, InitTold, EffectsStep, Invariant, PTL DEF Spec
=============================================================================
