----------------------------- MODULE ChainProofs -----------------------------
(***************************************************************************)
(* For any inputs, replies, number of retries and of calls, each call of a *)
(* chain answers its own input.  The invariant says of each call, alone,   *)
(* what its locals hold at each point (Right); since a step changes one    *)
(* call only, and none that has ended, results stay what they are.         *)
(***************************************************************************)
EXTENDS Chain, SequenceTheorems, TLAPS

USE ChainAssumption

FirstKey(input)   == Key(Route(PromptFor(input)), PromptFor(input))
RetryKey(content) == Key(Fixer, FixPrompt(content))

\* Each key is the one that follows from the input and the replies before it.
Asked(input, path) ==
  \A k \in 1..Len(path) :
    path[k].key = IF k = 1 THEN FirstKey(input) ELSE RetryKey(path[k - 1].content)
RepliesBefore(path) == \A k \in 1..(Len(path) - 1) : path[k].content \in Bad

Right(c) ==
  LET n == Len(c.path)
  IN  /\ Asked(c.input, c.path)
      /\ RepliesBefore(c.path)
      /\ c.pc = "branches" =>
           n = 0 /\ c.attempt = 0 /\ c.values \subseteq {ValueOf(branch, c.input) : branch \in Branches}
      /\ c.pc = "model" =>
           /\ n = c.attempt
           /\ n = 0 => c.asking = FirstKey(c.input)
           /\ n > 0 => c.path[n].content \in Bad /\ c.asking = RetryKey(c.path[n].content)
      /\ c.pc \in {"parse", "returned", "unparsed"} =>
           n = c.attempt + 1 /\ c.current = c.path[n].content
      /\ c.pc = "returned" => c.current \in Good
      /\ c.pc = "unparsed" => c.current \in Bad /\ c.attempt = MaxRetries

CallsRight == \A i \in 1..Len(calls) : Right(calls[i])
Collected  == \A i \in 1..Len(results) : calls[i].pc = "returned" /\ results[i] = calls[i].current
BatchStops == mode = "batch" => \A i \in 1..(Len(calls) - 1) : calls[i].pc = "returned"

IInv ==
  /\ TypeOK
  /\ CallsRight
  /\ Collected
  /\ BatchStops

-----------------------------------------------------------------------------
LEMMA SeqFacts ==
  ASSUME NEW S, NEW s \in Seq(S)
  PROVE  Len(s) \in Nat /\ DOMAIN s = 1..Len(s) /\ \A i \in 1..Len(s) : s[i] \in S
  BY LenProperties, ElementOfSeq

\* A call that is under way, and what is known of its locals.
LEMMA CallFacts ==
  ASSUME IInv, NEW i, NEW pc, IsIn(i, pc)
  PROVE  /\ i \in 1..Len(calls) /\ Len(calls) \in Nat
         /\ calls[i].pc = pc
         /\ calls[i] \in CallRecords
         /\ Len(calls[i].path) \in Nat
         /\ \A k \in 1..Len(calls[i].path) : calls[i].path[k] \in Entries
         /\ Right(calls[i])
  <1>1. calls \in Seq(CallRecords)
    BY DEF IInv, TypeOK
  <1>2. i \in 1..Len(calls) /\ Len(calls) \in Nat /\ calls[i] \in CallRecords
    BY <1>1, SeqFacts DEF IsIn
  <1>3. calls[i].path \in Seq(Entries)
    BY <1>2 DEF CallRecords
  <1>4. QED
    BY <1>2, <1>3, SeqFacts DEF IsIn, IInv, CallsRight

\* The two conversations are conversations, and so their keys are keys.
LEMMA KeysAreKeys ==
  /\ \A input \in Inputs : \A values \in SUBSET {ValueOf(branch, input) : branch \in Branches} :
       Key(Route(Prompt(values)), Prompt(values)) \in Keys
  /\ \A content \in Bad : RetryKey(content) \in Keys
  <1>1. ASSUME NEW input \in Inputs,
               NEW values \in SUBSET {ValueOf(branch, input) : branch \in Branches}
        PROVE  Key(Route(Prompt(values)), Prompt(values)) \in Keys
    <2>1. values \in SUBSET [branch : Branches, of : Inputs]
      BY DEF ValueOf
    <2>2. Prompt(values) \in Conversations
      BY <2>1 DEF Prompt, Conversations
    <2>3. Route(Prompt(values)) \in {"large", "small"}
      BY DEF Route
    <2>4. QED
      BY <2>2, <2>3 DEF Key, Keys
  <1>2. ASSUME NEW content \in Bad
        PROVE  RetryKey(content) \in Keys
    BY DEF RetryKey, Key, Keys, Fixer, FixPrompt, Conversations
  <1>3. QED
    BY <1>1, <1>2

\* A prompt with a value of each branch is the prompt of its input.
LEMMA AllBranches ==
  ASSUME NEW input, NEW values \in SUBSET {ValueOf(branch, input) : branch \in Branches},
         {value.branch : value \in values} = Branches
  PROVE  Prompt(values) = PromptFor(input)
  <1>1. ASSUME NEW branch \in Branches
        PROVE  ValueOf(branch, input) \in values
    <2>1. PICK value \in values : value.branch = branch
      OBVIOUS
    <2>2. value = ValueOf(branch, input)
      BY <2>1 DEF ValueOf
    <2>3. QED
      BY <2>2
  <1>2. values = {ValueOf(branch, input) : branch \in Branches}
    BY <1>1
  <1>3. QED
    BY <1>2 DEF PromptFor

-----------------------------------------------------------------------------
(* A step of a call: it changes that call, which has not ended, to one that *)
(* is right too.                                                           *)

Becomes(i, c) ==
  /\ i \in 1..Len(calls)
  /\ calls[i].pc \notin {"returned", "unparsed", "failed"}
  /\ c \in CallRecords /\ Right(c)
  /\ calls' = [calls EXCEPT ![i] = c]

LEMMA BranchStep ==
  ASSUME IInv, NEW i, NEW branch \in Branches, RunBranch(i, branch)
  PROVE  \E c : Becomes(i, c)
  <1> DEFINE c == [calls[i] EXCEPT !.values = @ \cup {ValueOf(branch, calls[i].input)}]
  <1>1. IsIn(i, "branches")
    BY DEF RunBranch
  <1>2. calls' = [calls EXCEPT ![i] = c]
    BY <1>1, CallFacts DEF RunBranch, CallRecords
  <1>3. c \in CallRecords
    BY <1>1, CallFacts DEF CallRecords, ValueOf
  <1>4. Right(c)
    BY <1>1, CallFacts DEF CallRecords, Right, Asked, RepliesBefore
  <1>5. i \in 1..Len(calls) /\ calls[i].pc \in {"branches", "model"}
    BY <1>1, CallFacts
  <1>6. Becomes(i, c)
    BY <1>5, <1>2, <1>3, <1>4 DEF Becomes
  <1>7. QED
    BY <1>6

LEMMA FailStep ==
  ASSUME IInv, NEW i, BranchThrows(i) \/ ModelThrows(i)
  PROVE  \E c : Becomes(i, c)
  <1> DEFINE c == [calls[i] EXCEPT !.pc = "failed"]
  <1>1. IsIn(i, "branches") \/ IsIn(i, "model")
    BY DEF BranchThrows, ModelThrows
  <1>2. calls' = [calls EXCEPT ![i] = c]
    BY <1>1, CallFacts DEF BranchThrows, ModelThrows, CallRecords
  <1>3. c \in CallRecords
    BY <1>1, CallFacts DEF CallRecords
  <1>4. Right(c)
    BY <1>1, CallFacts DEF CallRecords, Right, Asked, RepliesBefore
  <1>5. i \in 1..Len(calls) /\ calls[i].pc \in {"branches", "model"}
    BY <1>1, CallFacts
  <1>6. Becomes(i, c)
    BY <1>5, <1>2, <1>3, <1>4 DEF Becomes
  <1>7. QED
    BY <1>6

LEMMA AskStep ==
  ASSUME IInv, NEW i, AskBranch(i)
  PROVE  \E c : Becomes(i, c)
  <1> DEFINE prompt == Prompt(calls[i].values)
             c == [calls[i] EXCEPT !.pc = "model", !.asking = Key(Route(prompt), prompt)]
  <1>1. IsIn(i, "branches") /\ {value.branch : value \in calls[i].values} = Branches
    BY DEF AskBranch
  <1>2. calls' = [calls EXCEPT ![i] = c]
    BY <1>1, CallFacts DEF AskBranch, CallRecords
  <1>3. /\ calls[i].input \in Inputs
        /\ calls[i].values \subseteq {ValueOf(branch, calls[i].input) : branch \in Branches}
        /\ Len(calls[i].path) = 0 /\ calls[i].attempt = 0
    BY <1>1, CallFacts DEF CallRecords, Right
  <1>4. Key(Route(prompt), prompt) \in Keys
    BY <1>3, KeysAreKeys
  <1>5. c \in CallRecords
    BY <1>1, <1>4, CallFacts DEF CallRecords
  <1>6. Key(Route(prompt), prompt) = FirstKey(calls[i].input)
    BY <1>1, <1>3, AllBranches DEF FirstKey
  <1>7. /\ c.path = calls[i].path /\ c.input = calls[i].input /\ c.pc = "model"
        /\ c.attempt = calls[i].attempt /\ c.asking = Key(Route(prompt), prompt)
    BY <1>1, CallFacts DEF CallRecords
  <1>8. Right(c)
    BY <1>1, <1>3, <1>6, <1>7, CallFacts DEF Right, Asked, RepliesBefore
  <1>9. i \in 1..Len(calls) /\ calls[i].pc \in {"branches", "model"}
    BY <1>1, CallFacts
  <1>10. Becomes(i, c)
    BY <1>9, <1>2, <1>5, <1>8 DEF Becomes
  <1>11. QED
    BY <1>10

\* A call that waits for a model has asked it something.
LEMMA AskingIsKey ==
  ASSUME IInv, NEW i, IsIn(i, "model")
  PROVE  calls[i].asking \in Keys
  <1> DEFINE old == calls[i]
             n   == Len(old.path)
             all == {ValueOf(branch, old.input) : branch \in Branches}
  <1>1. /\ n \in Nat
        /\ n = 0 => old.asking = FirstKey(old.input)
        /\ n > 0 => old.path[n].content \in Bad /\ old.asking = RetryKey(old.path[n].content)
    BY CallFacts DEF Right
  <1>2. old.input \in Inputs
    BY CallFacts DEF CallRecords
  <1>3. all \in SUBSET all
    OBVIOUS
  <1>4. FirstKey(old.input) \in Keys
    BY <1>2, <1>3, KeysAreKeys DEF FirstKey, PromptFor
  <1>5. CASE n = 0
    BY <1>1, <1>4, <1>5
  <1>6. CASE n > 0
    BY <1>1, <1>6, KeysAreKeys
  <1>7. QED
    BY <1>1, <1>5, <1>6

\* The reply answers the last key, and so the replies before it are what they were.
LEMMA ReplyStep ==
  ASSUME IInv, NEW i, NEW content \in Good \cup Bad, ModelReplies(i, content)
  PROVE  \E c : Becomes(i, c)
  <1> DEFINE old   == calls[i]
             n     == Len(old.path)
             entry == [key |-> old.asking, content |-> content, fresh |-> old.asking \notin DOMAIN cache]
             c     == [old EXCEPT !.pc = "parse", !.current = content, !.path = Append(old.path, entry)]
  <1>1. IsIn(i, "model")
    BY DEF ModelReplies
  <1>2. calls' = [calls EXCEPT ![i] = c]
    BY <1>1, CallFacts DEF ModelReplies, CallRecords, Replied
  <1>3. /\ n \in Nat /\ n = old.attempt /\ old.path \in Seq(Entries)
        /\ Asked(old.input, old.path) /\ RepliesBefore(old.path)
        /\ n = 0 => old.asking = FirstKey(old.input)
        /\ n > 0 => old.path[n].content \in Bad /\ old.asking = RetryKey(old.path[n].content)
    BY <1>1, CallFacts DEF CallRecords, Right
  <1>4. old.asking \in Keys
    BY <1>1, AskingIsKey
  <1>5. entry \in Entries
    BY <1>4 DEF Entries, Contents
  <1>6. /\ c.path = Append(old.path, entry) /\ c.input = old.input /\ c.pc = "parse"
        /\ c.attempt = old.attempt /\ c.current = content
    BY <1>1, CallFacts DEF CallRecords
  <1>7. /\ c.path \in Seq(Entries) /\ Len(c.path) = n + 1
        /\ c.path[n + 1] = entry
        /\ \A k \in 1..n : c.path[k] = old.path[k]
    BY <1>3, <1>5, <1>6, AppendProperties
  <1>8. c \in CallRecords
    <2>1. old \in CallRecords
      BY <1>1, CallFacts
    <2>2. Append(old.path, entry) \in Seq(Entries) /\ content \in Contents
      BY <1>6, <1>7 DEF Contents
    <2> HIDE DEF entry, old
    <2>3. QED
      BY <2>1, <2>2 DEF CallRecords
  <1> HIDE DEF c
  <1>9. Asked(c.input, c.path)
    <2> SUFFICES ASSUME NEW k \in 1..Len(c.path)
                 PROVE  c.path[k].key = IF k = 1 THEN FirstKey(old.input)
                                        ELSE RetryKey(c.path[k - 1].content)
      BY <1>6 DEF Asked
    <2>1. CASE k <= n
      <3>1. /\ k \in 1..n /\ c.path[k] = old.path[k]
            /\ k # 1 => k - 1 \in 1..n /\ c.path[k - 1] = old.path[k - 1]
        BY <1>3, <1>7, <2>1
      <3>2. QED
        BY <1>3, <3>1 DEF Asked
    <2>2. CASE k = n + 1
      <3>1. c.path[k].key = old.asking
        BY <1>7, <2>2
      <3>2. CASE n = 0
        BY <1>3, <2>2, <3>1, <3>2
      <3>3. CASE n > 0
        <4>1. k # 1 /\ k - 1 = n /\ n \in 1..n
          BY <1>3, <2>2, <3>3
        <4>2. c.path[k - 1] = old.path[n]
          BY <1>7, <4>1
        <4>3. QED
          BY <1>3, <3>1, <3>3, <4>1, <4>2
      <3>4. QED
        BY <1>3, <3>2, <3>3
    <2>3. QED
      BY <1>3, <1>7, <2>1, <2>2
  <1>10. RepliesBefore(c.path)
    <2> HIDE DEF entry, n, old
    <2>1. Len(c.path) - 1 = n
      BY <1>3, <1>7
    <2> SUFFICES ASSUME NEW k \in 1..n
                 PROVE  old.path[k].content \in Bad
      BY <1>7, <2>1 DEF RepliesBefore
    <2> USE DEF n
    <2>2. CASE k < n
      BY <1>3, <2>2 DEF RepliesBefore
    <2>3. CASE k = n
      BY <1>3, <2>3
    <2>4. QED
      BY <1>3, <2>2, <2>3
  <1>11. Len(c.path) = c.attempt + 1 /\ c.current = c.path[Len(c.path)].content
    BY <1>3, <1>6, <1>7
  <1>12. Right(c)
    BY <1>6, <1>9, <1>10, <1>11 DEF Right
  <1>13. i \in 1..Len(calls) /\ calls[i].pc = "model"
    BY <1>1, CallFacts
  <1>14. Becomes(i, c)
    BY <1>2, <1>8, <1>12, <1>13 DEF Becomes
  <1>15. QED
    BY <1>14

LEMMA EndStep ==
  ASSUME IInv, NEW i, Return(i) \/ GiveUp(i)
  PROVE  \E c : Becomes(i, c)
  <1> DEFINE pc == IF Return(i) THEN "returned" ELSE "unparsed"
             c  == [calls[i] EXCEPT !.pc = pc]
  <1>1. IsIn(i, "parse")
    BY DEF Return, GiveUp
  <1>2. calls[i].attempt \in 0..MaxRetries
    BY <1>1, CallFacts DEF CallRecords
  <1>3. /\ pc = "returned" => calls[i].current \in Good
        /\ pc = "unparsed" => calls[i].current \in Bad /\ calls[i].attempt = MaxRetries
    BY <1>2 DEF Return, GiveUp
  <1>4. calls' = [calls EXCEPT ![i] = c]
    <2>1. calls' = [calls EXCEPT ![i].pc = pc]
      <3>1. CASE Return(i)
        BY <3>1 DEF Return
      <3>2. CASE ~Return(i)
        BY <3>2 DEF GiveUp
      <3>3. QED
        BY <3>1, <3>2
    <2>2. QED
      BY <1>1, <2>1, CallFacts DEF CallRecords
  <1>5. pc \in {"returned", "unparsed"}
    OBVIOUS
  <1> HIDE DEF pc
  <1>6. c \in CallRecords
    BY <1>1, <1>5, CallFacts DEF CallRecords
  <1>7. /\ c.path = calls[i].path /\ c.input = calls[i].input /\ c.pc = pc
        /\ c.attempt = calls[i].attempt /\ c.current = calls[i].current
    BY <1>1, CallFacts DEF CallRecords
  <1> HIDE DEF c
  <1>8. Right(calls[i]) /\ calls[i].pc = "parse" /\ i \in 1..Len(calls)
    BY <1>1, CallFacts
  <1>9. Right(c)
    BY <1>3, <1>5, <1>7, <1>8 DEF Right
  <1>10. Becomes(i, c)
    BY <1>4, <1>6, <1>8, <1>9 DEF Becomes
  <1>11. QED
    BY <1>10

LEMMA AskAgainStep ==
  ASSUME IInv, NEW i, AskAgain(i)
  PROVE  \E c : Becomes(i, c)
  <1> DEFINE old == calls[i]
             c   == [old EXCEPT !.pc = "model", !.attempt = @ + 1,
                                !.asking = Key(Fixer, FixPrompt(old.current))]
  <1>1. IsIn(i, "parse") /\ old.current \in Bad /\ old.attempt < MaxRetries
    BY DEF AskAgain
  <1>2. calls' = [calls EXCEPT ![i] = c]
    BY <1>1, CallFacts DEF AskAgain, CallRecords
  <1>3. old.attempt \in 0..MaxRetries /\ Len(old.path) \in Nat
    BY <1>1, CallFacts DEF CallRecords
  <1>4. old.attempt + 1 \in 0..MaxRetries
    BY <1>1, <1>3
  <1>5. Key(Fixer, FixPrompt(old.current)) \in Keys
    BY <1>1, KeysAreKeys DEF RetryKey
  <1>6. c \in CallRecords
    <2>1. old \in CallRecords
      BY <1>1, CallFacts
    <2> HIDE DEF old
    <2>2. QED
      BY <1>4, <1>5, <2>1 DEF CallRecords
  <1>7. /\ c.path = old.path /\ c.input = old.input /\ c.pc = "model"
        /\ c.attempt = old.attempt + 1 /\ c.asking = RetryKey(old.current)
    BY <1>1, CallFacts DEF CallRecords, RetryKey
  <1> HIDE DEF c
  <1>8. Right(old) /\ old.pc = "parse" /\ i \in 1..Len(calls)
    BY <1>1, CallFacts
  <1>9. Right(c)
    <2>1. Len(old.path) = old.attempt + 1 /\ old.current = old.path[Len(old.path)].content
      BY <1>8 DEF Right
    <2>2. Len(old.path) > 0
      BY <1>3, <2>1
    <2>3. QED
      BY <1>1, <1>3, <1>7, <1>8, <2>1, <2>2 DEF Right
  <1>10. Becomes(i, c)
    BY <1>2, <1>6, <1>8, <1>9 DEF Becomes
  <1>11. QED
    BY <1>10

-----------------------------------------------------------------------------
(* The invariant. *)

LEMMA InitEstablishes == Init => IInv
  <1> SUFFICES ASSUME Init
               PROVE  IInv
    OBVIOUS
  <1>1. TypeOK
    <2>1. /\ << >> \in Seq(CallRecords) /\ << >> \in Seq(Contents)
          /\ Len(<< >>) = 0 /\ DOMAIN << >> = {}
      BY EmptySeq
    <2>2. 0 <= MaxCalls
      OBVIOUS
    <2>3. cached \in BOOLEAN
      BY DEF Init
    <2>4. QED
      BY <2>1, <2>2, <2>3 DEF Init, TypeOK
  <1>2. Len(calls) = 0 /\ Len(results) = 0
    BY EmptySeq DEF Init
  <1>3. CallsRight /\ Collected /\ BatchStops
    BY <1>2 DEF CallsRight, Collected, BatchStops
  <1>4. QED
    BY <1>1, <1>3 DEF IInv

\* A step of a call disturbs no other call, no result and no earlier call of a batch.
LEMMA CallStep ==
  ASSUME IInv, NEW i, Step(i)
  PROVE  IInv'
  <1>1. \E c : Becomes(i, c)
    <2>1. CASE \E branch \in Branches : RunBranch(i, branch)
      BY <2>1, BranchStep
    <2>2. CASE \E content \in Good \cup Bad : ModelReplies(i, content)
      BY <2>2, ReplyStep
    <2>3. CASE BranchThrows(i) \/ ModelThrows(i)
      BY <2>3, FailStep
    <2>4. CASE Return(i) \/ GiveUp(i)
      BY <2>4, EndStep
    <2>5. QED
      BY <2>1, <2>2, <2>3, <2>4, AskStep, AskAgainStep DEF Step
  <1>2. PICK c : Becomes(i, c)
    BY <1>1
  <1>3. UNCHANGED << mode, cached, app, results >>
    BY DEF Step, RunBranch, ModelReplies, BranchThrows, AskBranch, ModelThrows, Return, GiveUp, AskAgain
  <1>4. calls \in Seq(CallRecords) /\ Len(calls) \in Nat /\ Len(results) \in Nat /\ Len(results) <= Len(calls)
    BY SeqFacts DEF IInv, TypeOK
  <1>5. /\ calls' \in Seq(CallRecords) /\ Len(calls') = Len(calls)
        /\ \A j \in 1..Len(calls) : calls'[j] = IF j = i THEN c ELSE calls[j]
    BY <1>2, <1>4, ExceptSeq DEF Becomes
  <1>6. DOMAIN cache' \subseteq Keys /\ \A key \in DOMAIN cache' : cache'[key] \in Contents
    <2>1. CASE cache' = cache
      BY <2>1 DEF IInv, TypeOK
    <2>2. CASE \E content \in Good \cup Bad : ModelReplies(i, content)
      <3>1. PICK content \in Good \cup Bad : ModelReplies(i, content)
        BY <2>2
      <3>2. calls[i].asking \in Keys
        BY <3>1, AskingIsKey DEF ModelReplies
      <3>3. cache' = cache \/ cache' = Put(calls[i].asking, content)
        BY <3>1 DEF ModelReplies
      <3>4. QED
        BY <3>2, <3>3 DEF Put, IInv, TypeOK, Contents
    <2>3. QED
      BY <2>1, <2>2 DEF Step, RunBranch, BranchThrows, AskBranch, ModelThrows, Return, GiveUp, AskAgain
  <1>7. TypeOK'
    BY <1>3, <1>5, <1>6 DEF IInv, TypeOK
  <1>8. CallsRight'
    BY <1>2, <1>5 DEF CallsRight, Becomes, IInv
  <1>9. Collected'
    <2> SUFFICES ASSUME NEW j \in 1..Len(results)
                 PROVE  calls'[j].pc = "returned" /\ results[j] = calls'[j].current
      BY <1>3 DEF Collected
    <2>1. calls[j].pc = "returned" /\ results[j] = calls[j].current
      BY DEF IInv, Collected
    <2>2. j # i /\ j \in 1..Len(calls)
      BY <1>2, <1>4, <2>1 DEF Becomes
    <2>3. QED
      BY <1>5, <2>1, <2>2
  <1>10. BatchStops'
    <2> SUFFICES ASSUME mode = "batch", NEW j \in 1..(Len(calls) - 1)
                 PROVE  calls'[j].pc = "returned"
      BY <1>3, <1>5 DEF BatchStops
    <2>1. calls[j].pc = "returned"
      BY DEF IInv, BatchStops
    <2>2. j # i /\ j \in 1..Len(calls)
      BY <1>2, <1>4, <2>1 DEF Becomes
    <2>3. QED
      BY <1>5, <2>1, <2>2
  <1>11. QED
    BY <1>7, <1>8, <1>9, <1>10 DEF IInv

\* A new call has asked nothing; before one of a batch, all have returned.
LEMMA NextCall ==
  ASSUME IInv, NEW input \in Inputs, Call(input)
  PROVE  IInv'
  <1> DEFINE n == Len(calls)
  <1>1. /\ calls \in Seq(CallRecords) /\ results \in Seq(Contents)
        /\ n \in Nat /\ Len(results) \in Nat /\ Len(results) <= n
    BY SeqFacts DEF IInv, TypeOK
  <1>2. NewCall(input) \in CallRecords
    BY DEF NewCall, CallRecords
  <1>3. Right(NewCall(input))
    BY DEF NewCall, Right, Asked, RepliesBefore
  <1>4. calls' = Append(calls, NewCall(input)) /\ UNCHANGED << mode, cached, app, results, cache >> /\ n < MaxCalls
    BY DEF Call
  <1>5. /\ calls' \in Seq(CallRecords) /\ Len(calls') = n + 1
        /\ calls'[n + 1] = NewCall(input)
        /\ \A j \in 1..n : calls'[j] = calls[j]
    BY <1>1, <1>2, <1>4, AppendProperties
  <1>6. TypeOK'
    BY <1>1, <1>4, <1>5 DEF IInv, TypeOK
  <1>7. CallsRight'
    <2> SUFFICES ASSUME NEW j \in 1..(n + 1)
                 PROVE  Right(calls'[j])
      BY <1>5 DEF CallsRight
    <2>1. CASE j = n + 1
      BY <1>3, <1>5, <2>1
    <2>2. CASE j # n + 1
      BY <1>1, <1>5, <2>2 DEF IInv, CallsRight
    <2>3. QED
      BY <2>1, <2>2
  <1>8. Collected'
    BY <1>1, <1>4, <1>5 DEF IInv, Collected
  <1>9. BatchStops'
    <2> SUFFICES ASSUME mode = "batch", NEW j \in 1..n
                 PROVE  calls'[j].pc = "returned"
      BY <1>1, <1>4, <1>5 DEF BatchStops
    <2>1. Len(results) = n
      BY DEF Call
    <2>2. QED
      BY <1>5, <2>1 DEF IInv, Collected
  <1>10. QED
    BY <1>6, <1>7, <1>8, <1>9 DEF IInv

\* The application changes no call.
LEMMA ApplicationStep ==
  ASSUME IInv,
         \/ CallFails \/ Wait \/ LetGo \/ Destroy \/ UNCHANGED vars
         \/ \E i \in 1..MaxCalls : Collect(i) \/ Rethrow(i)
  PROVE  IInv'
  <1>1. UNCHANGED << mode, cached, calls, cache >> /\ app' \in {"calling", "getting", "leaving", "done"}
    BY DEF CallFails, Wait, LetGo, Destroy, vars, Collect, Rethrow, IInv, TypeOK
  <1>2. /\ results \in Seq(Contents) /\ Len(results) \in Nat /\ Len(results) <= Len(calls)
        /\ calls \in Seq(CallRecords) /\ Len(calls) \in Nat
    BY SeqFacts DEF IInv, TypeOK
  <1>3. results' \in Seq(Contents) /\ Len(results') <= Len(calls) /\ Collected'
    <2>1. CASE results' = results
      BY <1>1, <1>2, <2>1 DEF IInv, Collected
    <2>2. CASE results' = << >>
      BY <1>2, <2>2 DEF Collected
    <2>3. CASE \E i \in 1..MaxCalls : Collect(i)
      <3>1. PICK i \in 1..MaxCalls : Collect(i)
        BY <2>3
      <3>2. /\ i = Len(results) + 1 /\ i \in 1..Len(calls) /\ calls[i].pc = "returned"
            /\ results' = Append(results, calls[i].current)
        BY <1>2, <3>1, SeqFacts DEF Collect, Collecting
      <3>3. calls[i].current \in Contents
        BY <3>2 DEF IInv, CallsRight, Right, Contents
      <3>4. /\ results' \in Seq(Contents) /\ Len(results') = i /\ results'[i] = calls[i].current
            /\ \A j \in 1..Len(results) : results'[j] = results[j]
        BY <1>2, <3>2, <3>3, AppendProperties
      <3>5. Collected'
        <4> SUFFICES ASSUME NEW j \in 1..i
                     PROVE  calls[j].pc = "returned" /\ results'[j] = calls[j].current
          BY <1>1, <3>4 DEF Collected
        <4>1. CASE j = i
          BY <3>2, <3>4, <4>1
        <4>2. CASE j # i
          BY <1>2, <3>2, <3>4, <4>2 DEF IInv, Collected
        <4>3. QED
          BY <4>1, <4>2
      <3>6. QED
        BY <3>2, <3>4, <3>5
    <2>4. QED
      BY <2>1, <2>2, <2>3 DEF CallFails, Wait, LetGo, Destroy, vars, Rethrow
  <1>4. TypeOK' /\ CallsRight' /\ BatchStops'
    BY <1>1, <1>2, <1>3 DEF IInv, TypeOK, CallsRight, BatchStops
  <1>5. QED
    BY <1>3, <1>4 DEF IInv

THEOREM Invariant == Spec => []IInv
  <1>1. IInv /\ [Next]_vars => IInv'
    <2> SUFFICES ASSUME IInv, [Next]_vars
                 PROVE  IInv'
      OBVIOUS
    <2>1. CASE \E input \in Inputs : Call(input)
      BY <2>1, NextCall
    <2>2. CASE \E i \in 1..MaxCalls : Step(i)
      BY <2>2, CallStep
    <2>3. QED
      BY <2>1, <2>2, ApplicationStep DEF Next, Done
  <1>2. QED
    BY <1>1, InitEstablishes, PTL DEF Spec

\* The locals of the calls and of the application have the types the code gives
\* them; in particular no call makes more than max_retries retries, and there are
\* never more results than calls.
THEOREM TypeCorrect == Spec => []TypeOK
  <1>1. IInv => TypeOK
    BY DEF IInv
  <1>2. QED
    BY <1>1, Invariant, PTL

\* For any inputs, replies, retries and calls at once: each call answers its own
\* input and no other, results come in the order of the inputs, and a batch stops
\* at its first exception (runnable.hpp:27-38, output_fixing_parser.hpp:24-42).
THEOREM AnswersItsInput == Spec => []AnswersOwnInput
  <1>1. IInv => AnswersOwnInput
    <2> SUFFICES ASSUME IInv
                 PROVE  AnswersOwnInput
      OBVIOUS
    <2>1. DOMAIN calls = 1..Len(calls) /\ DOMAIN results = 1..Len(results) /\ Len(results) <= Len(calls)
      BY SeqFacts DEF IInv, TypeOK
    <2>2. ASSUME NEW i \in DOMAIN calls
          PROVE  LET path == calls[i].path
                 IN  /\ \A k \in DOMAIN path :
                          path[k].key = IF k = 1
                                        THEN Key(Route(PromptFor(calls[i].input)), PromptFor(calls[i].input))
                                        ELSE Key(Fixer, FixPrompt(path[k - 1].content))
                     /\ \A k \in 1..(Len(path) - 1) : path[k].content \in Bad
                     /\ calls[i].pc \in {"returned", "unparsed"} => path # << >> /\ calls[i].current = Final(i)
                     /\ calls[i].pc = "returned" => Final(i) \in Good
                     /\ calls[i].pc = "unparsed" => Final(i) \in Bad /\ Len(path) = MaxRetries + 1
      <3>1. Right(calls[i]) /\ calls[i] \in CallRecords
        BY <2>1, SeqFacts DEF IInv, CallsRight, TypeOK
      <3>2. /\ calls[i].path \in Seq(Entries) /\ DOMAIN calls[i].path = 1..Len(calls[i].path)
            /\ calls[i].attempt \in Nat
        BY <3>1, SeqFacts DEF CallRecords
      <3>3. calls[i].pc \in {"returned", "unparsed"} => Len(calls[i].path) # 0
        BY <3>1, <3>2 DEF Right
      <3>4. calls[i].path = << >> => Len(calls[i].path) = 0
        OBVIOUS
      <3>5. QED
        BY <3>1, <3>2, <3>3, <3>4 DEF Right, Asked, RepliesBefore, FirstKey, RetryKey, Final
    <2>3. \A i \in DOMAIN results : calls[i].pc = "returned" /\ results[i] = Final(i)
      BY <2>1, <2>2 DEF IInv, Collected
    <2>4. QED
      BY <2>2, <2>3 DEF AnswersOwnInput, IInv, BatchStops
  <1>2. QED
    BY <1>1, Invariant, PTL

-----------------------------------------------------------------------------
(* What a cache settles.  Behind a cache calls are made one by one, and an  *)
(* entry stays what it is; so a call goes the way of every earlier call of  *)
(* its input that got through, reply by reply.                              *)

GotThrough(i) == calls[i].pc \in {"returned", "unparsed"}

OneByOne ==
  /\ cached => mode # "ainvoke"
  /\ mode # "ainvoke" => \A i \in 1..(Len(calls) - 1) : HasEnded(i)

\* Every reply of a call is in the cache, under the key it answered ...
Kept ==
  cached => \A i \in 1..Len(calls) : \A k \in 1..Len(calls[i].path) :
              LET entry == calls[i].path[k]
              IN  entry.key \in DOMAIN cache /\ cache[entry.key] = entry.content

\* ... so that who asks the same again is answered from it.
AskedOnce ==
  cached => \A i \in 1..Len(calls) : \A k, m \in 1..Len(calls[i].path) :
              k < m /\ calls[i].path[k].key = calls[i].path[m].key => ~calls[i].path[m].fresh

\* The replies of j are the first ones of i, and none is fresh.
Follows(j, i) ==
  /\ Len(calls[j].path) <= Len(calls[i].path)
  /\ \A k \in 1..Len(calls[j].path) :
       calls[j].path[k].content = calls[i].path[k].content /\ ~calls[j].path[k].fresh

SameWay ==
  cached => \A j \in 1..Len(calls) : \A i \in 1..(j - 1) :
              GotThrough(i) /\ calls[i].input = calls[j].input => Follows(j, i)

CInv ==
  /\ OneByOne
  /\ Kept
  /\ AskedOnce
  /\ SameWay

\* What is known of a call in the list.
LEMMA CallIs ==
  ASSUME IInv, NEW i \in 1..Len(calls)
  PROVE  /\ Len(calls) \in Nat /\ calls[i] \in CallRecords
         /\ Len(calls[i].path) \in Nat /\ calls[i].path \in Seq(Entries)
         /\ Right(calls[i])
  <1>1. Len(calls) \in Nat /\ calls[i] \in CallRecords
    BY SeqFacts DEF IInv, TypeOK
  <1>2. calls[i].path \in Seq(Entries)
    BY <1>1 DEF CallRecords
  <1>3. QED
    BY <1>1, <1>2, SeqFacts DEF IInv, CallsRight

\* The step of a call, but for what it asks and is answered.
LEMMA StepFrame ==
  ASSUME IInv, NEW i, Step(i)
  PROVE  /\ UNCHANGED << mode, cached, app >>
         /\ i \in 1..Len(calls) /\ ~HasEnded(i)
         /\ Len(calls') = Len(calls)
         /\ \A j \in 1..Len(calls) : j # i => calls'[j] = calls[j]
         /\ calls'[i].input = calls[i].input
         /\ \/ UNCHANGED cache /\ calls'[i].path = calls[i].path
            \/ \E content \in Good \cup Bad : ModelReplies(i, content)
  <1>1. UNCHANGED << mode, cached, app >>
    BY DEF Step, RunBranch, ModelReplies, BranchThrows, AskBranch, ModelThrows, Return, GiveUp, AskAgain
  <1>2. \E pc \in {"branches", "model", "parse"} : IsIn(i, pc)
    BY DEF Step, RunBranch, ModelReplies, BranchThrows, AskBranch, ModelThrows, Return, GiveUp, AskAgain
  <1>3. /\ i \in 1..Len(calls) /\ ~HasEnded(i) /\ calls[i] \in CallRecords
        /\ calls \in Seq(CallRecords) /\ DOMAIN calls = 1..Len(calls)
    BY <1>2, CallFacts, SeqFacts DEF HasEnded, IInv, TypeOK
  <1> DEFINE Only(c) == calls' = [calls EXCEPT ![i] = c] /\ c.input = calls[i].input
  <1>4. \E c : Only(c) /\ (\/ UNCHANGED cache /\ c.path = calls[i].path
                           \/ \E content \in Good \cup Bad : ModelReplies(i, content))
    <2>1. ASSUME NEW branch \in Branches, RunBranch(i, branch)
          PROVE  LET c == [calls[i] EXCEPT !.values = @ \cup {ValueOf(branch, calls[i].input)}]
                 IN  Only(c) /\ UNCHANGED cache /\ c.path = calls[i].path
      BY <1>3, <2>1 DEF RunBranch, CallRecords
    <2>2. ASSUME NEW content \in Good \cup Bad, ModelReplies(i, content)
          PROVE  LET c == [calls[i] EXCEPT !.pc = "parse", !.current = content, !.path = Replied(i, content)]
                 IN  Only(c)
      BY <1>3, <2>2 DEF ModelReplies, CallRecords
    <2>3. ASSUME NEW pc, calls' = [calls EXCEPT ![i].pc = pc]
          PROVE  LET c == [calls[i] EXCEPT !.pc = pc]
                 IN  Only(c) /\ c.path = calls[i].path
      BY <1>3, <2>3 DEF CallRecords
    <2>4. CASE AskBranch(i)
      <3> DEFINE prompt == Prompt(calls[i].values)
                 c == [calls[i] EXCEPT !.pc = "model", !.asking = Key(Route(prompt), prompt)]
      <3>1. Only(c) /\ UNCHANGED cache /\ c.path = calls[i].path
        BY <1>3, <2>4 DEF AskBranch, CallRecords
      <3>2. QED
        BY <3>1
    <2>5. CASE AskAgain(i)
      <3> DEFINE c == [calls[i] EXCEPT !.pc = "model", !.attempt = @ + 1,
                                       !.asking = Key(Fixer, FixPrompt(calls[i].current))]
      <3>1. Only(c) /\ UNCHANGED cache /\ c.path = calls[i].path
        BY <1>3, <2>5 DEF AskAgain, CallRecords
      <3>2. QED
        BY <3>1
    <2>6. CASE BranchThrows(i) \/ ModelThrows(i) \/ Return(i) \/ GiveUp(i)
      <3>1. UNCHANGED cache /\ \E pc \in {"failed", "returned", "unparsed"} : calls' = [calls EXCEPT ![i].pc = pc]
        BY <2>6 DEF BranchThrows, ModelThrows, Return, GiveUp
      <3>2. QED
        BY <2>3, <3>1
    <2>7. QED
      BY <2>1, <2>2, <2>4, <2>5, <2>6 DEF Step
  <1>5. QED
    BY <1>1, <1>3, <1>4

\* Behind a cache only the last call is under way.
LEMMA LastOnly ==
  ASSUME IInv, OneByOne, cached, NEW i \in 1..Len(calls), ~HasEnded(i)
  PROVE  i = Len(calls)
  BY CallIs DEF OneByOne

\* Where two calls of one input have had the same replies so far, the later one
\* is about to ask what the earlier one asked, and there was a reply to that.
LEMMA AsksTheSame ==
  ASSUME IInv, NEW i \in 1..Len(calls), NEW j \in 1..Len(calls),
         GotThrough(i), calls[j].pc = "model", calls[i].input = calls[j].input, Follows(j, i)
  PROVE  LET n == Len(calls[j].path)
         IN  n < Len(calls[i].path) /\ calls[i].path[n + 1].key = calls[j].asking
  <1> DEFINE n == Len(calls[j].path)
             m == Len(calls[i].path)
  <1>1. /\ n \in Nat /\ m \in Nat /\ n <= m /\ calls[j].attempt \in 0..MaxRetries
        /\ calls[i].attempt \in 0..MaxRetries
        /\ Right(calls[i]) /\ Right(calls[j])
    BY CallIs DEF CallRecords, Follows
  <1>2. m = calls[i].attempt + 1 /\ calls[i].current = calls[i].path[m].content
    BY <1>1 DEF Right, GotThrough
  <1>3. n = calls[j].attempt
    BY <1>1 DEF Right
  <1>4. CASE n = 0
    BY <1>1, <1>2, <1>4 DEF Right, Asked
  <1>5. CASE n > 0
    <2>1. n \in 1..n /\ calls[j].path[n].content \in Bad /\ calls[j].asking = RetryKey(calls[j].path[n].content)
      BY <1>1, <1>5 DEF Right
    <2>2. calls[i].path[n].content = calls[j].path[n].content
      BY <2>1 DEF Follows
    <2>3. n # m
      <3>1. CASE calls[i].pc = "returned"
        BY <1>1, <1>2, <2>1, <2>2, <3>1 DEF Right
      <3>2. CASE calls[i].pc = "unparsed"
        BY <1>1, <1>2, <1>3, <3>2 DEF Right
      <3>3. QED
        BY <3>1, <3>2 DEF GotThrough
    <2>4. n + 1 \in 1..m /\ n + 1 # 1
      BY <1>1, <1>5, <2>3
    <2>5. calls[i].path[n + 1].key = RetryKey(calls[i].path[n].content)
      BY <1>1, <2>4 DEF Right, Asked
    <2>6. QED
      BY <2>1, <2>2, <2>4, <2>5
  <1>6. QED
    BY <1>1, <1>4, <1>5

\* A reply is kept, and is the one that the cache has for its key.
LEMMA ReplyIsKept ==
  ASSUME IInv, CInv, NEW i, NEW content \in Good \cup Bad, ModelReplies(i, content), cached
  PROVE  LET n     == Len(calls[i].path)
             entry == [key |-> calls[i].asking, content |-> content, fresh |-> calls[i].asking \notin DOMAIN cache]
         IN  /\ calls'[i].path \in Seq(Entries) /\ Len(calls'[i].path) = n + 1 /\ n \in Nat
             /\ \A k \in 1..n : calls'[i].path[k] = calls[i].path[k]
             /\ calls'[i].path[n + 1] = entry
             /\ calls[i].asking \in DOMAIN cache => content = cache[calls[i].asking]
             /\ calls[i].asking \in DOMAIN cache' /\ cache'[calls[i].asking] = content
             /\ \A key \in DOMAIN cache : key \in DOMAIN cache' /\ cache'[key] = cache[key]
  <1> DEFINE n     == Len(calls[i].path)
             entry == [key |-> calls[i].asking, content |-> content, fresh |-> calls[i].asking \notin DOMAIN cache]
  <1>1. IsIn(i, "model")
    BY DEF ModelReplies
  <1>2. calls[i].path \in Seq(Entries) /\ calls[i] \in CallRecords
    BY <1>1, CallFacts, CallIs
  <1>3. entry \in Entries
    BY <1>1, AskingIsKey DEF Entries, Contents
  <1>4. calls'[i].path = Append(calls[i].path, entry)
    BY <1>1, <1>2, CallFacts DEF ModelReplies, Replied, CallRecords, IsIn
  <1>5. /\ calls'[i].path \in Seq(Entries) /\ Len(calls'[i].path) = n + 1 /\ n \in Nat
        /\ \A k \in 1..n : calls'[i].path[k] = calls[i].path[k]
        /\ calls'[i].path[n + 1] = entry
    BY <1>2, <1>3, <1>4, AppendProperties, LenProperties
  <1>6. /\ calls[i].asking \in DOMAIN cache => content = cache[calls[i].asking]
        /\ cache' = Put(calls[i].asking, content)
    BY DEF ModelReplies
  <1>7. QED
    BY <1>5, <1>6 DEF Put

LEMMA ReplyCached ==
  ASSUME IInv, CInv, NEW i, NEW content \in Good \cup Bad, ModelReplies(i, content), Step(i)
  PROVE  Kept' /\ AskedOnce' /\ SameWay'
  <1> SUFFICES ASSUME cached
               PROVE  Kept' /\ AskedOnce' /\ SameWay'
    BY StepFrame DEF Kept, AskedOnce, SameWay
  <1> DEFINE n == Len(calls[i].path)
  <1>1. /\ i \in 1..Len(calls) /\ ~HasEnded(i) /\ Len(calls') = Len(calls)
        /\ \A j \in 1..Len(calls) : j # i => calls'[j] = calls[j]
        /\ calls'[i].input = calls[i].input /\ cached'
    BY StepFrame
  <1>2. i = Len(calls) /\ Len(calls) \in Nat
    BY <1>1, LastOnly, CallIs DEF CInv
  <1>3. /\ Len(calls'[i].path) = n + 1 /\ n \in Nat
        /\ \A k \in 1..n : calls'[i].path[k] = calls[i].path[k]
        /\ calls'[i].path[n + 1].key = calls[i].asking
        /\ calls'[i].path[n + 1].content = content
        /\ calls[i].asking \in DOMAIN cache => ~calls'[i].path[n + 1].fresh
        /\ calls[i].asking \in DOMAIN cache => content = cache[calls[i].asking]
        /\ calls[i].asking \in DOMAIN cache' /\ cache'[calls[i].asking] = content
        /\ \A key \in DOMAIN cache : key \in DOMAIN cache' /\ cache'[key] = cache[key]
    <2> DEFINE entry == [key |-> calls[i].asking, content |-> content, fresh |-> calls[i].asking \notin DOMAIN cache]
    <2>1. /\ entry.key = calls[i].asking /\ entry.content = content
          /\ calls[i].asking \in DOMAIN cache => ~entry.fresh
      OBVIOUS
    <2>2. /\ Len(calls'[i].path) = n + 1 /\ n \in Nat
          /\ \A k \in 1..n : calls'[i].path[k] = calls[i].path[k]
          /\ calls'[i].path[n + 1] = entry
          /\ calls[i].asking \in DOMAIN cache => content = cache[calls[i].asking]
          /\ calls[i].asking \in DOMAIN cache' /\ cache'[calls[i].asking] = content
          /\ \A key \in DOMAIN cache : key \in DOMAIN cache' /\ cache'[key] = cache[key]
      BY ReplyIsKept
    <2> HIDE DEF entry
    <2>3. QED
      BY <2>1, <2>2
  <1>4. Kept'
    <2> SUFFICES ASSUME NEW j \in 1..Len(calls), NEW k \in 1..Len(calls'[j].path)
                 PROVE  /\ calls'[j].path[k].key \in DOMAIN cache'
                        /\ cache'[calls'[j].path[k].key] = calls'[j].path[k].content
      BY <1>1 DEF Kept
    <2>1. CASE j # i \/ k # n + 1
      <3>1. k \in 1..Len(calls[j].path) /\ calls'[j].path[k] = calls[j].path[k]
        <4>1. CASE j # i
          BY <1>1, <4>1
        <4>2. CASE j = i
          <5>1. n \in Nat /\ k \in 1..(n + 1) /\ k # n + 1
            BY <1>3, <2>1, <4>2
          <5>2. k \in 1..n
            BY <5>1
          <5>3. QED
            BY <1>3, <4>2, <5>2
        <4>3. QED
          BY <4>1, <4>2
      <3>2. /\ calls[j].path[k].key \in DOMAIN cache
            /\ cache[calls[j].path[k].key] = calls[j].path[k].content
        BY <3>1 DEF CInv, Kept
      <3>3. QED
        BY <1>3, <3>1, <3>2
    <2>2. CASE j = i /\ k = n + 1
      BY <1>3, <2>2
    <2>3. QED
      BY <2>1, <2>2
  <1>5. AskedOnce'
    <2> SUFFICES ASSUME NEW j \in 1..Len(calls),
                        NEW k \in 1..Len(calls'[j].path), NEW m \in 1..Len(calls'[j].path),
                        k < m, calls'[j].path[k].key = calls'[j].path[m].key
                 PROVE  ~calls'[j].path[m].fresh
      BY <1>1 DEF AskedOnce
    <2>1. CASE j # i
      BY <1>1, <2>1 DEF CInv, AskedOnce
    <2>2. CASE j = i /\ m # n + 1
      <3>1. k \in 1..n /\ m \in 1..n
        <4>1. n \in Nat /\ k \in 1..(n + 1) /\ m \in 1..(n + 1)
          BY <1>3, <2>2
        <4>2. QED
          BY <2>2, <4>1
      <3>2. calls'[i].path[k] = calls[i].path[k] /\ calls'[i].path[m] = calls[i].path[m]
        BY <1>3, <3>1
      <3>3. QED
        BY <1>1, <2>2, <3>1, <3>2 DEF CInv, AskedOnce
    <2>3. CASE j = i /\ m = n + 1
      <3>1. k \in 1..n
        BY <1>3, <2>3
      <3>2. calls[i].path[k].key \in DOMAIN cache
        BY <1>1, <3>1 DEF CInv, Kept
      <3>3. QED
        BY <1>3, <2>3, <3>1, <3>2
    <2>4. QED
      BY <2>1, <2>2, <2>3
  <1>6. SameWay'
    <2> SUFFICES ASSUME NEW j \in 1..Len(calls), NEW h \in 1..(j - 1),
                        calls'[h].pc \in {"returned", "unparsed"}, calls'[h].input = calls'[j].input
                 PROVE  Follows(j, h)'
      BY <1>1 DEF SameWay, GotThrough
    <2>1. h # i /\ h \in 1..Len(calls) /\ calls'[h] = calls[h]
      BY <1>1, <1>2
    <2>2. GotThrough(h) /\ calls[h].input = calls[j].input
      BY <1>1, <2>1 DEF GotThrough
    <2>3. Follows(j, h)
      BY <2>2 DEF CInv, SameWay
    <2>4. CASE j # i
      BY <1>1, <2>1, <2>3, <2>4 DEF Follows
    <2>5. CASE j = i
      <3>1. calls[i].pc = "model"
        BY DEF ModelReplies, IsIn
      <3>2. n < Len(calls[h].path) /\ calls[h].path[n + 1].key = calls[i].asking
        BY <1>1, <2>1, <2>2, <2>3, <2>5, <3>1, AsksTheSame
      <3>3. Len(calls[h].path) \in Nat
        BY <2>1, CallIs
      <3>4. n + 1 \in 1..Len(calls[h].path)
        BY <1>3, <3>2, <3>3
      <3>5. calls[i].asking \in DOMAIN cache /\ cache[calls[i].asking] = calls[h].path[n + 1].content
        BY <2>1, <3>2, <3>4 DEF CInv, Kept
      <3>6. ASSUME NEW k \in 1..(n + 1)
            PROVE  calls'[i].path[k].content = calls[h].path[k].content /\ ~calls'[i].path[k].fresh
        <4>1. CASE k = n + 1
          BY <1>3, <3>5, <4>1
        <4>2. CASE k # n + 1
          <5>1. n \in Nat
            BY <1>3
          <5> HIDE DEF n
          <5>2. k \in 1..n
            BY <4>2, <5>1
          <5> USE DEF n
          <5>3. QED
            BY <1>3, <2>3, <2>5, <5>2 DEF Follows
        <4>3. QED
          BY <4>1, <4>2
      <3>7. Len(calls'[i].path) <= Len(calls[h].path)
        BY <1>3, <3>2, <3>3
      <3>8. QED
        BY <1>3, <2>1, <2>5, <3>6, <3>7 DEF Follows
    <2>6. QED
      BY <2>4, <2>5
  <1>7. QED
    BY <1>4, <1>5, <1>6

\* Any other step of a call asks and keeps nothing.
LEMMA QuietStep ==
  ASSUME IInv, CInv, NEW i, Step(i), UNCHANGED cache, calls'[i].path = calls[i].path
  PROVE  Kept' /\ AskedOnce' /\ SameWay'
  <1>1. /\ i \in 1..Len(calls) /\ ~HasEnded(i) /\ Len(calls') = Len(calls)
        /\ \A j \in 1..Len(calls) : j # i => calls'[j] = calls[j]
        /\ calls'[i].input = calls[i].input /\ cached' = cached
    BY StepFrame
  <1>2. \A j \in 1..Len(calls) : calls'[j].path = calls[j].path /\ calls'[j].input = calls[j].input
    BY <1>1
  <1>3. Kept' /\ AskedOnce'
    <2>1. Kept'
      BY <1>1, <1>2 DEF CInv, Kept
    <2>2. AskedOnce'
      BY <1>1, <1>2 DEF CInv, AskedOnce
    <2>3. QED
      BY <2>1, <2>2
  <1>4. SameWay'
    <2> SUFFICES ASSUME cached, NEW j \in 1..Len(calls), NEW h \in 1..(j - 1),
                        calls'[h].pc \in {"returned", "unparsed"}, calls'[h].input = calls'[j].input
                 PROVE  Follows(j, h)'
      BY <1>1 DEF SameWay, GotThrough
    <2>1. i = Len(calls) /\ Len(calls) \in Nat
      BY <1>1, LastOnly, CallIs DEF CInv
    <2>2. h # i /\ h \in 1..Len(calls) /\ calls'[h] = calls[h]
      BY <1>1, <2>1
    <2>3. Follows(j, h)
      BY <1>2, <2>2 DEF CInv, SameWay, GotThrough
    <2>4. QED
      BY <1>2, <2>2, <2>3 DEF Follows
  <1>5. QED
    BY <1>3, <1>4

LEMMA NextCallCached ==
  ASSUME IInv, CInv, NEW input \in Inputs, Call(input)
  PROVE  CInv'
  <1> DEFINE n == Len(calls)
  <1>1. calls \in Seq(CallRecords) /\ n \in Nat /\ DOMAIN calls = 1..n
    BY SeqFacts DEF IInv, TypeOK
  <1>2. NewCall(input) \in CallRecords
    BY DEF NewCall, CallRecords
  <1>3. /\ calls' = Append(calls, NewCall(input)) /\ UNCHANGED << mode, cached, cache >>
        /\ mode # "ainvoke" => \A i \in 1..n : HasEnded(i)
    BY <1>1 DEF Call, AllEnded
  <1>4. /\ Len(calls') = n + 1
        /\ calls'[n + 1].path = << >> /\ Len(<< >>) = 0
        /\ \A i \in 1..n : calls'[i] = calls[i]
    <2>1. NewCall(input).path = << >>
      BY DEF NewCall
    <2>2. QED
      BY <1>1, <1>2, <1>3, <2>1, AppendProperties, EmptySeq
  <1>5. OneByOne'
    BY <1>1, <1>3, <1>4 DEF CInv, OneByOne, HasEnded
  <1>6. Kept' /\ AskedOnce'
    <2>1. ASSUME NEW i \in 1..(n + 1), calls'[i].path # << >>
          PROVE  i \in 1..n /\ calls'[i] = calls[i]
      BY <1>1, <1>4, <2>1
    <2>2. ASSUME NEW i \in 1..(n + 1), NEW k \in 1..Len(calls'[i].path)
          PROVE  calls'[i].path # << >>
      BY <1>4, <2>2
    <2>3. QED
      BY <1>3, <1>4, <2>1, <2>2 DEF CInv, Kept, AskedOnce
  <1>7. SameWay'
    <2> SUFFICES ASSUME cached, NEW j \in 1..(n + 1), NEW i \in 1..(j - 1),
                        calls'[i].pc \in {"returned", "unparsed"}, calls'[i].input = calls'[j].input
                 PROVE  Follows(j, i)'
      BY <1>3, <1>4 DEF SameWay, GotThrough
    <2>1. i \in 1..n /\ calls'[i] = calls[i] /\ Len(calls[i].path) \in Nat
      BY <1>1, <1>4, CallIs
    <2>2. CASE j = n + 1
      BY <1>4, <2>1, <2>2 DEF Follows
    <2>3. CASE j # n + 1
      <3>1. j \in 1..n /\ calls'[j] = calls[j]
        BY <1>1, <1>4, <2>3
      <3>2. Follows(j, i)
        BY <2>1, <3>1 DEF CInv, SameWay, GotThrough
      <3>3. QED
        BY <2>1, <3>1, <3>2 DEF Follows
    <2>4. QED
      BY <2>2, <2>3
  <1>8. QED
    BY <1>5, <1>6, <1>7 DEF CInv

LEMMA CacheStep == IInv /\ CInv /\ [Next]_vars => CInv'
  <1> SUFFICES ASSUME IInv, CInv, [Next]_vars
               PROVE  CInv'
    OBVIOUS
  <1>1. CASE \E input \in Inputs : Call(input)
    BY <1>1, NextCallCached
  <1>2. ASSUME NEW i, Step(i)
        PROVE  CInv'
    <2>1. OneByOne'
      <3>1. /\ i \in 1..Len(calls) /\ ~HasEnded(i) /\ Len(calls') = Len(calls)
            /\ \A j \in 1..Len(calls) : j # i => calls'[j] = calls[j]
            /\ UNCHANGED << mode, cached >>
        BY <1>2, StepFrame
      <3>2. Len(calls) \in Nat
        BY <3>1, CallIs
      <3>3. QED
        BY <3>1, <3>2 DEF CInv, OneByOne, HasEnded
    <2>2. Kept' /\ AskedOnce' /\ SameWay'
      <3>1. CASE \E content \in Good \cup Bad : ModelReplies(i, content)
        BY <1>2, <3>1, ReplyCached
      <3>2. CASE UNCHANGED cache /\ calls'[i].path = calls[i].path
        BY <1>2, <3>2, QuietStep
      <3>3. QED
        BY <1>2, <3>1, <3>2, StepFrame
    <2>3. QED
      BY <2>1, <2>2 DEF CInv
  <1>3. CASE \/ CallFails \/ Wait \/ LetGo \/ Destroy \/ UNCHANGED vars
             \/ \E i \in 1..MaxCalls : Collect(i) \/ Rethrow(i)
    <2>1. UNCHANGED << mode, cached, calls, cache >>
      BY <1>3 DEF CallFails, Wait, LetGo, Destroy, vars, Collect, Rethrow
    <2>2. OneByOne'
      BY <2>1 DEF CInv, OneByOne, HasEnded
    <2>3. Kept' /\ AskedOnce'
      BY <2>1 DEF CInv, Kept, AskedOnce
    <2>4. SameWay'
      BY <2>1 DEF CInv, SameWay, GotThrough, Follows
    <2>5. QED
      BY <2>2, <2>3, <2>4 DEF CInv
  <1>4. QED
    BY <1>1, <1>2, <1>3 DEF Next, Done

\* For any inputs, replies and retries: behind a cache the first call of an input
\* that got through settles how every later one ends, and a retry that asks what
\* was asked before gets what it got (caching_chat_model.cpp:47-54 under
\* output_fixing_parser.hpp:37).
THEOREM CacheSettles == Spec => []Settled
  <1>1. Init => CInv
    <2> SUFFICES ASSUME Init
                 PROVE  CInv
      OBVIOUS
    <2>1. Len(calls) = 0 /\ (cached => mode # "ainvoke")
      BY EmptySeq DEF Init
    <2>2. QED
      BY <2>1 DEF CInv, OneByOne, Kept, AskedOnce, SameWay
  <1>2. IInv /\ CInv => Settled
    <2> SUFFICES ASSUME IInv, CInv, cached, NEW j \in DOMAIN calls
                 PROVE  LET path == calls[j].path
                        IN  /\ \A i \in 1..(j - 1) :
                                 calls[i].pc \in {"returned", "unparsed"} /\ calls[i].input = calls[j].input =>
                                   /\ \A k \in DOMAIN path : ~path[k].fresh
                                   /\ calls[j].pc \in {"returned", "unparsed"} =>
                                        calls[j].pc = calls[i].pc /\ Final(j) = Final(i)
                            /\ \A k, m \in DOMAIN path :
                                 k < m /\ path[k].key = path[m].key =>
                                   path[m].content = path[k].content /\ ~path[m].fresh
      BY DEF Settled
    <2>1. j \in 1..Len(calls) /\ Len(calls) \in Nat
      BY SeqFacts DEF IInv, TypeOK
    <2>2. /\ Len(calls[j].path) \in Nat /\ DOMAIN calls[j].path = 1..Len(calls[j].path)
          /\ Right(calls[j]) /\ calls[j].attempt \in 0..MaxRetries
      BY <2>1, CallIs, SeqFacts DEF CallRecords
    <2>3. ASSUME NEW k \in DOMAIN calls[j].path, NEW m \in DOMAIN calls[j].path,
                 k < m, calls[j].path[k].key = calls[j].path[m].key
          PROVE  calls[j].path[m].content = calls[j].path[k].content /\ ~calls[j].path[m].fresh
      BY <2>1, <2>2, <2>3 DEF CInv, Kept, AskedOnce
    <2>4. ASSUME NEW i \in 1..(j - 1), GotThrough(i), calls[i].input = calls[j].input
          PROVE  /\ \A k \in DOMAIN calls[j].path : ~calls[j].path[k].fresh
                 /\ GotThrough(j) => calls[j].pc = calls[i].pc /\ Final(j) = Final(i)
      <3> DEFINE n == Len(calls[j].path)
                 m == Len(calls[i].path)
      <3>1. i \in 1..Len(calls)
        BY <2>1
      <3>2. m \in Nat /\ Right(calls[i]) /\ calls[i].attempt \in 0..MaxRetries
        BY <3>1, CallIs DEF CallRecords
      <3>3. Follows(j, i)
        BY <2>1, <2>4 DEF CInv, SameWay
      <3>4. \A k \in DOMAIN calls[j].path : ~calls[j].path[k].fresh
        BY <2>2, <3>3 DEF Follows
      <3>5. ASSUME GotThrough(j)
            PROVE  calls[j].pc = calls[i].pc /\ Final(j) = Final(i)
        <4>1. /\ n = calls[j].attempt + 1 /\ calls[j].current = calls[j].path[n].content
              /\ m = calls[i].attempt + 1 /\ calls[i].current = calls[i].path[m].content
              /\ n <= m
          BY <2>2, <2>4, <3>2, <3>3, <3>5 DEF Right, GotThrough, Follows
        <4>2. n \in 1..n /\ calls[i].path[n].content = calls[j].current
          <5>1. calls[j].attempt \in Nat
            BY <2>2
          <5>2. n \in 1..n
            BY <4>1, <5>1
          <5>3. QED
            BY <3>3, <4>1, <5>2 DEF Follows
        <4>3. n # m => n \in 1..(m - 1) /\ calls[j].current \in Bad
          <5> SUFFICES ASSUME n # m
                       PROVE  n \in 1..(m - 1) /\ calls[j].current \in Bad
            OBVIOUS
          <5>1. n \in 1..(m - 1)
            BY <2>2, <3>2, <4>1
          <5>2. RepliesBefore(calls[i].path)
            BY <3>2 DEF Right
          <5>3. calls[i].path[n].content \in Bad
            BY <5>1, <5>2 DEF RepliesBefore
          <5>4. QED
            BY <4>2, <5>1, <5>3
        <4>4. n = m
          <5>1. CASE calls[j].pc = "returned"
            BY <2>2, <4>3, <5>1 DEF Right
          <5>2. CASE calls[j].pc = "unparsed"
            BY <2>2, <3>2, <4>1, <5>2 DEF Right
          <5>3. QED
            BY <3>5, <5>1, <5>2 DEF GotThrough
        <4>5. Final(j) = Final(i) /\ calls[i].current = calls[j].current
          BY <4>1, <4>2, <4>4 DEF Final
        <4>6. calls[j].pc = calls[i].pc
          BY <2>2, <2>4, <3>2, <3>5, <4>5 DEF Right, GotThrough
        <4>7. QED
          BY <4>5, <4>6
      <3>6. QED
        BY <3>4, <3>5
    <2>5. QED
      BY <2>3, <2>4 DEF GotThrough
  <1>3. QED
    BY <1>1, <1>2, CacheStep, Invariant, PTL DEF Spec
=============================================================================
