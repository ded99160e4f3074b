--------------------------- MODULE ChatHistoryProofs ---------------------------
(***************************************************************************)
(* For any number of turns, messages and faults: no crash, full disk or    *)
(* text that cannot be written takes a turn that returned out of a history *)
(* that can be loaded, or out of what the model is shown; only a process   *)
(* that could not open the file when it started does.  The invariant       *)
(* follows the turn under way, message by message (UpTo), and ties what    *)
(* the running process holds, and what is on disk, to the turns kept.      *)
(***************************************************************************)
EXTENDS ChatHistory, SequenceTheorems, TLAPS

USE HistoryAssumption DEF HistoryAssumption

\* Every turn kept is in a log.
Told(log, turns) ==
  \A k \in 1..Len(turns), p \in 1..Reply : Has(log, Message(turns[k], p))

\* A log as a process may leave it.
Sound(log) ==
  /\ InOrder(log)
  /\ \A j \in 1..Len(log), p \in 1..Reply : p < log[j].place => Has(log, Message(log[j].turn, p))
  /\ \A j \in 1..Len(log) : log[j].turn <= turn

\* The turn under way is in the history up to its n-th message.
UpTo(n) ==
  /\ \A i \in 1..Len(messages) :
       messages[i].turn < turn \/ (messages[i].turn = turn /\ messages[i].place <= n)
  /\ \A p \in 1..Reply : p <= n => Has(messages, Message(turn, p))

\* Where the turn is.
Progress ==
  /\ pc \in {"model", "add"} => turn > 0
  /\ pc = "model" => UpTo(0)
  /\ pc = "add" => next <= Reply /\ UpTo(next - 1)
  /\ pc \in {"open", "write"} =>
       IF next <= Reply THEN UpTo(next) ELSE messages = << >> /\ kept = << >>
  /\ pc = "write" => file.state = "broken" /\ ~unread

IInv ==
  /\ TypeOK
  /\ Sound(messages) /\ Sound(file.content)
  /\ file.state # "whole" => file.content = << >>
  /\ pc = "down" => messages = << >> /\ ~unread
  /\ pc # "down" => Told(messages, Known)
  /\ Progress
  /\ KeptOnDisk
  /\ ModelRemembers

-----------------------------------------------------------------------------
(* Logs that grow.                                                         *)

LEMMA ReplyIs == Reply \in Nat /\ Reply = NewMessages + 1 /\ Reply > 1
BY DEF Reply

LEMMA MessageTyped ==
  ASSUME NEW t \in 1..MaxTurns, NEW p \in 1..Reply
  PROVE  Message(t, p) \in Messages /\ Message(t, p).turn = t /\ Message(t, p).place = p
BY DEF Message, Messages

LEMMA LogTyped ==
  ASSUME NEW log \in Seq(Messages)
  PROVE  /\ Len(log) \in Nat
         /\ \A i \in 1..Len(log) :
              /\ log[i] \in Messages
              /\ log[i].turn \in 1..MaxTurns /\ log[i].place \in 1..Reply
              /\ log[i].turn \in Nat /\ log[i].place \in Nat
<1>1. Len(log) \in Nat /\ \A i \in 1..Len(log) : log[i] \in Messages
  OBVIOUS
<1>2. \A m \in Messages : m.turn \in 1..MaxTurns /\ m.place \in 1..Reply
  BY DEF Messages
<1>3. QED
  BY <1>1, <1>2, ReplyIs

\* A message is added behind those that come before it.
LEMMA AppendInOrder ==
  ASSUME NEW log \in Seq(Messages), NEW m \in Messages, InOrder(log),
         \A i \in 1..Len(log) :
           \/ log[i].turn < m.turn
           \/ log[i].turn = m.turn /\ log[i].place < m.place
  PROVE  /\ InOrder(Append(log, m)) /\ Append(log, m) \in Seq(Messages)
         /\ Len(Append(log, m)) = Len(log) + 1
         /\ \A i \in 1..Len(log) : Append(log, m)[i] = log[i]
         /\ Append(log, m)[Len(log) + 1] = m
         /\ 1..Len(Append(log, m)) = 1..Len(log) \cup {Len(log) + 1}
         /\ \A x : Has(log, x) => Has(Append(log, m), x)
         /\ Has(Append(log, m), m)
<1> DEFINE more == Append(log, m)
<1>1. /\ more \in Seq(Messages) /\ Len(log) \in Nat /\ Len(more) = Len(log) + 1
      /\ \A i \in 1..Len(log) : more[i] = log[i]
      /\ more[Len(log) + 1] = m
  OBVIOUS
<1>2. 1..Len(more) = 1..Len(log) \cup {Len(log) + 1}
  BY <1>1
<1> HIDE DEF more
<1>3. InOrder(more)
  <2>1. ASSUME NEW i \in 1..Len(more), NEW j \in 1..Len(more), i < j
        PROVE  \/ more[i].turn < more[j].turn
               \/ more[i].turn = more[j].turn /\ more[i].place < more[j].place
    <3>1. i \in 1..Len(log)
      BY <1>1, <1>2, <2>1
    <3>2. CASE j \in 1..Len(log)
      BY <1>1, <2>1, <3>1, <3>2 DEF InOrder
    <3>3. CASE j = Len(log) + 1
      BY <1>1, <3>1, <3>3
    <3>4. QED
      BY <1>2, <3>2, <3>3
  <2>2. QED
    BY <2>1 DEF InOrder
<1>4. (\A x : Has(log, x) => Has(more, x)) /\ Has(more, m)
  BY <1>1, <1>2 DEF Has
<1>5. QED
  BY <1>1, <1>2, <1>3, <1>4 DEF more

\* The messages of a new turn are added behind older ones.
LEMMA TurnInOrder ==
  ASSUME NEW log \in Seq(Messages), NEW t \in 1..MaxTurns, InOrder(log),
         \A i \in 1..Len(log) : log[i].turn < t
  PROVE  /\ InOrder(log \o NewOf(t)) /\ log \o NewOf(t) \in Seq(Messages)
         /\ \A x : Has(log, x) => Has(log \o NewOf(t), x)
         /\ Len(log \o NewOf(t)) = Len(log) + NewMessages
         /\ \A p \in 1..NewMessages : (log \o NewOf(t))[Len(log) + p] = Message(t, p)
<1> DEFINE new == NewOf(t)
           more == log \o new
<1>1. /\ new \in Seq(Messages) /\ Len(new) = NewMessages
      /\ \A p \in 1..NewMessages : new[p] = Message(t, p)
  <2>1. \A p \in 1..NewMessages : Message(t, p) \in Messages
    BY MessageTyped, ReplyIs
  <2>2. new = [p \in 1..NewMessages |-> Message(t, p)]
    BY DEF NewOf
  <2>3. QED
    BY <2>1, <2>2
<1> HIDE DEF new
<1>2. /\ more \in Seq(Messages) /\ Len(log) \in Nat /\ Len(more) = Len(log) + NewMessages
      /\ \A i \in 1..Len(log) : more[i] = log[i]
      /\ \A p \in 1..NewMessages : more[Len(log) + p] = new[p]
  BY <1>1
<1> HIDE DEF more
<1>3. \A i \in 1..Len(more) : i \in 1..Len(log) \/ \E p \in 1..NewMessages : i = Len(log) + p
  <2>1. ASSUME NEW i \in 1..Len(more), i \notin 1..Len(log)
        PROVE  \E p \in 1..NewMessages : i = Len(log) + p
    <3>1. i - Len(log) \in 1..NewMessages /\ i = Len(log) + (i - Len(log))
      BY <1>2, <2>1
    <3>2. QED
      BY <3>1
  <2>2. QED
    BY <2>1
<1>4. \A p \in 1..NewMessages : more[Len(log) + p].turn = t /\ more[Len(log) + p].place = p
  BY <1>1, <1>2, MessageTyped, ReplyIs
<1>5. InOrder(more)
  <2>1. ASSUME NEW i \in 1..Len(more), NEW j \in 1..Len(more), i < j
        PROVE  \/ more[i].turn < more[j].turn
               \/ more[i].turn = more[j].turn /\ more[i].place < more[j].place
    <3>1. CASE j \in 1..Len(log)
      BY <1>2, <2>1, <3>1 DEF InOrder
    <3>2. ASSUME NEW q \in 1..NewMessages, j = Len(log) + q
          PROVE  \/ more[i].turn < more[j].turn
                 \/ more[i].turn = more[j].turn /\ more[i].place < more[j].place
      <4>1. CASE i \in 1..Len(log)
        BY <1>2, <1>4, <3>2, <4>1
      <4>2. ASSUME NEW p \in 1..NewMessages, i = Len(log) + p
            PROVE  more[i].turn = more[j].turn /\ more[i].place < more[j].place
        <5>1. p < q
          BY <1>2, <2>1, <3>2, <4>2
        <5>2. /\ more[i].turn = t /\ more[i].place = p
              /\ more[j].turn = t /\ more[j].place = q
          BY <1>4, <3>2, <4>2
        <5>3. QED
          BY <5>1, <5>2
      <4>3. QED
        BY <1>3, <4>1, <4>2
    <3>3. QED
      BY <1>3, <3>1, <3>2
  <2>2. QED
    BY <2>1 DEF InOrder
<1>6. \A x : Has(log, x) => Has(more, x)
  <2>1. \A i \in 1..Len(log) : i \in 1..Len(more)
    BY <1>2
  <2>2. QED
    BY <1>2, <2>1 DEF Has
<1>7. QED
  BY <1>1, <1>2, <1>5, <1>6 DEF more, new

-----------------------------------------------------------------------------
(* The steps.                                                              *)

\* What is in a log does not change while the log does not.
LEMMA SameLog ==
  ASSUME IInv, turn' \in Nat, turn' >= turn, messages' \in {messages, << >>, file.content},
         file' = file \/ file'.content \in {messages, << >>}
  PROVE  Sound(messages)' /\ Sound(file.content)'
<1>1. /\ messages \in Seq(Messages) /\ file.content \in Seq(Messages) /\ turn \in Nat
      /\ << >> \in Seq(Messages)
  BY DEF IInv, TypeOK
<1>2. Sound(messages) /\ Sound(file.content) /\ Sound(<< >>)
  BY DEF IInv, Sound, InOrder
<1>3. ASSUME NEW log \in Seq(Messages), Sound(log)
      PROVE  /\ InOrder(log)
             /\ \A j \in 1..Len(log), p \in 1..Reply : p < log[j].place => Has(log, Message(log[j].turn, p))
             /\ \A j \in 1..Len(log) : log[j].turn <= turn'
  <2>1. \A j \in 1..Len(log) : log[j].turn \in Nat
    BY LogTyped
  <2>2. \A j \in 1..Len(log) : log[j].turn <= turn
    BY <1>3 DEF Sound
  <2>3. \A j \in 1..Len(log) : log[j].turn <= turn'
    BY <1>1, <2>1, <2>2
  <2>4. QED
    BY <1>3, <2>3 DEF Sound
<1>4. Sound(messages)'
  BY <1>1, <1>2, <1>3 DEF Sound
<1>5. file'.content \in {messages, << >>, file.content}
  OBVIOUS
<1>6. Sound(file.content)'
  BY <1>1, <1>2, <1>3, <1>5 DEF Sound
<1>7. QED
  BY <1>4, <1>6

\* Steps of a running process that touch neither its messages nor the file.
LEMMA Quiet ==
  ASSUME IInv, TypeOK', UNCHANGED << messages, file, turn, kept, unread >>,
         pc # "down", pc' \notin {"down", "model"}, Progress',
         file.state = "broken" => pc' = "write" \/ damage'
  PROVE  IInv'
<1>1. Sound(messages)' /\ Sound(file.content)'
  BY DEF IInv, Sound
<1>2. Told(messages, Known)'
  BY DEF IInv, Told, Known
<1>3. KeptOnDisk'
  BY DEF IInv, KeptOnDisk, Remembers
<1>4. ModelRemembers'
  BY DEF ModelRemembers
<1>5. file'.state # "whole" => file'.content = << >>
  BY DEF IInv
<1>6. QED
  BY <1>1, <1>2, <1>3, <1>4, <1>5 DEF IInv

LEMMA QuietStep ==
  ASSUME IInv, ModelThrows \/ ModelReplies \/ OpenThrows \/ DumpThrows
  PROVE  IInv'
<1>1. CASE ModelThrows \/ OpenThrows \/ DumpThrows
  <2>1. /\ pc \in {"model", "open", "write"} /\ pc' = "idle"
        /\ UNCHANGED << messages, file, turn, next, sent, kept, poisoned, unread >>
        /\ faults' \in 0..MaxFaults
        /\ damage' \in {damage, TRUE} /\ (pc = "write" => damage' = TRUE)
    <3>1. CASE ModelThrows
      BY <3>1 DEF ModelThrows, IInv, TypeOK
    <3>2. CASE OpenThrows
      BY <3>2 DEF OpenThrows, Fault, IInv, TypeOK
    <3>3. CASE DumpThrows
      BY <3>3 DEF DumpThrows, IInv, TypeOK
    <3>4. QED
      BY <1>1, <3>1, <3>2, <3>3
  <2>2. TypeOK'
    <3>1. damage' \in BOOLEAN
      BY <2>1 DEF IInv, TypeOK
    <3>2. QED
      BY <2>1, <3>1 DEF IInv, TypeOK
  <2>3. Progress'
    BY <2>1 DEF Progress
  <2>4. file.state = "broken" => pc = "write" \/ damage
    BY DEF IInv, KeptOnDisk
  <2>5. file.state = "broken" => damage'
    <3>1. CASE pc = "write"
      BY <2>1, <3>1
    <3>2. ASSUME pc # "write", file.state = "broken"
          PROVE  damage'
      <4>1. damage
        BY <2>4, <3>2
      <4>2. damage' = damage \/ damage' = TRUE
        BY <2>1
      <4>3. QED
        BY <4>1, <4>2
    <3>3. QED
      BY <3>1, <3>2
  <2>6. QED
    BY <2>1, <2>2, <2>3, <2>5, Quiet
<1>2. CASE ModelReplies
  <2>1. /\ pc = "model" /\ pc' = "add" /\ next' = 1
        /\ UNCHANGED << messages, file, turn, sent, kept, poisoned, damage, unread, faults >>
    BY <1>2 DEF ModelReplies
  <2>2. TypeOK'
    BY <2>1, ReplyIs DEF IInv, TypeOK
  <2>3. UpTo(0) /\ turn > 0
    BY <2>1 DEF IInv, Progress
  <2>4. Progress'
    BY <2>1, <2>3, ReplyIs DEF Progress, UpTo
  <2>5. file.state = "broken" => damage
    BY <2>1 DEF IInv, KeptOnDisk
  <2>6. QED
    BY <2>1, <2>2, <2>4, <2>5, Quiet
<1>3. QED
  BY <1>1, <1>2

\* The process starts with what is on disk, or, if that cannot be read, with nothing.
LEMMA LoadStep ==
  ASSUME IInv, Load \/ LoadUnread \/ LoadThrows
  PROVE  IInv'
<1>1. CASE Load
  <2>1. /\ pc = "down" /\ pc' = "idle" /\ file.state # "broken" /\ messages' = file.content
        /\ UNCHANGED << file, turn, next, sent, kept, poisoned, damage, unread, faults >>
    BY <1>1 DEF Load
  <2>2. TypeOK'
    BY <2>1 DEF IInv, TypeOK
  <2>3. Sound(messages)' /\ Sound(file.content)'
    BY <2>1 DEF IInv, Sound
  <2>4. Told(messages, Known)'
    BY <2>1 DEF IInv, KeptOnDisk, Remembers, Told, Known
  <2>5. KeptOnDisk'
    BY <2>1 DEF IInv, KeptOnDisk, Remembers
  <2>6. Progress' /\ ModelRemembers'
    BY <2>1 DEF Progress, ModelRemembers
  <2>7. QED
    BY <2>1, <2>2, <2>3, <2>4, <2>5, <2>6 DEF IInv
<1>2. CASE LoadThrows
  <2>1. /\ pc = "down" /\ pc' = pc /\ file' = Missing /\ kept' = << >> /\ damage' = FALSE
        /\ UNCHANGED << messages, turn, next, sent, poisoned, unread, faults >>
    BY <1>2 DEF LoadThrows
  <2>2. file'.content = << >> /\ file'.state = "missing"
    BY <2>1 DEF Missing
  <2>3. TypeOK'
    <3>1. Missing \in [state : {"missing", "whole", "broken"}, content : Seq(Messages)]
      BY DEF Missing
    <3>2. kept' \in Seq(1..MaxTurns)
      BY <2>1
    <3>3. QED
      BY <2>1, <3>1, <3>2 DEF IInv, TypeOK
  <2>4. Sound(messages)' /\ Sound(file.content)'
    BY <2>1, <2>2 DEF IInv, Sound, InOrder
  <2>5. KeptOnDisk'
    BY <2>1, <2>2 DEF KeptOnDisk, Remembers, InOrder
  <2>6. Progress' /\ ModelRemembers'
    BY <2>1 DEF Progress, ModelRemembers
  <2>7. messages' = << >> /\ ~unread'
    BY <2>1 DEF IInv
  <2>8. QED
    BY <2>1, <2>2, <2>3, <2>4, <2>5, <2>6, <2>7 DEF IInv
<1>3. CASE LoadUnread
  <2>1. /\ pc = "down" /\ pc' = "idle" /\ messages' = << >> /\ unread' = TRUE
        /\ faults' \in 0..MaxFaults
        /\ UNCHANGED << file, turn, next, sent, kept, poisoned, damage >>
    BY <1>3 DEF LoadUnread, Fault, IInv, TypeOK
  <2>2. TypeOK'
    <3>1. messages' \in Seq(Messages) /\ unread' \in BOOLEAN
      BY <2>1
    <3>2. QED
      BY <2>1, <3>1 DEF IInv, TypeOK
  <2>3. Sound(messages)' /\ Sound(file.content)'
    BY <2>1, SameLog DEF IInv, TypeOK
  <2>4. Told(messages, Known)'
    BY <2>1 DEF Told, Known
  <2>5. KeptOnDisk'
    BY <2>1 DEF IInv, KeptOnDisk, Remembers
  <2>6. Progress' /\ ModelRemembers'
    BY <2>1 DEF Progress, ModelRemembers
  <2>7. QED
    BY <2>1, <2>2, <2>3, <2>4, <2>5, <2>6 DEF IInv
<1>4. QED
  BY <1>1, <1>2, <1>3

\* The model is shown the history, which holds the turns kept, and the new turn.
LEMMA InvokeStep ==
  ASSUME IInv, Invoke
  PROVE  IInv'
<1>1. /\ pc = "idle" /\ turn < MaxTurns /\ turn' = turn + 1 /\ pc' = "model"
      /\ sent' = messages \o NewOf(turn + 1)
      /\ UNCHANGED << messages, file, next, kept, poisoned, damage, unread, faults >>
  BY DEF Invoke
<1>2. /\ turn \in Nat /\ turn + 1 \in 1..MaxTurns /\ messages \in Seq(Messages)
      /\ file.content \in Seq(Messages)
  BY <1>1 DEF IInv, TypeOK
<1>3. InOrder(messages) /\ Told(messages, Known) /\ \A i \in 1..Len(messages) : messages[i].turn <= turn
  BY <1>1 DEF IInv, Sound
<1>4. \A i \in 1..Len(messages) : messages[i].turn < turn + 1
  BY <1>2, <1>3, LogTyped
<1>5. /\ InOrder(sent') /\ sent' \in Seq(Messages)
      /\ \A x : Has(messages, x) => Has(sent', x)
      /\ Len(sent') = Len(messages) + NewMessages
      /\ \A p \in 1..NewMessages : sent'[Len(messages) + p] = Message(turn + 1, p)
  BY <1>1, <1>2, <1>3, <1>4, TurnInOrder
<1>6. TypeOK'
  BY <1>1, <1>2, <1>5 DEF IInv, TypeOK
<1>7. Sound(messages)' /\ Sound(file.content)'
  BY <1>1, <1>2, SameLog
<1>8. Told(messages, Known)'
  BY <1>1, <1>3 DEF Told, Known
<1>9. KeptOnDisk'
  BY <1>1 DEF IInv, KeptOnDisk, Remembers
<1>10. Progress'
  BY <1>1, <1>2, <1>4 DEF Progress, UpTo, Reply
<1>11. ModelRemembers'
  <2>1. Remembers(sent', Known) /\ Known' = Known
    BY <1>1, <1>3, <1>5 DEF Remembers, Told, Known
  <2>2. Len(sent') - NewMessages = Len(messages)
    BY <1>2, <1>5
  <2>3. QED
    BY <1>1, <1>5, <2>1, <2>2 DEF ModelRemembers
<1>12. QED
  BY <1>1, <1>6, <1>7, <1>8, <1>9, <1>10, <1>11 DEF IInv

\* A message of the turn goes behind its predecessors.
LEMMA PushStep ==
  ASSUME IInv, Push
  PROVE  IInv'
<1>1. /\ pc = "add" /\ pc' = "open" /\ messages' = Append(messages, Message(turn, next))
      /\ poisoned' \in {poisoned, TRUE}
      /\ UNCHANGED << file, turn, next, sent, kept, damage, unread >>
  BY DEF Push
<1>2. /\ messages \in Seq(Messages) /\ turn \in Nat /\ next \in 1..Reply /\ turn <= MaxTurns
      /\ InOrder(messages) /\ Told(messages, Known) /\ UpTo(next - 1)
      /\ file.content \in Seq(Messages) /\ Sound(messages) /\ Sound(file.content)
  BY <1>1 DEF IInv, TypeOK, Progress, Sound
<1>3. turn \in 1..MaxTurns
  BY <1>1 DEF IInv, TypeOK, Progress
<1>4. /\ Message(turn, next) \in Messages
      /\ Message(turn, next).turn = turn /\ Message(turn, next).place = next
  BY <1>2, <1>3, MessageTyped
<1>5. \A i \in 1..Len(messages) : \/ messages[i].turn < turn
                                  \/ messages[i].turn = turn /\ messages[i].place < next
  BY <1>2, LogTyped DEF UpTo
<1> DEFINE n == Len(messages)
<1>6. /\ InOrder(messages') /\ messages' \in Seq(Messages) /\ n \in Nat
      /\ Len(messages') = n + 1
      /\ \A i \in 1..n : messages'[i] = messages[i]
      /\ messages'[n + 1] = Message(turn, next)
      /\ 1..Len(messages') = 1..n \cup {n + 1}
      /\ \A x : Has(messages, x) => Has(messages', x)
      /\ Has(messages', Message(turn, next))
  <2> DEFINE m == Message(turn, next)
  <2>1. \A i \in 1..Len(messages) :
          \/ messages[i].turn < m.turn
          \/ messages[i].turn = m.turn /\ messages[i].place < m.place
    BY <1>4, <1>5
  <2>2. m \in Messages
    BY <1>4
  <2>3. messages' = Append(messages, m)
    BY <1>1
  <2> HIDE DEF m
  <2>4. QED
    BY <1>2, <2>1, <2>2, <2>3, AppendInOrder DEF m
<1> HIDE DEF n
<1>7. TypeOK'
  <2>1. poisoned' \in BOOLEAN
    BY <1>1 DEF IInv, TypeOK
  <2>2. faults' \in 0..MaxFaults
    BY DEF Push, Fault, IInv, TypeOK
  <2>3. QED
    BY <1>1, <1>6, <2>1, <2>2 DEF IInv, TypeOK
<1>8. Sound(messages)'
  <2>1. ASSUME NEW j \in 1..Len(messages'), NEW p \in 1..Reply, p < messages'[j].place
        PROVE  Has(messages', Message(messages'[j].turn, p))
    <3>1. CASE j \in 1..n
      BY <1>2, <1>6, <2>1, <3>1 DEF Sound, n
    <3>2. CASE j = n + 1
      <4>1. p <= next - 1
        BY <1>2, <1>4, <1>6, <2>1, <3>2
      <4>2. QED
        BY <1>2, <1>4, <1>6, <3>2, <4>1 DEF UpTo
    <3>3. QED
      BY <1>6, <3>1, <3>2
  <2>2. \A j \in 1..Len(messages') : messages'[j].turn <= turn
    BY <1>2, <1>4, <1>6 DEF Sound, n
  <2>3. QED
    BY <1>1, <1>6, <2>1, <2>2 DEF Sound
<1>9. Sound(file.content)'
  BY <1>1, <1>2 DEF Sound
<1>10. Told(messages, Known)'
  BY <1>1, <1>2, <1>6 DEF Told, Known
<1>11. Progress'
  <2>1. \A i \in 1..Len(messages') :
          messages'[i].turn < turn \/ (messages'[i].turn = turn /\ messages'[i].place <= next)
    <3>1. \A i \in 1..n : messages'[i].turn < turn \/ (messages'[i].turn = turn /\ messages'[i].place <= next)
      BY <1>2, <1>5, <1>6, LogTyped DEF n, UpTo
    <3>2. QED
      BY <1>2, <1>4, <1>6, <3>1
  <2>2. \A p \in 1..Reply : p <= next => Has(messages', Message(turn, p))
    <3>1. \A p \in 1..Reply : p <= next => p <= next - 1 \/ p = next
      BY <1>2, ReplyIs
    <3>2. QED
      BY <1>2, <1>6, <3>1 DEF UpTo
  <2>3. next <= Reply
    BY <1>2
  <2>4. QED
    BY <1>1, <2>1, <2>2, <2>3 DEF Progress, UpTo
<1>12. KeptOnDisk' /\ ModelRemembers'
  BY <1>1 DEF IInv, KeptOnDisk, Remembers, ModelRemembers
<1>13. QED
  BY <1>1, <1>7, <1>8, <1>9, <1>10, <1>11, <1>12 DEF IInv

\* clear() forgets, and save() truncates the file.
LEMMA ClearStep ==
  ASSUME IInv, Clear
  PROVE  IInv'
<1>1. /\ pc = "idle" /\ pc' = "open" /\ messages' = << >> /\ next' = Reply + 1 /\ kept' = << >>
      /\ poisoned' = FALSE /\ UNCHANGED << file, turn, sent, damage, unread, faults >>
  BY DEF Clear
<1>2. TypeOK'
  <2>1. poisoned' \in BOOLEAN
    BY <1>1
  <2>2. messages' \in Seq(Messages) /\ kept' \in Seq(1..MaxTurns) /\ next' \in 1..Reply + 1
    BY <1>1, ReplyIs
  <2>3. QED
    BY <1>1, <2>1, <2>2 DEF IInv, TypeOK
<1>3. Sound(messages)' /\ Sound(file.content)'
  BY <1>1, SameLog DEF IInv, TypeOK
<1>4. Told(messages, Known)'
  BY <1>1 DEF Told, Known
<1>5. Progress'
  BY <1>1, ReplyIs DEF Progress
<1>6. KeptOnDisk' /\ ModelRemembers'
  BY <1>1 DEF IInv, KeptOnDisk, Remembers, ModelRemembers, Sound
<1>7. QED
  BY <1>1, <1>2, <1>3, <1>4, <1>5, <1>6 DEF IInv

LEMMA OpenStep ==
  ASSUME IInv, Open
  PROVE  IInv'
<1>1. /\ pc = "open" /\ pc' = "write" /\ file' = Broken
      /\ kept' = Known /\ unread' = FALSE
      /\ UNCHANGED << messages, turn, next, sent, poisoned, damage, faults >>
  BY DEF Open
<1>2. file'.content = << >> /\ file'.state = "broken"
  BY <1>1 DEF Broken
<1>3. TypeOK'
  <2>1. Broken \in [state : {"missing", "whole", "broken"}, content : Seq(Messages)]
    BY DEF Broken
  <2>2. Known \in Seq(1..MaxTurns)
    <3>1. kept \in Seq(1..MaxTurns) /\ << >> \in Seq(1..MaxTurns)
      BY DEF IInv, TypeOK
    <3>2. QED
      BY <3>1 DEF Known
  <2>3. unread' \in BOOLEAN
    BY <1>1
  <2>4. QED
    BY <1>1, <2>1, <2>2, <2>3 DEF IInv, TypeOK
<1>4. Sound(messages)' /\ Sound(file.content)'
  BY <1>1, <1>2, SameLog DEF IInv, TypeOK
<1>5. Told(messages, Known)'
  BY <1>1 DEF IInv, Told, Known
<1>6. Progress'
  <2>1. next > Reply => Known = << >>
    BY <1>1 DEF IInv, TypeOK, Progress, Known, Reply
  <2>2. QED
    BY <1>1, <1>2, <2>1 DEF IInv, TypeOK, Progress, UpTo, Reply
<1>7. KeptOnDisk' /\ ModelRemembers'
  BY <1>1, <1>2 DEF KeptOnDisk, ModelRemembers
<1>8. QED
  BY <1>1, <1>2, <1>3, <1>4, <1>5, <1>6, <1>7 DEF IInv

\* When a save is over, what the process holds tells the turns kept, the last one
\* among them if it was its reply that was saved.
LEMMA SavedStep ==
  ASSUME IInv, pc = "write", Saved, UNCHANGED << messages, turn, unread >>
  PROVE  /\ Told(messages, kept') /\ Told(messages, Known)'
         /\ Progress' /\ pc' \in {"idle", "add"}
         /\ next' \in 1..Reply + 1 /\ kept' \in Seq(1..MaxTurns)
<1>1. /\ next \in 1..Reply + 1 /\ kept \in Seq(1..MaxTurns) /\ turn \in 0..MaxTurns
      /\ messages \in Seq(Messages)
  BY DEF IInv, TypeOK
<1>2. Told(messages, kept) /\ ~unread
  BY DEF IInv, Progress, Known
<1> SUFFICES /\ Told(messages, kept') /\ Progress' /\ pc' \in {"idle", "add"}
             /\ next' \in 1..Reply + 1 /\ kept' \in Seq(1..MaxTurns)
  BY <1>2 DEF Told, Known
<1>3. next <= Reply => UpTo(next)
  BY DEF IInv, Progress
<1>0. ASSUME next <= Reply
      PROVE  turn \in 1..MaxTurns
  <2>1. Has(messages, Message(turn, 1))
    BY <1>0, <1>1, <1>3, ReplyIs DEF UpTo
  <2>2. PICK i \in 1..Len(messages) : messages[i] = Message(turn, 1)
    BY <2>1 DEF Has
  <2>3. messages[i].turn = turn
    BY <2>2 DEF Message
  <2>4. QED
    BY <1>1, <2>3, LogTyped
<1>4. CASE next > Reply
  <2>1. pc' = "idle" /\ next' = next /\ kept' = kept
    BY <1>4 DEF Saved
  <2>2. QED
    BY <1>1, <1>2, <2>1 DEF Progress
<1>5. CASE next = Reply
  <2>1. pc' = "idle" /\ kept' = Append(kept, turn) /\ next' = next
    BY <1>5, ReplyIs DEF Saved
  <2>2. /\ \A p \in 1..Reply : Has(messages, Message(turn, p))
    BY <1>3, <1>5, ReplyIs DEF UpTo
  <2>3. turn \in 1..MaxTurns
    BY <1>0, <1>5, ReplyIs
  <2>4. /\ kept' \in Seq(1..MaxTurns) /\ Len(kept) \in Nat /\ Len(kept') = Len(kept) + 1
        /\ \A k \in 1..Len(kept) : kept'[k] = kept[k]
        /\ kept'[Len(kept) + 1] = turn
    BY <1>1, <2>1, <2>3
  <2>5. Told(messages, kept')
    <3>1. \A k \in 1..Len(kept') : k \in 1..Len(kept) \/ k = Len(kept) + 1
      BY <2>4
    <3>2. QED
      BY <1>2, <2>2, <2>4, <3>1 DEF Told
  <2>6. QED
    BY <1>1, <2>1, <2>4, <2>5 DEF Progress
<1>6. CASE next < Reply
  <2>1. pc' = "add" /\ next' = next + 1 /\ kept' = kept
    BY <1>1, <1>6, ReplyIs DEF Saved
  <2>2. next' <= Reply /\ next' - 1 = next /\ next' \in 1..Reply + 1
    BY <1>1, <1>6, <2>1, ReplyIs
  <2>3. UpTo(next)
    BY <1>1, <1>3, <1>6, ReplyIs
  <2>4. Progress'
    <3>1. turn > 0 /\ turn' = turn
      BY <1>0, <1>6, <1>1, ReplyIs
    <3>2. QED
      BY <2>1, <2>2, <2>3, <3>1 DEF Progress, UpTo
  <2>5. QED
    BY <1>1, <1>2, <2>1, <2>2, <2>4
<1>7. QED
  BY <1>1, <1>4, <1>5, <1>6, ReplyIs

LEMMA WriteStep ==
  ASSUME IInv, Write
  PROVE  IInv'
<1>1. /\ pc = "write" /\ file' = Whole(messages) /\ damage' = FALSE /\ Saved
      /\ UNCHANGED << messages, turn, sent, poisoned, unread, faults >>
  BY DEF Write
<1>2. file'.content = messages /\ file'.state = "whole"
  BY <1>1 DEF Whole
<1>3. /\ Told(messages, kept') /\ Told(messages, Known)' /\ Progress' /\ pc' \in {"idle", "add"}
      /\ next' \in 1..Reply + 1 /\ kept' \in Seq(1..MaxTurns)
  BY <1>1, SavedStep
<1>4. TypeOK'
  <2>1. Whole(messages) \in [state : {"missing", "whole", "broken"}, content : Seq(Messages)]
    BY DEF Whole, IInv, TypeOK
  <2>2. QED
    BY <1>1, <1>3, <2>1 DEF IInv, TypeOK
<1>5. Sound(messages)' /\ Sound(file.content)'
  BY <1>1, <1>2 DEF IInv, Sound
<1>6. Told(messages, Known)'
  BY <1>3
<1>7. KeptOnDisk'
  BY <1>1, <1>2, <1>3 DEF IInv, Sound, KeptOnDisk, Remembers, Told
<1>8. ModelRemembers'
  BY <1>3 DEF ModelRemembers
<1>9. QED
  BY <1>2, <1>3, <1>4, <1>5, <1>6, <1>7, <1>8 DEF IInv

\* A write that fails leaves a broken file, and the process goes on as if it had not.
LEMMA WriteFailsStep ==
  ASSUME IInv, WriteFails
  PROVE  IInv'
<1>1. /\ pc = "write" /\ damage' = TRUE /\ Saved /\ faults' \in 0..MaxFaults
      /\ UNCHANGED << messages, file, turn, sent, poisoned, unread >>
  BY DEF WriteFails, Fault, IInv, TypeOK
<1>2. /\ Told(messages, kept') /\ Told(messages, Known)' /\ Progress' /\ pc' \in {"idle", "add"}
      /\ next' \in 1..Reply + 1 /\ kept' \in Seq(1..MaxTurns)
  BY <1>1, SavedStep
<1>3. file.state = "broken"
  BY <1>1 DEF IInv, Progress
<1>4. TypeOK'
  BY <1>1, <1>2 DEF IInv, TypeOK
<1>5. Sound(messages)' /\ Sound(file.content)'
  BY <1>1 DEF IInv, Sound
<1>6. Told(messages, Known)'
  BY <1>2
<1>7. KeptOnDisk' /\ ModelRemembers'
  BY <1>1, <1>2, <1>3 DEF KeptOnDisk, ModelRemembers
<1>8. QED
  BY <1>1, <1>2, <1>4, <1>5, <1>6, <1>7 DEF IInv

\* The process exits, or dies; what it was writing is lost.
LEMMA DownStep ==
  ASSUME IInv, Exit \/ Crash
  PROVE  IInv'
<1>1. /\ pc' = "down" /\ messages' = << >> /\ poisoned' = FALSE /\ unread' = FALSE
      /\ UNCHANGED << file, turn, next, sent, kept >>
      /\ faults' \in 0..MaxFaults
  BY DEF Exit, Crash, Fault, IInv, TypeOK
<1>2. damage' \in BOOLEAN /\ (pc = "write" \/ damage => damage')
  <2>1. CASE Exit
    BY <2>1 DEF Exit, IInv, TypeOK
  <2>2. CASE Crash
    BY <2>2 DEF Crash, IInv, TypeOK
  <2>3. QED
    BY <2>1, <2>2
<1>3. TypeOK'
  <2>1. poisoned' \in BOOLEAN /\ unread' \in BOOLEAN
    BY <1>1
  <2>2. messages' \in Seq(Messages)
    BY <1>1
  <2>3. QED
    BY <1>1, <1>2, <2>1, <2>2 DEF IInv, TypeOK
<1>4. Sound(messages)' /\ Sound(file.content)'
  BY <1>1, SameLog DEF IInv, TypeOK
<1>5. KeptOnDisk'
  BY <1>1, <1>2 DEF IInv, KeptOnDisk, Remembers
<1>6. Progress' /\ ModelRemembers'
  BY <1>1 DEF Progress, ModelRemembers
<1>7. QED
  BY <1>1, <1>3, <1>4, <1>5, <1>6 DEF IInv

-----------------------------------------------------------------------------
LEMMA InitOK == Init => IInv
<1> SUFFICES ASSUME Init PROVE IInv
  OBVIOUS
<1>1. /\ messages = << >> /\ file = Missing /\ pc = "down" /\ turn = 0 /\ next = 1
      /\ sent = << >> /\ kept = << >> /\ poisoned = FALSE /\ damage = FALSE
      /\ unread = FALSE /\ faults = 0
  BY DEF Init
<1>2. file.content = << >> /\ file.state = "missing"
  BY <1>1 DEF Missing
<1>3. TypeOK
  <2>1. Missing \in [state : {"missing", "whole", "broken"}, content : Seq(Messages)]
    BY DEF Missing
  <2>2. << >> \in Seq(Messages) /\ << >> \in Seq(1..MaxTurns) /\ 1 \in 1..Reply + 1
    BY ReplyIs
  <2>3. poisoned \in BOOLEAN /\ damage \in BOOLEAN /\ unread \in BOOLEAN
    BY <1>1
  <2>4. turn \in 0..MaxTurns /\ faults \in 0..MaxFaults
    BY <1>1
  <2>5. QED
    BY <1>1, <2>1, <2>2, <2>3, <2>4 DEF TypeOK
<1>4. Sound(messages) /\ Sound(file.content) /\ KeptOnDisk
  BY <1>1, <1>2 DEF Sound, InOrder, KeptOnDisk, Remembers
<1>5. Progress /\ ModelRemembers
  BY <1>1 DEF Progress, ModelRemembers
<1>6. QED
  BY <1>1, <1>2, <1>3, <1>4, <1>5 DEF IInv

LEMMA NextOK ==
  ASSUME IInv, [Next]_vars
  PROVE  IInv'
<1>1. CASE UNCHANGED vars
  <2>1. TypeOK'
    BY <1>1 DEF IInv, TypeOK, vars
  <2>2. Sound(messages)' /\ Sound(file.content)' /\ (pc' # "down" => Told(messages, Known)')
    BY <1>1 DEF IInv, Sound, Told, Known, vars
  <2>3. Progress' /\ KeptOnDisk' /\ ModelRemembers'
    BY <1>1 DEF IInv, Progress, UpTo, KeptOnDisk, ModelRemembers, Remembers, Known, vars
  <2>4. QED
    BY <1>1, <2>1, <2>2, <2>3 DEF IInv, vars
<1>2. CASE Next
  BY <1>2, LoadStep, InvokeStep, QuietStep, PushStep, ClearStep, OpenStep, WriteStep,
     WriteFailsStep, DownStep DEF Next
<1>3. QED
  BY <1>1, <1>2

LEMMA Always == Spec => []IInv
BY InitOK, NextOK, PTL DEF Spec

\* The variables of the process and the file keep their types.
THEOREM TypeCorrect == Spec => []TypeOK
<1>1. IInv => TypeOK
  BY DEF IInv
<1>2. QED
  BY <1>1, Always, PTL

\* A file that can be loaded holds, message for message, every turn whose invoke()
\* returned since the last clear() and since the last save of a process that could not
\* open it (file_chat_message_history.cpp:78-81); and a file that cannot be loaded is
\* being written, or a save was cut short since the last complete one (:90-113).
THEOREM TurnsAreKept == Spec => []KeptOnDisk
<1>1. IInv => KeptOnDisk
  BY DEF IInv
<1>2. QED
  BY <1>1, Always, PTL

\* The model is shown every such turn, across restarts, unless its process could not
\* open the file, and then the new one (chat_model_with_history.cpp:10-13).
THEOREM ModelIsShown == Spec => []ModelRemembers
<1>1. IInv => ModelRemembers
  BY DEF IInv
<1>2. QED
  BY <1>1, Always, PTL

\* Histories are in order, without repetition, and without a reply whose question is
\* missing, however many turns failed half-way (chat_model_with_history.cpp:15-18).
THEOREM HistoryInOrder == Spec => []WellOrdered
<1>1. IInv => WellOrdered
  BY DEF IInv, Sound, WellOrdered
<1>2. QED
  BY <1>1, Always, PTL
=============================================================================
