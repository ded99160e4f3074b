----------------------------- MODULE ChatHistory -----------------------------
(***************************************************************************)
(* llm::ChatModelWithHistory (src/src/llm/chat_model_with_history.cpp)     *)
(* over a FileChatMessageHistory (file_chat_message_history.cpp): turns    *)
(* that may fail half-way, a file that is rewritten as a whole by every    *)
(* add, and a process that may be restarted between any two steps.         *)
(*                                                                         *)
(* A message is named by its turn and its place in it; the last place is   *)
(* the reply.  The file is missing, whole (JSON that load() accepts) or    *)
(* broken (the truncated file, or a part of the text).                     *)
(*                                                                         *)
(* Bounds: MaxTurns turns of NewMessages messages each, and MaxFaults      *)
(* crashes, files that cannot be opened, failed writes and texts that      *)
(* cannot be dumped.                                                       *)
(***************************************************************************)
EXTENDS Integers, Sequences

CONSTANTS NewMessages, MaxTurns, MaxFaults

ASSUME HistoryAssumption ==
  /\ NewMessages \in Nat \ {0}
  /\ MaxTurns \in Nat /\ MaxFaults \in Nat

VARIABLES
  messages,   \* messages_, of the process that is running
  file,       \* the file on disk
  pc,         \* where the process is
  turn, next, \* invoke(): the turn, and the message it is adding
  sent,       \* history: the conversation last given to the model
  kept,       \* history: the turns that returned, and were not forgotten since
  poisoned,   \* messages_ holds text that dump() refuses (invalid UTF-8)
  damage,     \* history: a save was cut short since the last complete one
  unread,     \* history: the process could not open the file, and has not saved since
  faults

vars == << messages, file, pc, turn, next, sent, kept, poisoned, damage, unread, faults >>

-----------------------------------------------------------------------------
Message(t, place) == [turn |-> t, place |-> place]
Reply == NewMessages + 1
NewOf(t) == [i \in 1..NewMessages |-> Message(t, i)]

Missing   == [state |-> "missing", content |-> << >>]
Broken    == [state |-> "broken", content |-> << >>]
Whole(ms) == [state |-> "whole", content |-> ms]

Fault == faults < MaxFaults /\ faults' = faults + 1

-----------------------------------------------------------------------------
(* Ways this code could be wrong, for the mutation checks.                 *)

\* The message is pushed only after the save.
PushLate ==
  /\ pc = "add"
  /\ messages' = IF next > 1 THEN Append(messages, Message(turn, next - 1)) ELSE messages
  /\ pc' = "open"
  /\ UNCHANGED << file, turn, next, sent, kept, poisoned, damage, unread, faults >>

\* The reply is recorded before the messages it answers.
PushReplyFirst ==
  /\ pc = "add"
  /\ messages' = Append(messages, Message(turn, IF next = 1 THEN Reply ELSE next - 1))
  /\ pc' = "open"
  /\ UNCHANGED << file, turn, next, sent, kept, poisoned, damage, unread, faults >>

\* A history that exists is not read.
LoadNothing ==
  /\ pc = "down" /\ file.state # "broken"
  /\ messages' = << >>
  /\ pc' = "idle"
  /\ UNCHANGED << file, turn, next, sent, kept, poisoned, damage, unread, faults >>

\* An empty history is saved as an empty file.
WriteNothing ==
  /\ pc = "write" /\ ~poisoned
  /\ file' = IF messages = << >> THEN Broken ELSE Whole(messages)
  /\ damage' = FALSE
  /\ pc' = "idle"
  /\ UNCHANGED << messages, turn, next, sent, kept, poisoned, unread, faults >>

-----------------------------------------------------------------------------
Init ==
  /\ messages = << >>
  /\ file = Missing
  /\ pc = "down"
  /\ turn = 0
  /\ next = 1
  /\ sent = << >>
  /\ kept = << >>
  /\ poisoned = FALSE
  /\ damage = FALSE
  /\ unread = FALSE
  /\ faults = 0

\* The process starts: the constructor loads the file, if there is one.
Load ==
  /\ pc = "down" /\ file.state # "broken"
  /\ messages' = file.content
  /\ pc' = "idle"
  /\ UNCHANGED << file, turn, next, sent, kept, poisoned, damage, unread, faults >>

\* A file that exists but cannot be opened is taken for one that does not.
LoadUnread ==
  /\ pc = "down" /\ file.state # "missing"
  /\ Fault
  /\ messages' = << >>
  /\ unread' = TRUE
  /\ pc' = "idle"
  /\ UNCHANGED << file, turn, next, sent, kept, poisoned, damage >>

\* A file that is not JSON makes the constructor throw; the user removes it.
LoadThrows ==
  /\ pc = "down" /\ file.state = "broken"
  /\ file' = Missing
  /\ kept' = << >>
  /\ damage' = FALSE
  /\ UNCHANGED << messages, pc, turn, next, sent, poisoned, unread, faults >>

\* invoke(): the model is given the history and the new messages.
Invoke ==
  /\ pc = "idle" /\ turn < MaxTurns
  /\ turn' = turn + 1
  /\ sent' = messages \o NewOf(turn + 1)
  /\ pc' = "model"
  /\ UNCHANGED << messages, file, next, kept, poisoned, damage, unread, faults >>

ModelThrows ==
  /\ pc = "model"
  /\ pc' = "idle"
  /\ UNCHANGED << messages, file, turn, next, sent, kept, poisoned, damage, unread, faults >>

ModelReplies ==
  /\ pc = "model"
  /\ next' = 1
  /\ pc' = "add"
  /\ UNCHANGED << messages, file, turn, sent, kept, poisoned, damage, unread, faults >>

\* add_message(): the message is pushed, and save() begins.
Push ==
  /\ pc = "add"
  /\ messages' = Append(messages, Message(turn, next))
  /\ \/ UNCHANGED << poisoned, faults >>
     \/ Fault /\ poisoned' = TRUE
  /\ pc' = "open"
  /\ UNCHANGED << file, turn, next, sent, kept, damage, unread >>

\* clear(), between turns; `next` is past the last message while it saves.
Clear ==
  /\ pc = "idle"
  /\ messages' = << >>
  /\ next' = Reply + 1
  /\ kept' = << >>
  /\ poisoned' = FALSE
  /\ pc' = "open"
  /\ UNCHANGED << file, turn, sent, damage, unread, faults >>

\* What the process may know of the turns kept.
Known == IF unread THEN << >> ELSE kept

\* std::ofstream truncates the file: what the process could not read is forgotten ...
Open ==
  /\ pc = "open"
  /\ file' = Broken
  /\ kept' = Known
  /\ unread' = FALSE
  /\ pc' = "write"
  /\ UNCHANGED << messages, turn, next, sent, poisoned, damage, faults >>

\* ... unless it cannot be opened, and save() throws.
OpenThrows ==
  /\ pc = "open"
  /\ Fault
  /\ pc' = "idle"
  /\ UNCHANGED << messages, file, turn, next, sent, kept, poisoned, damage, unread >>

\* dump() throws, after the truncation, from now on until clear().
DumpThrows ==
  /\ pc = "write" /\ poisoned
  /\ damage' = TRUE
  /\ pc' = "idle"
  /\ UNCHANGED << messages, file, turn, next, sent, kept, poisoned, unread, faults >>

\* save() is over: so is clear(), or the turn, or the next message is added.
Saved ==
  IF next > Reply THEN pc' = "idle" /\ UNCHANGED << next, kept >>
  ELSE IF next = Reply THEN pc' = "idle" /\ kept' = Append(kept, turn) /\ UNCHANGED next
  ELSE pc' = "add" /\ next' = next + 1 /\ UNCHANGED kept

Write ==
  /\ pc = "write" /\ ~poisoned
  /\ file' = Whole(messages)
  /\ damage' = FALSE
  /\ Saved
  /\ UNCHANGED << messages, turn, sent, poisoned, unread, faults >>

\* The disk is full: the stream goes bad, and nobody looks.
WriteFails ==
  /\ pc = "write" /\ ~poisoned
  /\ Fault
  /\ damage' = TRUE
  /\ Saved
  /\ UNCHANGED << messages, file, turn, sent, poisoned, unread >>

\* The process exits between turns ...
Exit ==
  /\ pc = "idle"
  /\ messages' = << >>
  /\ poisoned' = FALSE /\ unread' = FALSE
  /\ pc' = "down"
  /\ UNCHANGED << file, turn, next, sent, kept, damage, faults >>

\* ... or dies in the middle of one.
Crash ==
  /\ pc \notin {"down", "idle"}
  /\ Fault
  /\ messages' = << >>
  /\ poisoned' = FALSE /\ unread' = FALSE
  /\ damage' = (damage \/ pc = "write")
  /\ pc' = "down"
  /\ UNCHANGED << file, turn, next, sent, kept >>

Next ==
  \/ Load \/ LoadUnread \/ LoadThrows \/ Invoke \/ ModelThrows \/ ModelReplies \/ Push \/ Clear
  \/ Open \/ OpenThrows \/ DumpThrows \/ Write \/ WriteFails \/ Exit \/ Crash

Spec == Init /\ [][Next]_vars

-----------------------------------------------------------------------------
Messages == [turn : 1..MaxTurns, place : 1..Reply]

TypeOK ==
  /\ messages \in Seq(Messages)
  /\ file \in [state : {"missing", "whole", "broken"}, content : Seq(Messages)]
  /\ pc \in {"down", "idle", "model", "add", "open", "write"}
  /\ turn \in 0..MaxTurns
  /\ next \in 1..Reply + 1
  /\ sent \in Seq(Messages)
  /\ kept \in Seq(1..MaxTurns)
  /\ poisoned \in BOOLEAN
  /\ damage \in BOOLEAN
  /\ unread \in BOOLEAN
  /\ faults \in 0..MaxFaults

Has(log, m) == \E i \in 1..Len(log) : log[i] = m

\* A log is in the order of the turns and of the places in them, without repetition.
InOrder(log) ==
  \A i, j \in 1..Len(log) : i < j =>
    \/ log[i].turn < log[j].turn
    \/ log[i].turn = log[j].turn /\ log[i].place < log[j].place

\* A log holds some turns, message for message: its messages of these turns are
\* all of theirs, each once, and in their order.
Remembers(log, turns) ==
  /\ InOrder(log)
  /\ \A k \in 1..Len(turns), p \in 1..Reply : Has(log, Message(turns[k], p))

\* Whatever else fails, a file that can be loaded holds every turn whose invoke()
\* returned, message for message, since the last clear() and since the last save of a
\* process that could not open the file when it started: load() takes such a file for
\* one that does not exist (file_chat_message_history.cpp:78-81, where the header,
\* file_chat_message_history.hpp:10-12, promises to load it "if the file exists"), and
\* the save overwrites it.  A file cannot be loaded only while it is being written, or
\* after a save that was cut short, which the next complete save mends (:90-113).
KeptOnDisk ==
  IF file.state = "broken" THEN pc = "write" \/ damage ELSE Remembers(file.content, kept)

\* The model is shown every turn that returned and can be known, which is every one
\* that is on disk unless the process could not open the file when it started, and
\* then the new one (chat_model_with_history.cpp:10-13).
ModelRemembers ==
  pc = "model" =>
    /\ Remembers(sent, Known)
    /\ \A p \in 1..NewMessages : sent[Len(sent) - NewMessages + p] = Message(turn, p)

\* A history is in order and without repetition, and no reply is in it without
\* the messages it answers; turns that failed half-way leave their first
\* messages behind (chat_model_with_history.cpp:15-18).
WellOrdered ==
  \A log \in {messages, file.content} :
    /\ InOrder(log)
    /\ \A j \in 1..Len(log), p \in 1..Reply : p < log[j].place => Has(log, Message(log[j].turn, p))
=============================================================================
