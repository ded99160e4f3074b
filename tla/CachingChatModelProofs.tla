------------------------ MODULE CachingChatModelProofs ------------------------
(***************************************************************************)
(* For any handlers, conversations, tools and requests: every handler sees *)
(* each call closed by what became of it, and what the cache serves was    *)
(* said to the end, heard to the end, and said to the same conversation.   *)
(* The invariants follow the call that is under way (AsFarAs, DeltasSoFar) *)
(* and say that calls, events and entries of the past stay what they are.  *)
(***************************************************************************)
EXTENDS CachingChatModel, SequenceTheorems, FiniteSetTheorems, TLAPS

USE CallbacksAssumption, CachingAssumption DEF CallbacksAssumption, CachingAssumption

UnderWay == {"inner", "piece", "final", "finished"}

\* The last call alone may be under way, and only then has it no outcome.
OneUnderWay ==
  /\ \A c \in 1..calls : outcome[c] = "none" <=> c = calls /\ pc \in UnderWay
  /\ pc # "idle" => calls > 0

\* A set of positions with at most one, or exactly one, member.
AtMostOne(S) == \A i, j \in S : i = j
One(S)       == S # {} /\ AtMostOne(S)

\* The events of a call, in their order.
Sorted(starts, tokens, ends, fails) ==
  /\ One(starts) /\ AtMostOne(ends) /\ AtMostOne(fails)
  /\ \A i \in starts, j \in tokens \cup ends \cup fails : i < j
  /\ \A i \in tokens, j \in ends \cup fails : i < j
  /\ \A i \in ends, j \in fails : i < j

\* The events a handler has been given of a call are in order, and go as far as the
\* call has got.
AsFarAs(h, c) ==
  LET ends  == At(h, "end", c)
      fails == At(h, "error", c)
  IN  /\ Sorted(At(h, "start", c), At(h, "token", c), ends, fails)
      /\ outcome[c] = "none" /\ pc \in {"inner", "piece"} => ends = {}
      /\ outcome[c] = "returned" \/ (outcome[c] = "none" /\ pc \in {"final", "finished"}) => ends # {}
      /\ fails # {} <=> outcome[c] = "std_exception"

Reported == \A h \in Handlers, c \in 1..calls : AsFarAs(h, c)

\* No handler has been told of a call that was not made.
NoFuture == \A h \in Handlers : \A i \in 1..Len(log[h]) : log[h][i].call <= calls

LInv ==
  /\ CallbacksTypeOK
  /\ OneUnderWay
  /\ Reported
  /\ NoFuture

-----------------------------------------------------------------------------
(* What an event adds to what a handler was told.                          *)

EventType == [kind : Kinds, call : 1..MaxCalls]

\* A handler's log grows by the event at its end.
LEMMA DispatchAppends ==
  ASSUME CallbacksTypeOK, NEW kind \in Kinds, NEW call \in 1..MaxCalls, Dispatch(kind, call)
  PROVE  /\ log' \in [Handlers -> Seq(EventType)]
         /\ \A h \in Handlers :
              /\ Len(log[h]) \in Nat
              /\ Len(log'[h]) = Len(log[h]) + 1
              /\ \A i \in 1..Len(log[h]) : log'[h][i] = log[h][i]
              /\ log'[h][Len(log[h]) + 1] = Event(kind, call)
<1>1. Event(kind, call) \in EventType
  BY DEF Event, EventType
<1>2. \A h \in Handlers : log[h] \in Seq(EventType)
  BY DEF CallbacksTypeOK, EventType
<1>3. \A h \in Handlers : log'[h] = Append(log[h], Event(kind, call))
  BY DEF Dispatch
<1>4. log' \in [Handlers -> Seq(EventType)]
  BY <1>1, <1>2 DEF Dispatch
<1>5. ASSUME NEW h \in Handlers
      PROVE  /\ Len(log[h]) \in Nat
             /\ Len(log'[h]) = Len(log[h]) + 1
             /\ \A i \in 1..Len(log[h]) : log'[h][i] = log[h][i]
             /\ log'[h][Len(log[h]) + 1] = Event(kind, call)
  BY <1>1, <1>2, <1>3
<1>6. QED
  BY <1>4, <1>5

\* It is the one place that is new, among those of its kind and its call.
LEMMA DispatchAt ==
  ASSUME CallbacksTypeOK, NEW kind \in Kinds, NEW call \in 1..MaxCalls, Dispatch(kind, call),
         NEW h \in Handlers, NEW k, NEW c
  PROVE  At(h, k, c)' = IF k = kind /\ c = call THEN At(h, k, c) \cup {Len(log[h]) + 1}
                                                ELSE At(h, k, c)
<1> DEFINE n == Len(log[h])
<1>1. n \in Nat /\ Len(log'[h]) = n + 1
  BY DispatchAppends
<1>2. \A i \in 1..n : log'[h][i] = log[h][i]
  BY DispatchAppends
<1>3. log'[h][n + 1] = Event(kind, call)
  BY DispatchAppends
<1>4. Event(kind, call) = Event(k, c) <=> k = kind /\ c = call
  BY DEF Event
<1>5. 1..n + 1 = 1..n \cup {n + 1}
  BY <1>1
<1>6. At(h, k, c)' = {i \in 1..n + 1 : log'[h][i] = Event(k, c)}
  BY <1>1 DEF At
<1>7. At(h, k, c) = {i \in 1..n : log[h][i] = Event(k, c)}
  BY DEF At
<1>8. QED
  BY <1>1, <1>2, <1>3, <1>4, <1>5, <1>6, <1>7

\* The order of a call's events is kept by the event that may come next.
LEMMA SortedGrows ==
  ASSUME NEW n \in Nat, NEW starts \in SUBSET (1..n), NEW tokens \in SUBSET (1..n),
         NEW ends \in SUBSET (1..n), NEW fails \in SUBSET (1..n),
         Sorted(starts, tokens, ends, fails), fails = {}
  PROVE  /\ ends = {} => Sorted(starts, tokens \cup {n + 1}, ends, fails)
         /\ ends = {} => Sorted(starts, tokens, ends \cup {n + 1}, fails)
         /\ Sorted(starts, tokens, ends, fails \cup {n + 1})
BY DEF Sorted, One, AtMostOne

\* A call that was over goes on having the same events.
LEMMA OverStays ==
  ASSUME Reported, NEW h \in Handlers, NEW c \in 1..calls,
         outcome[c] # "none", outcome'[c] = outcome[c],
         \A k \in Kinds : At(h, k, c)' = At(h, k, c)
  PROVE  AsFarAs(h, c)'
<1>1. AsFarAs(h, c)
  BY DEF Reported
<1>2. /\ At(h, "start", c)' = At(h, "start", c)
      /\ At(h, "token", c)' = At(h, "token", c)
      /\ At(h, "end", c)' = At(h, "end", c)
      /\ At(h, "error", c)' = At(h, "error", c)
  BY DEF Kinds
<1>3. QED
  BY <1>1, <1>2 DEF AsFarAs

\* A call that ends has an outcome, and none is under way.
LEMMA EndTells ==
  ASSUME LInv, pc \in UnderWay, NEW how \in Outcomes \ {"none"}, End(how), calls' = calls
  PROVE  /\ outcome' \in Seq(Outcomes) /\ Len(outcome') = calls
         /\ calls \in 1..MaxCalls
         /\ outcome[calls] = "none" /\ outcome'[calls] = how
         /\ \A c \in 1..calls : c # calls => outcome[c] # "none" /\ outcome'[c] = outcome[c]
         /\ OneUnderWay'
<1>1. calls \in 1..MaxCalls
  BY DEF LInv, CallbacksTypeOK, OneUnderWay, UnderWay
<1>2. outcome \in Seq(Outcomes) /\ Len(outcome) = calls
  BY DEF LInv, CallbacksTypeOK
<1>3. outcome' = [outcome EXCEPT ![calls] = how] /\ pc' = "returned"
  BY DEF End
<1>4. outcome' \in Seq(Outcomes) /\ Len(outcome') = calls /\ DOMAIN outcome = 1..calls
  BY <1>1, <1>2, <1>3
<1>5. outcome'[calls] = how /\ \A c \in 1..calls : c # calls => outcome'[c] = outcome[c]
  BY <1>1, <1>3, <1>4
<1>6. \A c \in 1..calls : outcome[c] = "none" <=> c = calls
  BY DEF LInv, OneUnderWay
<1>7. OneUnderWay'
  BY <1>1, <1>3, <1>5, <1>6 DEF OneUnderWay, UnderWay
<1>8. QED
  BY <1>1, <1>4, <1>5, <1>6, <1>7

-----------------------------------------------------------------------------
(* The steps of the call.                                                  *)

\* A step that gives an event of the last call to the handlers leaves the past alone,
\* so that only the last call is to be looked at.
LEMMA ToldOfTheLast ==
  ASSUME LInv, pc \in UnderWay, calls' = calls, NEW kind \in Kinds, Dispatch(kind, calls),
         \A c \in 1..calls : c # calls => outcome[c] # "none" /\ outcome'[c] = outcome[c],
         \A h \in Handlers : AsFarAs(h, calls)'
  PROVE  Reported' /\ NoFuture' /\ log' \in [Handlers -> Seq(EventType)]
<1>1. calls \in 1..MaxCalls
  BY DEF LInv, CallbacksTypeOK, OneUnderWay, UnderWay
<1>2. ASSUME NEW h \in Handlers, NEW c \in 1..calls
      PROVE  AsFarAs(h, c)'
  <2>1. CASE c = calls
    BY <2>1
  <2>2. CASE c # calls
    <3>1. \A k \in Kinds : At(h, k, c)' = At(h, k, c)
      BY <1>1, <2>2, DispatchAt DEF LInv
    <3>2. QED
      BY <2>2, <3>1, OverStays DEF LInv
  <2>3. QED
    BY <2>1, <2>2
<1>3. ASSUME NEW h \in Handlers, NEW i \in 1..Len(log'[h])
      PROVE  log'[h][i].call <= calls
  <2>1. /\ Len(log[h]) \in Nat /\ Len(log'[h]) = Len(log[h]) + 1
        /\ \A j \in 1..Len(log[h]) : log'[h][j] = log[h][j]
        /\ log'[h][Len(log[h]) + 1] = Event(kind, calls)
    BY <1>1, DispatchAppends DEF LInv
  <2>2. CASE i \in 1..Len(log[h])
    BY <2>1, <2>2 DEF LInv, NoFuture
  <2>3. CASE i = Len(log[h]) + 1
    BY <1>1, <2>1, <2>3 DEF Event
  <2>4. QED
    BY <2>1, <2>2, <2>3
<1>4. log' \in [Handlers -> Seq(EventType)]
  BY <1>1, DispatchAppends DEF LInv
<1>5. QED
  BY <1>2, <1>3, <1>4 DEF Reported, NoFuture

\* The same for a step that tells the handlers nothing.
LEMMA ToldNothing ==
  ASSUME LInv, calls' = calls, log' = log,
         \A c \in 1..calls : c # calls => outcome[c] # "none" /\ outcome'[c] = outcome[c],
         calls # 0 => \A h \in Handlers : AsFarAs(h, calls)'
  PROVE  Reported' /\ NoFuture'
<1>1. calls \in 0..MaxCalls
  BY DEF LInv, CallbacksTypeOK
<1>2. ASSUME NEW h \in Handlers, NEW c \in 1..calls
      PROVE  AsFarAs(h, c)'
  <2>1. CASE c = calls
    BY <1>1, <2>1
  <2>2. CASE c # calls
    <3>1. \A k \in Kinds : At(h, k, c)' = At(h, k, c)
      BY DEF At
    <3>2. QED
      BY <2>2, <3>1, OverStays DEF LInv
  <2>3. QED
    BY <2>1, <2>2
<1>3. NoFuture'
  BY DEF LInv, NoFuture
<1>4. QED
  BY <1>2, <1>3 DEF Reported

LEMMA NoChunkTyped == NoChunk \in Chunks
BY DEF NoChunk, Chunk, Chunks

\* How far the last call has got, before and after an event about it.
LEMMA NextEvent ==
  ASSUME LInv, pc \in UnderWay, calls' = calls, NEW kind \in {"token", "end", "error"},
         Dispatch(kind, calls), NEW h \in Handlers,
         kind \in {"token", "end"} => pc = "inner"
  PROVE  /\ pc \in {"inner", "piece"} => At(h, "end", calls) = {}
         /\ pc \in {"final", "finished"} => At(h, "end", calls) # {}
         /\ At(h, "end", calls)' # {} <=> At(h, "end", calls) # {} \/ kind = "end"
         /\ At(h, "error", calls)' # {} <=> kind = "error"
         /\ Sorted(At(h, "start", calls)', At(h, "token", calls)',
                   At(h, "end", calls)', At(h, "error", calls)')
<1> DEFINE n == Len(log[h])
<1>1. calls \in 1..MaxCalls /\ outcome[calls] = "none"
  BY DEF LInv, CallbacksTypeOK, OneUnderWay, UnderWay
<1>2. AsFarAs(h, calls)
  BY <1>1 DEF LInv, Reported
<1>3. /\ At(h, "error", calls) = {}
      /\ pc \in {"inner", "piece"} => At(h, "end", calls) = {}
      /\ pc \in {"final", "finished"} => At(h, "end", calls) # {}
      /\ Sorted(At(h, "start", calls), At(h, "token", calls),
                At(h, "end", calls), At(h, "error", calls))
  BY <1>1, <1>2 DEF AsFarAs
<1>4. n \in Nat
  BY <1>1, DispatchAppends DEF LInv, Kinds
<1>5. \A k : At(h, k, calls) \in SUBSET (1..n)
  BY DEF At
<1>6. \A k : At(h, k, calls)' = IF k = kind THEN At(h, k, calls) \cup {n + 1}
                                            ELSE At(h, k, calls)
  <2>1. \A k, c : At(h, k, c)' = IF k = kind /\ c = calls THEN At(h, k, c) \cup {n + 1}
                                                          ELSE At(h, k, c)
    BY <1>1, DispatchAt DEF LInv, Kinds
  <2>2. \A k, c : c = calls => At(h, k, c)' = At(h, k, calls)'
    BY DEF At
  <2>3. QED
    BY <2>1, <2>2
<1> HIDE DEF n
<1>7. /\ At(h, "end", calls) = {} =>
           /\ Sorted(At(h, "start", calls), At(h, "token", calls) \cup {n + 1},
                     At(h, "end", calls), At(h, "error", calls))
           /\ Sorted(At(h, "start", calls), At(h, "token", calls),
                     At(h, "end", calls) \cup {n + 1}, At(h, "error", calls))
      /\ Sorted(At(h, "start", calls), At(h, "token", calls),
                At(h, "end", calls), At(h, "error", calls) \cup {n + 1})
  BY <1>3, <1>4, <1>5, SortedGrows
<1>8. CASE kind = "token"
  <2>1. /\ At(h, "start", calls)' = At(h, "start", calls)
        /\ At(h, "token", calls)' = At(h, "token", calls) \cup {n + 1}
        /\ At(h, "end", calls)' = At(h, "end", calls)
        /\ At(h, "error", calls)' = At(h, "error", calls)
    BY <1>6, <1>8
  <2>2. QED
    BY <1>3, <1>7, <1>8, <2>1
<1>9. CASE kind = "end"
  <2>1. /\ At(h, "start", calls)' = At(h, "start", calls)
        /\ At(h, "token", calls)' = At(h, "token", calls)
        /\ At(h, "end", calls)' = At(h, "end", calls) \cup {n + 1}
        /\ At(h, "error", calls)' = At(h, "error", calls)
    BY <1>6, <1>9
  <2>2. QED
    BY <1>3, <1>7, <1>9, <2>1
<1>10. CASE kind = "error"
  <2>1. /\ At(h, "start", calls)' = At(h, "start", calls)
        /\ At(h, "token", calls)' = At(h, "token", calls)
        /\ At(h, "end", calls)' = At(h, "end", calls)
        /\ At(h, "error", calls)' = At(h, "error", calls) \cup {n + 1}
    BY <1>6, <1>10
  <2>2. QED
    BY <1>3, <1>7, <1>10, <2>1
<1>11. QED
  BY <1>8, <1>9, <1>10

\* A call begins: each handler is given its start, and nothing else of it.
LEMMA StartStep ==
  ASSUME LInv, NEW how \in {"invoke", "pieces", "whole"}, Start(how)
  PROVE  LInv'
<1>1. /\ calls \in 0..MaxCalls /\ calls' = calls + 1 /\ calls' \in 1..MaxCalls
      /\ pc = "idle" /\ pc' = "inner"
  BY DEF Start, LInv, CallbacksTypeOK
<1>2. Dispatch("start", calls + 1)
  BY <1>1 DEF Start
<1>3. outcome \in Seq(Outcomes) /\ Len(outcome) = calls
  BY DEF LInv, CallbacksTypeOK
<1>4. /\ outcome' \in Seq(Outcomes) /\ Len(outcome') = calls + 1
      /\ outcome'[calls + 1] = "none"
      /\ \A c \in 1..calls : outcome'[c] = outcome[c]
  BY <1>1, <1>3 DEF Start, Outcomes
<1>5. \A c \in 1..calls : outcome[c] # "none"
  BY <1>1 DEF LInv, OneUnderWay, UnderWay
<1>6. log' \in [Handlers -> Seq(EventType)]
  BY <1>1, <1>2, DispatchAppends DEF LInv, Kinds
<1>7. CallbacksTypeOK'
  <2>1. style' \in {"invoke", "pieces", "whole"} /\ text' \in 0..MaxPieces /\ chunk' \in Chunks
    BY NoChunkTyped DEF Start
  <2>2. calls' \in 0..MaxCalls /\ Len(outcome') = calls'
    BY <1>1, <1>4
  <2>3. QED
    BY <1>1, <1>4, <1>6, <2>1, <2>2 DEF CallbacksTypeOK, EventType
<1>8. OneUnderWay'
  BY <1>1, <1>4, <1>5 DEF OneUnderWay, UnderWay
<1>9. ASSUME NEW h \in Handlers, NEW c \in 1..calls'
      PROVE  AsFarAs(h, c)'
  <2>1. \A k : At(h, k, c)' = IF k = "start" /\ c = calls + 1 THEN At(h, k, c) \cup {Len(log[h]) + 1}
                                                             ELSE At(h, k, c)
    BY <1>1, <1>2, DispatchAt DEF LInv, Kinds
  <2>2. CASE c = calls + 1
    <3>1. \A k : At(h, k, c) = {}
      BY <1>1, <2>2 DEF LInv, NoFuture, At, Event
    <3>2. /\ At(h, "start", c)' = {Len(log[h]) + 1}
          /\ At(h, "token", c)' = {} /\ At(h, "end", c)' = {} /\ At(h, "error", c)' = {}
      BY <2>1, <2>2, <3>1
    <3>3. outcome'[c] = "none"
      BY <1>4, <2>2
    <3>4. QED
      BY <1>1, <3>2, <3>3 DEF AsFarAs, Sorted, One, AtMostOne
  <2>3. CASE c \in 1..calls
    BY <1>1, <1>4, <1>5, <2>1, <2>3, OverStays DEF LInv
  <2>4. QED
    BY <1>1, <2>2, <2>3
<1>10. ASSUME NEW h \in Handlers, NEW i \in 1..Len(log'[h])
       PROVE  log'[h][i].call <= calls'
  <2>1. /\ Len(log[h]) \in Nat /\ Len(log'[h]) = Len(log[h]) + 1
        /\ \A j \in 1..Len(log[h]) : log'[h][j] = log[h][j]
        /\ log'[h][Len(log[h]) + 1] = Event("start", calls + 1)
    BY <1>1, <1>2, DispatchAppends DEF LInv, Kinds
  <2>2. CASE i \in 1..Len(log[h])
    <3>1. log'[h][i].call <= calls
      BY <2>1, <2>2 DEF LInv, NoFuture
    <3>2. log[h] \in Seq(EventType)
      BY DEF LInv, CallbacksTypeOK, EventType
    <3>3. log[h][i] \in EventType
      BY <2>2, <3>2
    <3>4. log[h][i].call \in 1..MaxCalls
      BY <3>3 DEF EventType
    <3>5. QED
      BY <1>1, <2>1, <2>2, <3>1, <3>4
  <2>3. CASE i = Len(log[h]) + 1
    BY <1>1, <2>1, <2>3 DEF Event
  <2>4. QED
    BY <2>1, <2>2, <2>3
<1>11. QED
  BY <1>7, <1>8, <1>9, <1>10 DEF LInv, Reported, NoFuture

\* invoke() returned: every handler is given the end.
LEMMA ReplyStep ==
  ASSUME LInv, Reply
  PROVE  LInv'
<1>1. pc \in UnderWay /\ pc = "inner" /\ calls' = calls /\ Dispatch("end", calls) /\ End("returned")
  BY DEF Reply, UnderWay
<1>2. /\ outcome' \in Seq(Outcomes) /\ Len(outcome') = calls
      /\ calls \in 1..MaxCalls /\ outcome'[calls] = "returned"
      /\ \A c \in 1..calls : c # calls => outcome[c] # "none" /\ outcome'[c] = outcome[c]
      /\ OneUnderWay'
  BY <1>1, EndTells DEF Outcomes
<1>3. ASSUME NEW h \in Handlers
      PROVE  AsFarAs(h, calls)'
  <2>1. /\ At(h, "end", calls)' # {} /\ At(h, "error", calls)' = {}
        /\ Sorted(At(h, "start", calls)', At(h, "token", calls)',
                  At(h, "end", calls)', At(h, "error", calls)')
    BY <1>1, NextEvent
  <2>2. QED
    BY <1>1, <1>2, <2>1 DEF AsFarAs
<1>4. Reported' /\ NoFuture' /\ log' \in [Handlers -> Seq(EventType)]
  BY <1>1, <1>2, <1>3, ToldOfTheLast DEF Kinds
<1>5. CallbacksTypeOK'
  <2>1. style' = style /\ text' \in 0..MaxPieces /\ chunk' \in Chunks /\ pc' = "returned"
    BY NoChunkTyped DEF Reply, End
  <2>2. QED
    BY <1>1, <1>2, <1>4, <2>1 DEF LInv, CallbacksTypeOK, EventType
<1>6. QED
  BY <1>2, <1>4, <1>5 DEF LInv

\* A piece, and the final chunk, are told before the consumer gets them.
LEMMA PieceStep ==
  ASSUME LInv, Piece \/ Final
  PROVE  LInv'
<1>1. PICK kind \in {"token", "end"} :
        /\ Dispatch(kind, calls)
        /\ kind = "token" => pc' = "piece"
        /\ kind = "end" => pc' = "final"
  BY DEF Piece, Final
<1>2. pc \in UnderWay /\ pc = "inner" /\ calls' = calls /\ outcome' = outcome
  BY DEF Piece, Final, UnderWay
<1>3. calls \in 1..MaxCalls /\ \A c \in 1..calls : outcome[c] = "none" <=> c = calls
  BY <1>2 DEF LInv, CallbacksTypeOK, OneUnderWay
<1>4. OneUnderWay'
  BY <1>1, <1>2, <1>3 DEF OneUnderWay, UnderWay
<1>5. ASSUME NEW h \in Handlers
      PROVE  AsFarAs(h, calls)'
  <2>1. /\ At(h, "end", calls)' # {} <=> kind = "end"
        /\ At(h, "error", calls)' = {}
        /\ Sorted(At(h, "start", calls)', At(h, "token", calls)',
                  At(h, "end", calls)', At(h, "error", calls)')
    BY <1>1, <1>2, NextEvent
  <2>2. QED
    BY <1>1, <1>2, <1>3, <2>1 DEF AsFarAs
<1>6. Reported' /\ NoFuture' /\ log' \in [Handlers -> Seq(EventType)]
  BY <1>1, <1>2, <1>3, <1>5, ToldOfTheLast DEF Kinds
<1>7. style' = style /\ text' \in 0..MaxPieces /\ chunk' \in Chunks
  <2>1. CASE Piece
    BY <2>1 DEF Piece, LInv, CallbacksTypeOK, Chunk, Chunks
  <2>2. CASE Final
    <3>1. CASE chunk' = Chunk(0, TRUE) /\ text' = text
      BY <2>2, <3>1 DEF Final, LInv, CallbacksTypeOK, Chunk, Chunks
    <3>2. CASE \E n \in 0..MaxPieces : chunk' = Chunk(n, TRUE) /\ text' = n
      BY <2>2, <3>2 DEF Final, Chunk, Chunks
    <3>3. QED
      BY <2>2, <3>1, <3>2 DEF Final
  <2>3. QED
    BY <2>1, <2>2
<1>8. CallbacksTypeOK'
  BY <1>1, <1>2, <1>6, <1>7 DEF LInv, CallbacksTypeOK, EventType
<1>9. QED
  BY <1>4, <1>6, <1>8 DEF LInv

\* An exception leaves the call, from the model or from the consumer.
LEMMA FailStep ==
  ASSUME LInv, pc \in UnderWay, NEW how \in {"std_exception", "other_exception"}, Fail(how)
  PROVE  LInv'
<1>1. calls' = calls /\ End(how) /\ how \in Outcomes \ {"none"}
  BY DEF Fail, Outcomes
<1>2. /\ outcome' \in Seq(Outcomes) /\ Len(outcome') = calls
      /\ calls \in 1..MaxCalls /\ outcome[calls] = "none" /\ outcome'[calls] = how
      /\ \A c \in 1..calls : c # calls => outcome[c] # "none" /\ outcome'[c] = outcome[c]
      /\ OneUnderWay'
  BY <1>1, EndTells
<1>3. pc' = "returned" /\ style' = style /\ text' = text /\ chunk' \in Chunks
  BY NoChunkTyped DEF Fail, End
<1>4. CASE how = "std_exception"
  <2>1. Dispatch("error", calls)
    BY <1>4 DEF Fail
  <2>2. ASSUME NEW h \in Handlers
        PROVE  AsFarAs(h, calls)'
    <3>1. /\ At(h, "error", calls)' # {}
          /\ Sorted(At(h, "start", calls)', At(h, "token", calls)',
                    At(h, "end", calls)', At(h, "error", calls)')
      BY <1>1, <2>1, NextEvent
    <3>2. QED
      BY <1>1, <1>2, <1>3, <1>4, <3>1 DEF AsFarAs
  <2>3. Reported' /\ NoFuture' /\ log' \in [Handlers -> Seq(EventType)]
    BY <1>1, <1>2, <2>1, <2>2, ToldOfTheLast DEF Kinds
  <2>4. CallbacksTypeOK'
    BY <1>1, <1>2, <1>3, <2>3 DEF LInv, CallbacksTypeOK, EventType
  <2>5. QED
    BY <1>2, <2>3, <2>4 DEF LInv
<1>5. CASE how = "other_exception"
  <2>1. log' = log
    BY <1>5 DEF Fail
  <2>2. ASSUME NEW h \in Handlers
        PROVE  AsFarAs(h, calls)'
    <3>1. AsFarAs(h, calls)
      BY <1>2 DEF LInv, Reported
    <3>2. \A k : At(h, k, calls)' = At(h, k, calls)
      BY <1>1, <2>1 DEF At
    <3>3. QED
      BY <1>1, <1>2, <1>3, <1>5, <3>1, <3>2 DEF AsFarAs
  <2>3. Reported' /\ NoFuture'
    BY <1>1, <1>2, <2>1, <2>2, ToldNothing
  <2>4. CallbacksTypeOK'
    BY <1>1, <1>2, <1>3, <2>1 DEF LInv, CallbacksTypeOK
  <2>5. QED
    BY <1>2, <2>3, <2>4 DEF LInv
<1>6. QED
  BY <1>4, <1>5

\* The consumer takes its chunk.
LEMMA ConsumedStep ==
  ASSUME LInv, Consumed
  PROVE  LInv'
<1>1. /\ log' = log /\ calls' = calls /\ outcome' = outcome
      /\ \/ pc = "piece" /\ pc' = "inner"
         \/ pc = "final" /\ pc' = "finished"
  BY DEF Consumed
<1>2. calls \in 1..MaxCalls /\ \A c \in 1..calls : outcome[c] = "none" <=> c = calls
  BY <1>1 DEF LInv, CallbacksTypeOK, OneUnderWay, UnderWay
<1>3. OneUnderWay'
  BY <1>1, <1>2 DEF OneUnderWay, UnderWay
<1>4. ASSUME NEW h \in Handlers
      PROVE  AsFarAs(h, calls)'
  <2>1. AsFarAs(h, calls)
    BY <1>2 DEF LInv, Reported
  <2>2. \A k : At(h, k, calls)' = At(h, k, calls)
    BY <1>1 DEF At
  <2>3. QED
    BY <1>1, <1>2, <2>1, <2>2 DEF AsFarAs
<1>5. Reported' /\ NoFuture'
  BY <1>1, <1>2, <1>4, ToldNothing
<1>6. CallbacksTypeOK'
  <2>1. style' = style /\ text' = text /\ chunk' \in Chunks
    BY NoChunkTyped DEF Consumed
  <2>2. QED
    BY <1>1, <2>1 DEF LInv, CallbacksTypeOK
<1>7. QED
  BY <1>3, <1>5, <1>6 DEF LInv

\* stream() returns, after its final chunk.
LEMMA ReturnStep ==
  ASSUME LInv, Return
  PROVE  LInv'
<1>1. /\ pc = "finished" /\ pc \in UnderWay /\ log' = log /\ calls' = calls
      /\ End("returned") /\ pc' = "returned"
  BY DEF Return, End, UnderWay
<1>2. /\ outcome' \in Seq(Outcomes) /\ Len(outcome') = calls
      /\ calls \in 1..MaxCalls /\ outcome[calls] = "none" /\ outcome'[calls] = "returned"
      /\ \A c \in 1..calls : c # calls => outcome[c] # "none" /\ outcome'[c] = outcome[c]
      /\ OneUnderWay'
  BY <1>1, EndTells DEF Outcomes
<1>3. ASSUME NEW h \in Handlers
      PROVE  AsFarAs(h, calls)'
  <2>1. AsFarAs(h, calls)
    BY <1>2 DEF LInv, Reported
  <2>2. \A k : At(h, k, calls)' = At(h, k, calls)
    BY <1>1 DEF At
  <2>3. QED
    BY <1>1, <1>2, <2>1, <2>2 DEF AsFarAs
<1>4. Reported' /\ NoFuture'
  BY <1>1, <1>2, <1>3, ToldNothing
<1>5. CallbacksTypeOK'
  <2>1. style' = style /\ text' = text /\ chunk' \in Chunks
    BY NoChunkTyped DEF Return, End
  <2>2. QED
    BY <1>1, <1>2, <2>1 DEF LInv, CallbacksTypeOK
<1>6. QED
  BY <1>2, <1>4, <1>5 DEF LInv

\* The call is over for the handlers, whatever the cache does afterwards.
LEMMA AfterCall ==
  ASSUME LInv, pc \notin UnderWay, pc' \in {pc, "idle"},
         UNCHANGED << log, calls, style, text, chunk, outcome >>
  PROVE  LInv'
<1>1. pc' \notin UnderWay /\ (pc' # "idle" => pc # "idle")
  BY DEF UnderWay
<1>2. \A c \in 1..calls : outcome[c] # "none"
  BY DEF LInv, OneUnderWay
<1>3. OneUnderWay'
  BY <1>1, <1>2 DEF LInv, OneUnderWay
<1>4. \A h \in Handlers, c \in 1..calls : AsFarAs(h, c)'
  <2>1. \A h \in Handlers, c \in 1..calls, k \in Kinds : At(h, k, c)' = At(h, k, c)
    BY DEF At
  <2>2. QED
    BY <1>2, <2>1, OverStays DEF LInv
<1>5. Reported' /\ NoFuture'
  BY <1>4 DEF LInv, Reported, NoFuture
<1>6. CallbacksTypeOK'
  BY DEF LInv, CallbacksTypeOK
<1>7. QED
  BY <1>3, <1>5, <1>6 DEF LInv

\* A step in which nothing is observed.
LEMMA NothingObserved ==
  ASSUME LInv, UNCHANGED observed
  PROVE  LInv'
<1>1. \A h \in Handlers, c \in 1..calls : \A k : At(h, k, c)' = At(h, k, c)
  BY DEF observed, At
<1>2. \A h \in Handlers, c \in 1..calls : AsFarAs(h, c)'
  BY <1>1 DEF LInv, Reported, AsFarAs, observed
<1>3. Reported' /\ NoFuture' /\ OneUnderWay' /\ CallbacksTypeOK'
  BY <1>2 DEF LInv, Reported, NoFuture, OneUnderWay, CallbacksTypeOK, observed
<1>4. QED
  BY <1>3 DEF LInv

-----------------------------------------------------------------------------
\* What a request says of itself stands in its key, and it was offered what its
\* model was bound with, and nothing that is not registered.
Tells(request) ==
  /\ request.key.conversation = request.conversation
  /\ request.key.tools = request.model
  /\ IF request.model = None THEN request.tools = None
     ELSE request.model \in 0..registry /\ request.tools \in request.model..registry

KeysTell == \A c \in 1..calls : Tells(asked[c])

\* The call under way serves the last request.
Serves == pc # "idle" => asked[calls] = last /\ (last.how = "invoke" <=> style = "invoke")

EntriesComplete ==
  \A key \in DOMAIN cache :
    /\ cache[key].call \in 1..calls
    /\ outcome[cache[key].call] = "returned"
    /\ asked[cache[key].call].key = key

\* What the consumer has got of the reply under way.
DeltasSoFar ==
  /\ pc = "inner" => consumed = text /\ (style # "pieces" => text = 0)
  /\ pc = "piece" => style = "pieces"
  /\ pc \in {"piece", "final"} => consumed + chunk.delta = text
  /\ pc = "finished" => consumed = text
  /\ pc = "returned" => consumed <= text
  /\ pc = "returned" /\ outcome[calls] = "returned" /\ style # "invoke" => consumed = text

OwnInv ==
  /\ TypeOK
  /\ KeysTell
  /\ Serves
  /\ EntriesComplete
  /\ AnswersRequest
  /\ DeltasSoFar
  /\ DeltasAddUp

-----------------------------------------------------------------------------
(* The cache and its requests.                                             *)

\* The application's requests, and what it is offered, are of their types.
LEMMA RequestsTyped ==
  ASSUME TypeOK, NEW model \in Models, NEW conversation \in Conversations,
         NEW how \in {"invoke", "stream"}
  PROVE  /\ Key(model, conversation) \in Keys
         /\ RequestOf(model, conversation, how) \in RequestType
         /\ Tells(RequestOf(model, conversation, how))
<1>1. registry \in 0..MaxTools /\ signatures \subseteq 0..registry
  BY DEF TypeOK
<1>2. model = None \/ model \in 0..registry
  BY <1>1 DEF Models
<1>3. model \in Tools /\ Offered(model) \in Tools
  BY <1>1, <1>2 DEF Offered, Tools
<1>4. Key(model, conversation) \in Keys
  BY <1>3 DEF Key, Keys
<1>5. IF model = None THEN Offered(model) = None
      ELSE model \in 0..registry /\ Offered(model) \in model..registry
  BY <1>1, <1>2 DEF Offered
<1>6. QED
  BY <1>3, <1>4, <1>5 DEF RequestOf, RequestType, Tells, Key

\* While the call is at work, nothing of the cache or the requests moves.
LEMMA WorkFrame ==
  ASSUME LInv, OwnInv, LInv', pc \in UnderWay, pc' # "idle",
         calls' = calls, style' = style,
         \A c \in 1..calls : c # calls => outcome'[c] = outcome[c],
         UNCHANGED << registry, signatures, cache, last, requests, delivered, asked >>,
         consumed' \in 0..MaxPieces, DeltasSoFar'
  PROVE  OwnInv'
<1>1. calls \in 1..MaxCalls /\ outcome[calls] = "none"
  BY DEF LInv, CallbacksTypeOK, OneUnderWay, UnderWay
<1>2. TypeOK'
  BY DEF LInv, OwnInv, TypeOK
<1>3. KeysTell'
  BY DEF OwnInv, KeysTell, Tells
<1>4. Serves'
  <2>1. pc # "idle"
    BY DEF UnderWay
  <2>2. QED
    BY <2>1 DEF OwnInv, Serves
<1>5. EntriesComplete'
  <2>1. ASSUME NEW key \in DOMAIN cache
        PROVE  /\ cache[key].call \in 1..calls
               /\ outcome'[cache[key].call] = "returned"
               /\ asked[cache[key].call].key = key
    <3>1. /\ cache[key].call \in 1..calls
          /\ outcome[cache[key].call] = "returned"
          /\ asked[cache[key].call].key = key
      BY DEF OwnInv, EntriesComplete
    <3>2. cache[key].call # calls
      BY <1>1, <3>1
    <3>3. QED
      BY <3>1, <3>2
  <2>2. QED
    BY <2>1 DEF EntriesComplete
<1>6. AnswersRequest' /\ DeltasAddUp'
  BY DEF AnswersRequest, DeltasAddUp
<1>7. QED
  BY <1>2, <1>3, <1>4, <1>5, <1>6 DEF OwnInv

\* What the consumer has and what is on its way are the reply so far.
LEMMA InnerWork ==
  ASSUME LInv, OwnInv, LInv', InnerStep
  PROVE  OwnInv'
<1>1. /\ text \in Nat /\ consumed \in 0..MaxPieces /\ chunk.delta \in Nat
      /\ style \in {"invoke", "pieces", "whole"} /\ calls \in 0..MaxCalls
  BY DEF LInv, CallbacksTypeOK, Chunks, OwnInv, TypeOK
<1>2. text' \in Nat
  BY DEF LInv, CallbacksTypeOK
<1>3. consumed' = consumed /\ UNCHANGED << registry, signatures, cache, last, requests, delivered, asked >>
  BY DEF InnerStep, own
<1>4. CASE Reply
  <2>1. pc = "inner" /\ style = "invoke" /\ pc' = "returned" /\ style' = style /\ calls' = calls
    BY <1>4 DEF Reply, End
  <2>2. consumed = 0
    BY <2>1 DEF OwnInv, DeltasSoFar
  <2>3. DeltasSoFar'
    BY <1>2, <1>3, <2>1, <2>2 DEF DeltasSoFar
  <2>4. \A c \in 1..calls : c # calls => outcome'[c] = outcome[c]
    BY <1>4, <2>1, EndTells DEF Reply, UnderWay, Outcomes
  <2>5. QED
    BY <1>1, <1>3, <2>1, <2>3, <2>4, WorkFrame DEF UnderWay
<1>5. CASE Piece
  <2>1. /\ pc = "inner" /\ pc' = "piece" /\ style = "pieces" /\ style' = style
        /\ calls' = calls /\ outcome' = outcome
        /\ text' = text + 1 /\ chunk' = Chunk(1, FALSE)
    BY <1>5 DEF Piece
  <2>2. consumed = text
    BY <2>1 DEF OwnInv, DeltasSoFar
  <2>3. DeltasSoFar'
    BY <1>1, <1>3, <2>1, <2>2 DEF DeltasSoFar, Chunk
  <2>4. QED
    BY <1>1, <1>3, <2>1, <2>3, WorkFrame DEF UnderWay
<1>6. CASE Final
  <2>1. pc = "inner" /\ pc' = "final" /\ style' = style /\ calls' = calls /\ outcome' = outcome
    BY <1>6 DEF Final
  <2>2. consumed = text /\ (style = "whole" => text = 0)
    BY <2>1 DEF OwnInv, DeltasSoFar
  <2>3. consumed + chunk'.delta = text'
    <3>1. CASE chunk' = Chunk(0, TRUE) /\ text' = text
      BY <1>1, <2>2, <3>1 DEF Chunk
    <3>2. CASE style = "whole" /\ \E n \in 0..MaxPieces : chunk' = Chunk(n, TRUE) /\ text' = n
      BY <1>1, <2>2, <3>2 DEF Chunk
    <3>3. QED
      BY <1>6, <3>1, <3>2 DEF Final
  <2>4. DeltasSoFar'
    BY <1>3, <2>1, <2>3 DEF DeltasSoFar
  <2>5. QED
    BY <1>1, <1>3, <2>1, <2>4, WorkFrame DEF UnderWay
<1>7. CASE Return
  <2>1. /\ pc = "finished" /\ pc' = "returned" /\ style' = style /\ calls' = calls /\ text' = text
    BY <1>7 DEF Return, End
  <2>2. consumed = text
    BY <2>1 DEF OwnInv, DeltasSoFar
  <2>3. DeltasSoFar'
    BY <1>1, <1>3, <2>1, <2>2 DEF DeltasSoFar
  <2>4. \A c \in 1..calls : c # calls => outcome'[c] = outcome[c]
    BY <1>7, <2>1, EndTells DEF Return, UnderWay, Outcomes
  <2>5. QED
    BY <1>1, <1>3, <2>1, <2>3, <2>4, WorkFrame DEF UnderWay
<1>8. ASSUME NEW how \in {"std_exception", "other_exception"}, InnerThrows(how) \/ ConsumerThrows(how)
      PROVE  OwnInv'
  <2>1. /\ pc \in UnderWay /\ Fail(how) /\ End(how) /\ pc' = "returned"
        /\ style' = style /\ calls' = calls /\ text' = text
    BY <1>8 DEF InnerThrows, ConsumerThrows, UnderWay, Fail, End
  <2>2. consumed <= text
    <3>1. consumed = text \/ consumed + chunk.delta = text
      BY <2>1 DEF OwnInv, DeltasSoFar, UnderWay
    <3>2. QED
      BY <1>1, <3>1
  <2>3. /\ outcome'[calls] = how
        /\ \A c \in 1..calls : c # calls => outcome'[c] = outcome[c]
    BY <2>1, EndTells DEF Outcomes
  <2>4. DeltasSoFar'
    BY <1>3, <2>1, <2>2, <2>3 DEF DeltasSoFar
  <2>5. QED
    BY <1>1, <1>3, <2>1, <2>3, <2>4, WorkFrame
<1>9. QED
  BY <1>4, <1>5, <1>6, <1>7, <1>8 DEF InnerStep

LEMMA ConsumeStep ==
  ASSUME LInv, OwnInv, LInv', Consume
  PROVE  OwnInv'
<1>1. /\ text \in 0..MaxPieces /\ consumed \in 0..MaxPieces /\ chunk.delta \in Nat
      /\ calls \in 0..MaxCalls
  BY DEF LInv, CallbacksTypeOK, Chunks, OwnInv, TypeOK
<1>2. /\ pc \in {"piece", "final"} /\ pc' = (IF pc = "piece" THEN "inner" ELSE "finished")
      /\ calls' = calls /\ style' = style /\ text' = text /\ outcome' = outcome
      /\ consumed' = consumed + chunk.delta
      /\ UNCHANGED << registry, signatures, cache, last, requests, delivered, asked >>
  BY DEF Consume, Consumed
<1>3. consumed' = text
  BY <1>1, <1>2 DEF OwnInv, DeltasSoFar
<1>4. pc = "piece" => style = "pieces"
  BY DEF OwnInv, DeltasSoFar
<1>5. DeltasSoFar'
  BY <1>2, <1>3, <1>4 DEF DeltasSoFar
<1>6. QED
  BY <1>1, <1>2, <1>3, <1>5, WorkFrame DEF UnderWay

\* Registering or binding tools: the entries, the requests and their keys stay.
LEMMA ToolsStep ==
  ASSUME LInv, OwnInv, LInv', AddTool \/ BindTools
  PROVE  OwnInv'
<1>1. /\ pc = "idle" /\ pc' = pc
      /\ UNCHANGED << calls, style, text, chunk, outcome >>
      /\ UNCHANGED << cache, last, requests, consumed, delivered, asked >>
  BY DEF AddTool, BindTools, observed
<1>2. TypeOK' /\ registry <= registry'
  <2>1. registry' \in 0..MaxTools /\ registry <= registry' /\ signatures' \subseteq 0..registry'
    <3>1. CASE AddTool
      BY <3>1 DEF AddTool, OwnInv, TypeOK
    <3>2. CASE BindTools
      BY <3>2 DEF BindTools, OwnInv, TypeOK
    <3>3. QED
      BY <3>1, <3>2
  <2>2. TypeOK'
    BY <1>1, <2>1 DEF LInv, OwnInv, TypeOK
  <2>3. QED
    BY <2>1, <2>2
<1>3. KeysTell' /\ Serves' /\ EntriesComplete'
  <2>1. registry \in Nat /\ registry' \in Nat
    BY <1>2 DEF OwnInv, TypeOK
  <2>2. ASSUME NEW c \in 1..calls PROVE Tells(asked[c])'
    <3>1. Tells(asked[c]) /\ asked'[c] = asked[c]
      BY <1>1 DEF OwnInv, KeysTell
    <3>2. QED
      BY <1>2, <2>1, <3>1 DEF Tells
  <2>3. KeysTell'
    BY <1>1, <2>2 DEF KeysTell
  <2>4. QED
    BY <1>1, <2>3 DEF OwnInv, Serves, EntriesComplete
<1>4. AnswersRequest' /\ DeltasSoFar' /\ DeltasAddUp'
  BY <1>1 DEF OwnInv, AnswersRequest, DeltasSoFar, DeltasAddUp
<1>5. QED
  BY <1>2, <1>3, <1>4 DEF OwnInv

\* A hit serves an entry under the request's key, which tells the conversation and
\* the tools that were bound.
LEMMA HitStep ==
  ASSUME LInv, OwnInv, LInv', NEW model \in Models, NEW conversation \in Conversations,
         NEW how \in {"invoke", "stream"}, Hit(model, conversation, how)
  PROVE  OwnInv'
<1> DEFINE key == Key(model, conversation)
<1>1. /\ pc = "idle" /\ UNCHANGED << pc, calls, style, text, chunk, outcome >>
      /\ requests < MaxRequests /\ requests' = requests + 1
      /\ key \in DOMAIN cache
      /\ UNCHANGED << registry, signatures, cache, asked >>
      /\ last' = RequestOf(model, conversation, how)
      /\ consumed' = (IF how = "stream" THEN cache[key].text ELSE 0)
      /\ delivered' = cache[key]
  BY DEF Hit, observed, Cached
<1>2. /\ last'.model = model /\ last'.conversation = conversation /\ last'.how = how
      /\ key.conversation = conversation /\ key.tools = model
      /\ last'.tools = Offered(model)
  BY <1>1 DEF RequestOf, Key
<1>3. last' \in RequestType
  BY <1>1, RequestsTyped DEF OwnInv
<1>4. cache[key] \in ReplyType
  BY <1>1 DEF OwnInv, TypeOK
<1>5. cache[key].text \in 0..MaxPieces
  BY <1>4 DEF ReplyType
<1> HIDE DEF key
<1>6. TypeOK'
  BY <1>1, <1>3, <1>4, <1>5 DEF LInv, OwnInv, TypeOK
<1>7. KeysTell' /\ Serves' /\ EntriesComplete' /\ DeltasSoFar'
  BY <1>1 DEF OwnInv, KeysTell, Tells, Serves, EntriesComplete, DeltasSoFar
<1>8. AnswersRequest'
  <2> DEFINE served == asked[cache[key].call]
  <2>1. cache[key].call \in 1..calls /\ served.key = key
    BY <1>1 DEF OwnInv, EntriesComplete
  <2>2. Tells(served)
    BY <2>1 DEF OwnInv, KeysTell
  <2>3. served.conversation = conversation /\ served.model = model
    BY <1>2, <2>1, <2>2 DEF Tells
  <2>4. IF model = None THEN served.tools = None
        ELSE model \in 0..registry /\ served.tools \in model..registry
    BY <2>2, <2>3 DEF Tells
  <2>5. registry \in Nat /\ last'.tools = IF model = None THEN None ELSE registry
    BY <1>2 DEF Offered, OwnInv, TypeOK
  <2>6. IF model \in {None, last'.tools} THEN served.tools = last'.tools
        ELSE served.tools \in model..last'.tools
    BY <2>4, <2>5
  <2>7. asked'[delivered'.call] = served
    BY <1>1
  <2> HIDE DEF served
  <2>8. QED
    BY <1>2, <2>3, <2>6, <2>7 DEF AnswersRequest
<1>9. DeltasAddUp'
  BY <1>1, <1>2 DEF DeltasAddUp
<1>10. QED
  BY <1>6, <1>7, <1>8, <1>9 DEF OwnInv

\* A miss begins a call, which serves the request.
LEMMA MissStep ==
  ASSUME LInv, OwnInv, LInv', NEW model \in Models, NEW conversation \in Conversations,
         NEW how \in {"invoke", "stream"}, NEW inner \in {"invoke", "pieces", "whole"},
         Miss(model, conversation, how, inner)
  PROVE  OwnInv'
<1> DEFINE request == RequestOf(model, conversation, how)
<1>1. /\ pc = "idle" /\ pc' = "inner" /\ calls' = calls + 1 /\ style' = inner /\ text' = 0
      /\ outcome' = Append(outcome, "none")
      /\ requests < MaxRequests /\ requests' = requests + 1
      /\ (how = "invoke" <=> inner = "invoke")
      /\ last' = request /\ asked' = Append(asked, request)
      /\ consumed' = 0 /\ delivered' = None
      /\ UNCHANGED << registry, signatures, cache >>
  BY DEF Miss, Start
<1>2. /\ request.model = model /\ request.conversation = conversation /\ request.how = how
  BY DEF RequestOf
<1>3. request \in RequestType /\ Tells(request)
  BY RequestsTyped DEF OwnInv
<1> HIDE DEF request
<1>4. /\ calls \in Nat
      /\ outcome \in Seq(Outcomes) /\ Len(outcome) = calls
      /\ asked \in Seq(RequestType) /\ Len(asked) = calls
  BY DEF LInv, CallbacksTypeOK, OwnInv, TypeOK
<1>5. \A c \in 1..calls : outcome'[c] = outcome[c] /\ asked'[c] = asked[c]
  BY <1>1, <1>3, <1>4 DEF Outcomes
<1>6. asked' \in Seq(RequestType) /\ Len(asked') = calls + 1 /\ asked'[calls + 1] = request
  BY <1>1, <1>3, <1>4
<1>7. TypeOK'
  BY <1>1, <1>3, <1>6 DEF LInv, OwnInv, TypeOK
<1>8. KeysTell'
  <2>1. ASSUME NEW c \in 1..calls PROVE Tells(asked'[c])
    BY <1>5 DEF OwnInv, KeysTell
  <2>2. \A c \in 1..(calls + 1) : Tells(asked'[c])
    BY <1>3, <1>4, <1>6, <2>1
  <2>3. QED
    BY <1>1, <2>2 DEF KeysTell, Tells
<1>9. Serves'
  BY <1>1, <1>2, <1>6 DEF Serves
<1>10. EntriesComplete'
  <2>1. ASSUME NEW key \in DOMAIN cache
        PROVE  /\ cache[key].call \in 1..calls + 1
               /\ outcome'[cache[key].call] = "returned"
               /\ asked'[cache[key].call].key = key
    <3>1. /\ cache[key].call \in 1..calls
          /\ outcome[cache[key].call] = "returned"
          /\ asked[cache[key].call].key = key
      BY DEF OwnInv, EntriesComplete
    <3>2. QED
      BY <1>4, <1>5, <3>1
  <2>2. QED
    BY <1>1, <2>1 DEF EntriesComplete
<1>11. AnswersRequest' /\ DeltasSoFar' /\ DeltasAddUp'
  BY <1>1 DEF AnswersRequest, DeltasSoFar, DeltasAddUp
<1>12. QED
  BY <1>7, <1>8, <1>9, <1>10, <1>11 DEF OwnInv

\* The reply is stored under the key of the request it was given to.
LEMMA StoreStep ==
  ASSUME LInv, OwnInv, LInv', Store
  PROVE  OwnInv'
<1>1. /\ pc = "returned" /\ pc' = "idle"
      /\ UNCHANGED << calls, style, text, chunk, outcome >>
      /\ UNCHANGED << registry, signatures, last, requests, consumed, asked >>
  BY DEF Store
<1>2. calls \in 1..MaxCalls /\ text \in 0..MaxPieces
  BY <1>1 DEF LInv, CallbacksTypeOK, OneUnderWay
<1>3. asked[calls] = last /\ (last.how = "invoke" <=> style = "invoke")
  BY <1>1 DEF OwnInv, Serves
<1>4. KeysTell' /\ Serves' /\ DeltasSoFar'
  BY <1>1 DEF OwnInv, KeysTell, Tells, Serves, DeltasSoFar
<1>5. CASE outcome[calls] # "returned"
  <2>1. cache' = cache /\ delivered' = None
    BY <1>5 DEF Store
  <2>2. TypeOK'
    BY <1>1, <2>1 DEF LInv, OwnInv, TypeOK
  <2>3. EntriesComplete' /\ AnswersRequest' /\ DeltasAddUp'
    BY <1>1, <2>1 DEF OwnInv, EntriesComplete, AnswersRequest, DeltasAddUp
  <2>4. QED
    BY <1>4, <2>2, <2>3 DEF OwnInv
<1>6. CASE outcome[calls] = "returned"
  <2>1. /\ cache' = [k \in DOMAIN cache \cup {last.key} |->
                       IF k = last.key THEN LastReply ELSE cache[k]]
        /\ delivered' = LastReply
    BY <1>6 DEF Store, Put
  <2>2. LastReply.call = calls /\ LastReply.text = text /\ LastReply \in ReplyType
    BY <1>2 DEF LastReply, ReplyType
  <2> HIDE DEF LastReply
  <2>3. last.key \in Keys
    BY DEF OwnInv, TypeOK, RequestType
  <2>4. TypeOK'
    <3>1. DOMAIN cache' \subseteq Keys /\ \A key \in DOMAIN cache' : cache'[key] \in ReplyType
      BY <2>1, <2>2, <2>3 DEF OwnInv, TypeOK
    <3>2. QED
      BY <1>1, <2>1, <2>2, <3>1 DEF LInv, OwnInv, TypeOK
  <2>5. EntriesComplete'
    <3>1. ASSUME NEW key \in DOMAIN cache'
          PROVE  /\ cache'[key].call \in 1..calls
                 /\ outcome[cache'[key].call] = "returned"
                 /\ asked[cache'[key].call].key = key
      <4>1. CASE key = last.key
        BY <1>2, <1>3, <1>6, <2>1, <2>2, <4>1
      <4>2. CASE key # last.key
        BY <2>1, <4>2 DEF OwnInv, EntriesComplete
      <4>3. QED
        BY <4>1, <4>2
    <3>2. QED
      BY <1>1, <3>1 DEF EntriesComplete
  <2>6. AnswersRequest'
    <3>1. registry \in Nat /\ Tells(last)
      BY <1>2, <1>3 DEF OwnInv, KeysTell, TypeOK
    <3>2. IF last.model \in {None, last.tools} THEN last.tools = last.tools
          ELSE last.tools \in last.model..last.tools
      BY <3>1 DEF Tells
    <3>3. QED
      BY <1>1, <1>3, <2>1, <2>2, <3>2 DEF AnswersRequest
  <2>7. DeltasAddUp'
    <3>1. last.how = "stream" => consumed = text
      BY <1>1, <1>3, <1>6 DEF OwnInv, DeltasSoFar
    <3>2. QED
      BY <1>1, <2>1, <2>2, <3>1 DEF DeltasAddUp
  <2>8. QED
    BY <1>4, <2>4, <2>5, <2>6, <2>7 DEF OwnInv
<1>7. QED
  BY <1>5, <1>6

-----------------------------------------------------------------------------
LEMMA InitOK == Init => LInv /\ OwnInv
<1> SUFFICES ASSUME Init PROVE LInv /\ OwnInv
  OBVIOUS
<1>1. /\ log = [h \in Handlers |-> << >>] /\ calls = 0 /\ pc = "idle" /\ style = "invoke"
      /\ text = 0 /\ chunk = NoChunk /\ outcome = << >>
      /\ registry = 0 /\ signatures = {} /\ cache = << >> /\ requests = 0
      /\ consumed = 0 /\ delivered = None /\ asked = << >>
  BY DEF Init, CallbacksInit
<1>2. CallbacksTypeOK
  BY <1>1, NoChunkTyped DEF CallbacksTypeOK
<1>3. LInv
  BY <1>1, <1>2 DEF LInv, OneUnderWay, Reported, NoFuture, UnderWay
<1>4. TypeOK
  <2>1. registry \in 0..MaxTools /\ signatures \subseteq 0..registry
    BY <1>1
  <2>2. last \in RequestType
    <3>1. (CHOOSE c \in Conversations : TRUE) \in Conversations
      OBVIOUS
    <3>2. last = RequestOf(None, CHOOSE c \in Conversations : TRUE, "invoke")
      BY DEF Init
    <3>3. None \in Tools /\ Offered(None) \in Tools
      BY DEF Offered, Tools
    <3>4. QED
      BY <3>1, <3>2, <3>3 DEF RequestOf, RequestType, Key, Keys
  <2>3. DOMAIN cache = {}
    BY <1>1
  <2>4. QED
    BY <1>1, <1>2, <2>1, <2>2, <2>3 DEF TypeOK
<1>5. OwnInv
  BY <1>1, <1>4 DEF OwnInv, KeysTell, Serves, EntriesComplete, AnswersRequest, DeltasSoFar, DeltasAddUp
<1>6. QED
  BY <1>3, <1>5

LEMMA NextOK ==
  ASSUME LInv, OwnInv, [Next]_vars
  PROVE  LInv' /\ OwnInv'
<1>1. ASSUME UNCHANGED vars
      PROVE  LInv' /\ OwnInv'
  <2>1. LInv'
    BY <1>1, NothingObserved DEF vars
  <2>2. TypeOK'
    BY <1>1, <2>1 DEF LInv, OwnInv, TypeOK, vars, observed, own
  <2>3. KeysTell' /\ Serves' /\ EntriesComplete'
    BY <1>1 DEF OwnInv, KeysTell, Tells, Serves, EntriesComplete, vars, observed, own
  <2>4. AnswersRequest' /\ DeltasSoFar' /\ DeltasAddUp'
    BY <1>1 DEF OwnInv, AnswersRequest, DeltasSoFar, DeltasAddUp, vars, observed, own
  <2>5. QED
    BY <2>1, <2>2, <2>3, <2>4 DEF OwnInv
<1>2. CASE AddTool \/ BindTools
  BY <1>2, NothingObserved, ToolsStep DEF AddTool, BindTools
<1>3. ASSUME NEW model \in Models, NEW conversation \in Conversations,
             NEW how \in {"invoke", "stream"}, Hit(model, conversation, how)
      PROVE  LInv' /\ OwnInv'
  BY <1>3, NothingObserved, HitStep DEF Hit
<1>4. ASSUME NEW model \in Models, NEW conversation \in Conversations,
             NEW how \in {"invoke", "stream"}, NEW inner \in {"invoke", "pieces", "whole"},
             Miss(model, conversation, how, inner)
      PROVE  LInv' /\ OwnInv'
  BY <1>4, StartStep, MissStep DEF Miss
<1>5. CASE InnerStep
  <2>1. LInv'
    <3>1. ASSUME NEW how \in {"std_exception", "other_exception"},
                 InnerThrows(how) \/ ConsumerThrows(how)
          PROVE  LInv'
      BY <3>1, FailStep DEF InnerThrows, ConsumerThrows, UnderWay
    <3>2. QED
      BY <1>5, <3>1, ReplyStep, PieceStep, ReturnStep DEF InnerStep
  <2>2. QED
    BY <1>5, <2>1, InnerWork
<1>6. CASE Consume
  BY <1>6, ConsumedStep, ConsumeStep DEF Consume
<1>7. CASE Store
  <2>1. LInv'
    BY <1>7, AfterCall DEF Store, UnderWay
  <2>2. QED
    BY <1>7, <2>1, StoreStep
<1>8. QED
  BY <1>1, <1>2, <1>3, <1>4, <1>5, <1>6, <1>7 DEF Next, Requests, Terminated

LEMMA Always == Spec => [](LInv /\ OwnInv)
BY InitOK, NextOK, PTL DEF Spec

\* At most one position is at most one when counted.
LEMMA Counted ==
  ASSUME NEW n \in Nat, NEW S \in SUBSET (1..n), AtMostOne(S)
  PROVE  /\ Cardinality(S) = IF S = {} THEN 0 ELSE 1
<1>1. CASE S = {}
  BY <1>1, FS_EmptySet
<1>2. CASE S # {}
  <2>1. PICK i \in S : S = {i}
    BY <1>2 DEF AtMostOne
  <2>2. QED
    BY <2>1, FS_Singleton
<1>3. QED
  BY <1>1, <1>2

\* The variables of the two models keep their types.
THEOREM TypeCorrect == Spec => []TypeOK
<1>1. OwnInv => TypeOK
  BY DEF OwnInv
<1>2. QED
  BY <1>1, Always, PTL

\* Every handler is told of each call what became of it: one start, then the pieces,
\* then an end at most, then an error exactly if a std::exception left the call,
\* whichever handler throws and wherever the exception came from
\* (callbacking_chat_model.cpp:11-38, callbacks.hpp:63-66).
THEOREM CallsAreClosed == Spec => []ClosedOnce
<1>1. ASSUME LInv PROVE ClosedOnce
  <2>1. ASSUME NEW h \in Handlers, NEW c \in 1..calls, outcome[c] # "none"
        PROVE  /\ InOrder(At(h, "start", c), At(h, "token", c), At(h, "end", c), At(h, "error", c))
               /\ Cardinality(At(h, "end", c)) \in (IF outcome[c] = "returned" THEN {1} ELSE {0, 1})
               /\ Cardinality(At(h, "error", c)) = (IF outcome[c] = "std_exception" THEN 1 ELSE 0)
    <3>1. /\ Sorted(At(h, "start", c), At(h, "token", c), At(h, "end", c), At(h, "error", c))
          /\ outcome[c] = "returned" => At(h, "end", c) # {}
          /\ At(h, "error", c) # {} <=> outcome[c] = "std_exception"
      BY <1>1, <2>1 DEF LInv, Reported, AsFarAs
    <3>2. Len(log[h]) \in Nat
      BY <1>1 DEF LInv, CallbacksTypeOK
    <3>3. \A k : At(h, k, c) \in SUBSET (1..Len(log[h]))
      BY DEF At
    <3>4. /\ Cardinality(At(h, "start", c)) = 1
          /\ Cardinality(At(h, "end", c)) = IF At(h, "end", c) = {} THEN 0 ELSE 1
          /\ Cardinality(At(h, "error", c)) = IF At(h, "error", c) = {} THEN 0 ELSE 1
      BY <3>1, <3>2, <3>3, Counted DEF Sorted, One
    <3>5. QED
      BY <3>1, <3>4 DEF Sorted, InOrder
  <2>2. QED
    BY <2>1 DEF ClosedOnce
<1>2. QED
  BY <1>1, Always, PTL

\* No answer is given to another conversation, or to a model that was bound to other
\* tools, for any number of copies bound at any time: the reply was given with every
\* tool the model was bound with, and with exactly the tools offered now if none was
\* registered since (README.md:94-96, caching_chat_model.cpp make_cache_key).
THEOREM AnswersTheRequest == Spec => []AnswersRequest
<1>1. OwnInv => AnswersRequest
  BY DEF OwnInv
<1>2. QED
  BY <1>1, Always, PTL

\* What the cache holds was said to the end and heard to the end: no call that
\* failed, in the model or in its consumer, leaves an entry
\* (caching_chat_model.cpp:52-54, 64-71).
THEOREM OnlyCompleteIsCached == Spec => []CachedIsComplete
<1>1. OwnInv => CachedIsComplete
  BY DEF OwnInv, EntriesComplete, CachedIsComplete
<1>2. QED
  BY <1>1, Always, PTL

\* What the consumer of a stream got adds up to the reply it is given, from the
\* model, in pieces or whole, and from the cache (caching_chat_model.cpp:57-72).
THEOREM StreamsAddUp == Spec => []DeltasAddUp
<1>1. OwnInv => DeltasAddUp
  BY DEF OwnInv
<1>2. QED
  BY <1>1, Always, PTL
=============================================================================
