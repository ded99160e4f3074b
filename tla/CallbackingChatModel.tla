------------------------- MODULE CallbackingChatModel -------------------------
(***************************************************************************)
(* callbacks::CallbackingChatModel (src/src/callbacks/                     *)
(* callbacking_chat_model.cpp) and the CallbackManager it reports to       *)
(* (src/src/core/callbacks.cpp), around any chat model, used by any        *)
(* consumer.  Calls are numbered; a text is the number of its pieces.      *)
(*                                                                         *)
(* Bounds: MaxCalls calls reach the inner model, and a reply has up to     *)
(* MaxPieces pieces.                                                       *)
(***************************************************************************)
EXTENDS Integers, Sequences, FiniteSets

CONSTANTS Handlers,         \* 1..n, in registration order
          ThrowingHandlers, \* those whose hooks throw
          MaxCalls, MaxPieces

ASSUME CallbacksAssumption ==
  /\ ThrowingHandlers \subseteq Handlers /\ Handlers \subseteq Nat
  /\ MaxCalls \in Nat /\ MaxPieces \in Nat

VARIABLES
  log,        \* history: the events each handler was given
  calls,      \* calls of the inner model so far; the last may be under way
  pc,         \* where the last one is
  style,      \* invoke, or how the inner model streams
  text,       \* pieces delivered of the reply under way
  chunk,      \* the chunk being handed to the consumer
  outcome     \* history: how each call ended

observed == << log, calls, pc, style, text, chunk, outcome >>

-----------------------------------------------------------------------------
Event(kind, call) == [kind |-> kind, call |-> call]
Chunk(delta, is_final) == [delta |-> delta, is_final |-> is_final]
NoChunk == Chunk(0, FALSE)

\* A plausible bug, for the mutation checks: the first handler that throws ends
\* the loop.
DispatchUntilThrow(kind, call) ==
  LET reached(h) == \A g \in ThrowingHandlers : h <= g
  IN  log' = [h \in Handlers |->
                IF reached(h) THEN Append(log[h], Event(kind, call)) ELSE log[h]]

\* Every handler is given the event; what one throws is swallowed.
Dispatch(kind, call) ==
  log' = [h \in Handlers |-> Append(log[h], Event(kind, call))]

End(how) ==
  /\ pc' = "returned"
  /\ outcome' = [outcome EXCEPT ![calls] = how]
  /\ chunk' = NoChunk

\* A plausible bug, for the mutation checks: the error is rethrown without being
\* reported.
FailSilently(how) ==
  /\ End(how)
  /\ UNCHANGED << log, calls, style, text >>

\* std::exceptions are reported and rethrown, other exceptions pass.
Fail(how) ==
  /\ End(how)
  /\ IF how = "std_exception" THEN Dispatch("error", calls) ELSE UNCHANGED log
  /\ UNCHANGED << calls, style, text >>

-----------------------------------------------------------------------------
CallbacksInit ==
  /\ log = [h \in Handlers |-> << >>]
  /\ calls = 0
  /\ pc = "idle"
  /\ style = "invoke"
  /\ text = 0
  /\ chunk = NoChunk
  /\ outcome = << >>

\* invoke() or stream() is called.  The inner model streams piece by piece, or
\* has the default stream(), which delivers invoke()'s reply in one chunk.
Start(how) ==
  /\ pc = "idle" /\ calls < MaxCalls
  /\ calls' = calls + 1
  /\ Dispatch("start", calls')
  /\ pc' = "inner"
  /\ style' = how
  /\ text' = 0
  /\ chunk' = NoChunk
  /\ outcome' = Append(outcome, "none")

\* The inner invoke() returns a reply.
Reply ==
  /\ pc = "inner" /\ style = "invoke"
  /\ \E n \in 0..MaxPieces : text' = n
  /\ Dispatch("end", calls)
  /\ End("returned")
  /\ UNCHANGED << calls, style >>

\* The inner model throws: before, between or after its chunks.
InnerThrows(how) == pc \in {"inner", "finished"} /\ Fail(how)

\* A piece of the reply goes to the handlers, then to the consumer ...
Piece ==
  /\ pc = "inner" /\ style = "pieces" /\ text < MaxPieces
  /\ chunk' = Chunk(1, FALSE)
  /\ text' = text + 1
  /\ Dispatch("token", calls)
  /\ pc' = "piece"
  /\ UNCHANGED << calls, style, outcome >>

\* ... and so does the final chunk, empty, or with the whole text.
Final ==
  /\ pc = "inner" /\ style # "invoke"
  /\ \/ style = "pieces" /\ chunk' = Chunk(0, TRUE) /\ text' = text
     \/ style = "whole" /\ \E n \in 0..MaxPieces : chunk' = Chunk(n, TRUE) /\ text' = n
  /\ Dispatch("end", calls)
  /\ pc' = "final"
  /\ UNCHANGED << calls, style, outcome >>

\* The consumer takes the chunk, or throws through the inner model.
Consumed ==
  /\ pc \in {"piece", "final"}
  /\ pc' = IF pc = "piece" THEN "inner" ELSE "finished"
  /\ chunk' = NoChunk
  /\ UNCHANGED << log, calls, style, text, outcome >>

ConsumerThrows(how) == pc \in {"piece", "final"} /\ Fail(how)

\* The inner stream() returns.
Return ==
  /\ pc = "finished"
  /\ End("returned")
  /\ UNCHANGED << log, calls, style, text >>

-----------------------------------------------------------------------------
Kinds == {"start", "token", "end", "error"}
Chunks == [delta : 0..MaxPieces, is_final : BOOLEAN]
Outcomes == {"none", "returned", "std_exception", "other_exception"}

CallbacksTypeOK ==
  /\ log \in [Handlers -> Seq([kind : Kinds, call : 1..MaxCalls])]
  /\ calls \in 0..MaxCalls
  /\ pc \in {"idle", "inner", "piece", "final", "finished", "returned"}
  /\ style \in {"invoke", "pieces", "whole"}
  /\ text \in 0..MaxPieces
  /\ chunk \in Chunks
  /\ outcome \in Seq(Outcomes) /\ Len(outcome) = calls

\* Where the events of a kind are that a handler was given of a call.
At(h, kind, call) == {i \in 1..Len(log[h]) : log[h][i] = Event(kind, call)}

\* One start, then the pieces, then an end, then an error.
InOrder(starts, tokens, ends, fails) ==
  /\ Cardinality(starts) = 1
  /\ \A i \in starts, j \in tokens \cup ends \cup fails : i < j
  /\ \A i \in tokens, j \in ends \cup fails : i < j
  /\ \A i \in ends, j \in fails : i < j

\* A start is closed by what became of the call: an end if it returned, an
\* error if a std::exception left it, nothing if something else did.  A call
\* whose consumer threw at the final chunk has been closed by an end before
\* (callbacking_chat_model.cpp:11-38).  Every handler is told so, whichever of
\* them throws (callbacks.hpp:63-66).
ClosedOnce ==
  \A h \in Handlers, c \in 1..calls :
    outcome[c] # "none" =>
      LET ends  == At(h, "end", c)
          fails == At(h, "error", c)
      IN  /\ InOrder(At(h, "start", c), At(h, "token", c), ends, fails)
          /\ Cardinality(ends) \in (IF outcome[c] = "returned" THEN {1} ELSE {0, 1})
          /\ Cardinality(fails) = (IF outcome[c] = "std_exception" THEN 1 ELSE 0)
=============================================================================
