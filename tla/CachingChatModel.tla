--------------------------- MODULE CachingChatModel ---------------------------
(***************************************************************************)
(* llm::CachingChatModel (src/src/llm/caching_chat_model.cpp) around a     *)
(* CallbackingChatModel: a plain model and the copies of it that           *)
(* bind_tools() makes, sharing one cache; the registry bound to the copies *)
(* goes on being shared with the application.                              *)
(*                                                                         *)
(* A tool list is its length: the registry only grows.  A copy is known by *)
(* its tools_signature_, the plain model by None.                          *)
(*                                                                         *)
(* Bound: MaxRequests requests; the registry grows up to MaxTools tools.   *)
(***************************************************************************)
EXTENDS CallbackingChatModel

CONSTANTS Conversations, MaxRequests, MaxTools, None

ASSUME CachingAssumption ==
  /\ Conversations # {}
  /\ MaxRequests \in Nat /\ MaxTools \in Nat
  /\ None \notin Nat

VARIABLES
  registry,   \* number of tools in the registry
  signatures, \* the tools_signature_ of each bound copy
  cache,      \* the entries: key -> reply
  last,       \* the last request made; it may be under way
  requests,   \* number of requests made
  consumed,   \* history: pieces of text the consumer of the request got
  delivered,  \* history: the reply the last request returned, or None
  asked       \* history: for each call of the inner model, the request it served

own == << registry, signatures, cache, last, requests, consumed, delivered, asked >>
vars == << observed, own >>

-----------------------------------------------------------------------------
Models == signatures \cup {None}

\* What the provider would be sent: the tools are rendered at the call.
Offered(model) == IF model = None THEN None ELSE registry

\* A plausible bug, for the mutation checks: the tools are not part of the key.
KeyWithoutTools(model, conversation) == [conversation |-> conversation, tools |-> None]

\* make_cache_key: what bind_tools() rendered stands for the tools.
Key(model, conversation) == [conversation |-> conversation, tools |-> model]

RequestOf(model, conversation, how) ==
  [model |-> model, conversation |-> conversation, how |-> how,
   key |-> Key(model, conversation), tools |-> Offered(model)]

Cached(key) == key \in DOMAIN cache
Put(key, reply) == cache' = [k \in DOMAIN cache \cup {key} |-> IF k = key THEN reply ELSE cache[k]]

\* A reply: the call that produced it, and its text.
LastReply == [call |-> calls, text |-> text]

-----------------------------------------------------------------------------
(* Ways this code could be wrong, for the mutation checks.                 *)

\* The reply is stored as soon as the final chunk is there.
ConsumedAndPut ==
  /\ Consumed
  /\ consumed' = consumed + chunk.delta
  /\ IF chunk.is_final THEN Put(last.key, LastReply) ELSE UNCHANGED cache
  /\ UNCHANGED << registry, signatures, last, requests, delivered, asked >>

\* Nothing is delivered to the stream callback on a hit.
HitInSilence(model, conversation, how) ==
  /\ pc = "idle" /\ requests < MaxRequests
  /\ Cached(Key(model, conversation))
  /\ requests' = requests + 1
  /\ last' = RequestOf(model, conversation, how)
  /\ consumed' = 0
  /\ delivered' = cache[Key(model, conversation)]
  /\ UNCHANGED << observed, registry, signatures, cache, asked >>

-----------------------------------------------------------------------------
Init ==
  /\ CallbacksInit
  /\ registry = 0
  /\ signatures = {}
  /\ cache = << >>
  /\ last = RequestOf(None, CHOOSE c \in Conversations : TRUE, "invoke")
  /\ requests = 0
  /\ consumed = 0
  /\ delivered = None
  /\ asked = << >>

\* The application registers a tool, between requests.
AddTool ==
  /\ pc = "idle" /\ registry < MaxTools
  /\ registry' = registry + 1
  /\ UNCHANGED << observed, signatures, cache, last, requests, consumed, delivered, asked >>

BindTools ==
  /\ pc = "idle"
  /\ signatures' = signatures \cup {registry}
  /\ UNCHANGED << observed, registry, cache, last, requests, consumed, delivered, asked >>

\* A hit: the entry is returned, or streamed as a single final chunk.
Hit(model, conversation, how) ==
  /\ pc = "idle" /\ requests < MaxRequests
  /\ Cached(Key(model, conversation))
  /\ requests' = requests + 1
  /\ last' = RequestOf(model, conversation, how)
  /\ consumed' = IF how = "stream" THEN cache[Key(model, conversation)].text ELSE 0
  /\ delivered' = cache[Key(model, conversation)]
  /\ UNCHANGED << observed, registry, signatures, cache, asked >>

\* A miss goes on to the inner model, with the key made before.
Miss(model, conversation, how, inner) ==
  /\ requests < MaxRequests
  /\ ~Cached(Key(model, conversation))
  /\ how = "invoke" <=> inner = "invoke"
  /\ Start(inner)
  /\ requests' = requests + 1
  /\ last' = RequestOf(model, conversation, how)
  /\ asked' = Append(asked, RequestOf(model, conversation, how))
  /\ consumed' = 0
  /\ delivered' = None
  /\ UNCHANGED << registry, signatures, cache >>

\* The inner model at work, and the chunks on their way to the consumer.
InnerStep ==
  /\ Reply \/ Piece \/ Final \/ Return
     \/ \E how \in {"std_exception", "other_exception"} : InnerThrows(how) \/ ConsumerThrows(how)
  /\ UNCHANGED own

Consume ==
  /\ Consumed
  /\ consumed' = consumed + chunk.delta
  /\ UNCHANGED << registry, signatures, cache, last, requests, delivered, asked >>

\* The inner call is over: its reply is stored and returned, or its exception
\* passes through.
Store ==
  /\ pc = "returned"
  /\ pc' = "idle"
  /\ IF outcome[calls] = "returned"
     THEN Put(last.key, LastReply) /\ delivered' = LastReply
     ELSE UNCHANGED cache /\ delivered' = None
  /\ UNCHANGED << log, calls, style, text, chunk, outcome, registry, signatures, last, requests, consumed, asked >>

Requests ==
  \E model \in Models, conversation \in Conversations, how \in {"invoke", "stream"} :
    \/ Hit(model, conversation, how)
    \/ \E inner \in {"invoke", "pieces", "whole"} : Miss(model, conversation, how, inner)

\* The application may stop between requests.
Terminated == pc = "idle" /\ UNCHANGED vars

Next == AddTool \/ BindTools \/ Requests \/ InnerStep \/ Consume \/ Store \/ Terminated

Spec == Init /\ [][Next]_vars

-----------------------------------------------------------------------------
Tools == 0..MaxTools \cup {None}
Keys == [conversation : Conversations, tools : Tools]
RequestType == [model : Tools, conversation : Conversations, how : {"invoke", "stream"},
                key : Keys, tools : Tools]
ReplyType == [call : 1..MaxCalls, text : 0..MaxPieces]

TypeOK ==
  /\ CallbacksTypeOK
  /\ registry \in 0..MaxTools
  /\ signatures \subseteq 0..registry
  /\ DOMAIN cache \subseteq Keys /\ \A key \in DOMAIN cache : cache[key] \in ReplyType
  /\ last \in RequestType
  /\ requests \in 0..MaxRequests
  /\ consumed \in 0..MaxPieces
  /\ delivered \in ReplyType \cup {None}
  /\ asked \in Seq(RequestType) /\ Len(asked) = calls

\* A request is answered with a reply to the same conversation, from a model bound
\* to the same tools: the reply was given with every tool this model was bound
\* with, and with none that is not offered now.  If no tool was registered since
\* bind_tools() it was given with exactly the tools offered now, which README.md:94-96
\* and caching_chat_model.hpp:11-15 promise of every request.  The code does not keep
\* that promise: a tool registered later is offered, but not in the key
\* (caching_chat_model.cpp:75), and a reply given without it is served.
AnswersRequest ==
  pc = "idle" /\ delivered # None =>
    LET served == asked[delivered.call]
    IN  /\ served.conversation = last.conversation /\ served.model = last.model
        /\ IF last.model \in {None, last.tools} THEN served.tools = last.tools
           ELSE served.tools \in last.model..last.tools

\* What is in the cache was said to the end, and heard to the end: a stream that
\* failed, in the model, in the consumer, or after its last chunk, leaves no
\* entry (caching_chat_model.cpp:52-54, 64-71).
CachedIsComplete ==
  \A key \in DOMAIN cache :
    /\ outcome[cache[key].call] = "returned"
    /\ asked[cache[key].call].key = key

\* The deltas of a stream add up to the reply, from the inner model and from the
\* cache (caching_chat_model.cpp:57-72, chat_model.hpp:46-55).  They would not,
\* if the final delta were empty for every model, as chat_model.hpp:16-18 has it.
DeltasAddUp ==
  pc = "idle" /\ last.how = "stream" /\ delivered # None => consumed = delivered.text
=============================================================================
