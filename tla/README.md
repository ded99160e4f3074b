# langchain-cpp in TLA+

TLA+ models of the control logic of langchain-cpp, the TLC runs that check them
on small instances, and TLAPS proofs about them. Paths are relative to `src/`.

## 1. Inventory

langchain-cpp is a C++17 library: chat models behind one interface, decorators
that wrap a chat model, an agent loop over tools, a Model Context Protocol (MCP)
client and server, and a retrieval toolbox. It starts no threads of its own except
the MCP HTTP server's and `Runnable::ainvoke`'s; what is hard about it is shared
objects (`shared_ptr` to limiters, caches, registries, histories), child
processes and pipes, sockets, files, and exceptions that leave a sequence of
steps half done.

| Component | State | Operations | Interacts with | What is hard | What makes it correct |
|---|---|---|---|---|---|
| RateLimiter, RateLimitedChatModel (`src/llm/rate_limiter.cpp`, `rate_limited_chat_model.cpp`) | tokens, last refill, mutex | `acquire` | threads of the application, shared by several models | lock released during the sleep, clock read before use | the quota holds over every stretch of time; every caller is served |
| AgentExecutor, ToolRegistry, FunctionTool (`src/agents`, `src/tools`) | conversation, step; registered tools | `run`; `add`, `get`, rendering | tool-bound model, tools | tools that fail, unknown tools, tools registered during a run | each call answered once and in order; bounded model calls |
| Callbacks (`src/core/callbacks.cpp`, `src/callbacks`) | handlers | `on_*` dispatch, wrapping a model or a tool | handlers, wrapped object | exceptions from the wrapped object, the chunk callback, a handler | every start is closed once; a handler cannot disturb what it observes |
| Chat model stream contract (`include/langchain/llm/chat_model.hpp`, MockChat) | none | `stream` | consumers of chunks | two producers of the final chunk | the deltas add up to the message |
| CachingChatModel (`src/llm/caching_chat_model.cpp`) | shared cache, tools signature | `invoke`, `stream`, `bind_tools` | inner model, registry | registry changes after bind_tools; failed stream | a hit is what the inner model would be asked |
| ChatModelWithHistory, histories (`src/llm/*history*.cpp`) | message list, file | `add_message`, `clear`, `messages`, `invoke` | model, file system | failure between two adds, crash in the middle of a save | nothing acknowledged is lost, the file stays loadable |
| OpenAI/Azure streaming (`src/providers/openai`, `azure`) | parser buffer, partial tool calls | `stream`, `feed`, `finish` | HTTP client library, consumer of chunks | chunk boundaries, connection lost midway | result independent of chunking |
| Wire formats of OpenAI, Anthropic, Gemini (`src/providers`) | none; Gemini: a table from call ids to names, per request | requests made and replies read | AgentExecutor's conversations | Gemini has no ids: they are synthesised, and come again | a reply survives being sent back; a result goes to its call |
| MCP stdio transport (`src/mcp/stdio_transport.cpp`) | child pid, two pipe ends, read buffer | constructor, destructor, `write_line`, `read_line` | the kernel, the child | descriptors inherited by other children, SIGPIPE, slow children | end of file reaches the child; no call blocks for ever, unless both pipes are full |
| MCP stdio client, McpClient, JSON-RPC (`src/mcp/stdio_client_transport.cpp`, `mcp_client.cpp`, `jsonrpc.cpp`) | next id | `initialize`, `list_tools`, `call_tool` | transport | late and foreign messages, exits | an answer belongs to its request |
| McpServer (`src/mcp/mcp_server.cpp`) | tools | `handle_message`, `serve` | streams, tools | bad input, failing tools | every request answered once |
| MCP HTTP client and server (`src/mcp/http_client_transport.cpp`, `mcp_http_server.cpp`) | session id; listening socket, stop flag | request/response; accept loop | sockets | lost connection, slow peer, stop while serving | no success without a response; stop ends |
| Vector stores (`src/rag/vectorstores`) | vectors, index or remote collection | `add_documents`, `similarity_search` | embeddings, remote server | one step of several failing, two writers | an entry is found with its own document |
| Text splitter (`src/rag/splitters`) | none | `split_text`, `split_documents` | loaders | recursion over separators, overlap | nothing lost, each chunk with its document's metadata |
| Document loaders (`src/rag/loaders`) | none | `load`, `html_to_text`, `parse_csv` | files, pages, poppler | quoting, boundaries, order of the passes, unreadable pages | cells under their own names; what a reader sees |
| JSON in replies (`src/parsers/json_parser.cpp`, event streams in `src/mcp/http_client_transport.cpp`) | none | `extract_json`, `extract_last_sse_event_data` | model replies, MCP servers | prose, fences, line ends, several events | the value that was sent is found |
| Runnable combinators (`include/langchain/core/runnable.hpp`) | the steps of a chain | `invoke`, `batch`, `ainvoke`, `operator\|` | every other component; threads of `std::async` | calls at once on shared steps, exceptions, a raw `this` in a thread | each call answers its own input; the chain outlives its calls (left to the application, not checked) |
| OutputFixingParser (`include/langchain/parsers`) | none; per call the current reply and the attempt | `invoke` | a parser, a model that may be cached | retry loop over kept replies | bounded retries of the last reply |
| Prompts, example selectors (`src/prompts`, `src/core/similarity.cpp`) | templates; examples and their vectors | `format`, `select_examples` | embeddings | braces, ties, fewer examples than asked for | filled once and nowhere else; the nearest ones |
| Embeddings (`src/rag/embeddings`) | configuration | `embed_documents`, `embed_query` | servers, vector stores, selectors | entries out of order | each text its own vector |
| dotenv, keys and presets (`src/core/dotenv.cpp`, constructors in `src/providers`, `src/rag/embeddings`) | environment | `load_dotenv`, `resolve*` | files, the environment | quotes, variables already set or empty | the key that was written reaches its provider and no other |
| Images of messages (`src/core/message.cpp`) | none | `from_file`, `from_url`, rendering | files, providers | the end of base64, providers without images | the bytes arrive, or the call throws |
| Retriever, MockChat, MockEmbeddings, document formatting, headers that only declare | none or test doubles | | | | |

## 2. Plan

Done, in this order (the most shared and most concurrent parts first):

1. `RateLimiter` with its abstract promise `RequestQuota`; proofs.
2. `AgentExecutor` (with the tools) and `ToolConversation`; proofs.
3. `StdioTransport`: processes, inherited descriptors, shutdown; proofs. Then the
   MCP session on top of it: `McpServer` (with any client: `McpServerStandalone`),
   `McpSession` (client and server) and the abstract `RemoteCalls`.
4. Stream decorators: `CallbackingChatModel`, `CachingChatModel`.
5. `ChatHistory`: histories with restarts and failures.
6. `McpHttpServer` and `McpHttpSession`: the accept loop, its thread, the destructor,
   and one client over HTTP among strangers; `RemoteCalls` again.
7. `DocumentIndex` and `VectorStores`: the four stores, two of them shared between
   objects and processes; proof of the refinement.

8. `ChatStream`: the stream of OpenAI and Azure over every cutting of small bodies.
   `ProviderFormats`: AgentExecutor's conversations as the providers are sent them.
9. `TextSplitter`, `CsvLoader`, `HtmlToText`, `JsonReplies` (on `Texts`): functions
   against what their results must satisfy, over all short inputs.

10. `Chain`: the combinators, with OutputFixingParser and the cache under it; proof of
    `AnswersOwnInput`.
11. `Settings`, `Prompts`, `Embeddings`, `Images`, `HttpReplies`, `Loaders`: functions
    as in 9, over inputs made by `MCInputs`.

12. Proofs: `Settled` of `Chain`, the effects of
    `AgentExecutor`, both stream decorators, `RemoteCalls` as implemented by `McpSession`,
    `ChatHistory`, `ThrowsForCause` and the types of the vector stores.
13. Proofs: `StatusTellsEffect` and `RemoteCalls` over HTTP, and `AnsweredOnceInOrder` of a
    server with any client.

Left:

14. `ChatStream` under the caching model, for what becomes of a body that is cut off;
    `CallbackingTool` in `AgentExecutor`'s run.

Runs are kept to one per question. What was seen of the code on the way and has no
run of its own is said with its module.

## 3. Modules

In each module the VARIABLES are the fields and locals of the code (plus history
variables, marked so), and an action is one operation, or one step of it where
another actor may come in between. A section "Ways this code could be wrong"
holds mutated actions or operators used only to confirm that each property can
fail; no specification uses them.

### RateLimiter, RequestQuota
`available_tokens`, `last_refill` and `mutex` are the fields of `RateLimiter`; a token is
`Unit` parts, so that `Rate` parts per clock tick expresses any rational rate.
`acquire()` is cut where other threads can come in: `Call`, `Lock`, `ReadClock`
(the clock may go on between the reading and its use; at most `MaxLag` ticks pass
while some thread could run), `Refill`, then `Take` (and return) or `Backoff` (unlock, sleep `SleepTicks`),
`Wake` (the sleep is over, the lock is asked for again). `grants` records, for
each return, the reading it was decided on and the time of the return.
`RequestQuota` is the promise: a grant is possible when the quota since every
earlier grant allows it. The run `limiter` checks, for two threads with three
calls each and a bucket of 4/3 tokens:

- `QuotaSpec`: over every stretch of consecutive grants the bucket plus the refills
  between them pays for them (`WindowQuota` says the same as an invariant, for the proof);
- `ReturnQuota`: the same at the times callers see, up to one request;
- `EveryCallerServed`, under weak fairness of time and of each thread's steps.
  `std::mutex` promises no fair hand-over, so the lock gets no more than that: what
  the run shows is that callers are served once the others' calls are used up
  (nobody deadlocks, and no sleep is so short that it is repeated for ever), not
  that a thread cannot be overtaken.

Bounds: a bucket that is no whole number of tokens makes fractions survive and
sleeps that end early; three calls empty it and wait on it from both threads.

### AgentExecutor, ToolConversation
One `run()`, with the registry it shares with its bound model. `messages`, `step`,
the call being answered and the registry are the state; `Send`,
`InvokeAnswers`/`InvokeAsks`/`InvokeThrows`, then for each call `UnknownTool`, or
`EnterTool` and `ToolReturns`/`ToolThrows`, then `GiveUp` after `max_steps`. `Add`
registers a tool, before the run or from a tool's body. The run `agent`
covers two rounds of up to two calls. `ToolConversation` is what providers demand:
each request continues the previous one by one well-formed round (the asking
message, then one result per call, in order). `AnswerSawEffects`: an
answer was given in view of every effect, and a run that gave up leaves exactly its
last round unseen. `EffectsReported` relates the tools that ran to the conversation,
also when the run ends in an exception. `Effects` are the places of the results of tools
that ran, so that both properties can be proved, and both are.

### StdioTransport
The kernel's view: which process holds which end of which pipe. `Fork` gives the
child everything the parent holds; `CloseChildEnds`, `Close`, `Finish` take ends
away; end of file and broken pipes follow from `Open`. The destructor is `Close`,
`Poll` up to `Polls` times, `Kill`, `Reap`. The run `stdio` has a well-behaved
child and one that may ignore end of file, used from one thread:
`ChildReaped`, `CallersReleased` (weak fairness of every
step a thread is in the middle of, and of well-behaved children: the code's grace
period rests on that), and `KilledForCause`: a well-behaved child is killed only
while a transport constructed after it is not destroyed. The finding `stdio_exit`
shows what that condition is for: without it a well-behaved child is killed, because
descriptors are inherited. `Polls` is 2 instead of 25 and a pipe holds one line: both limits
are reached. Lines are counted; how `read_line` cuts the bytes is not modelled. The
theorem covers any number of threads, the runs use one.

A write to a child that is gone is `Sigpipe`: the default action of the signal ends
the process, where `stdio_transport.hpp:28` promises an exception. The properties
accept it as the end of everything the client does.

### McpServer, McpServerStandalone, McpSession, RemoteCalls
`McpServer` holds `serve` and `handle_message` between two bounded pipes: lines of
every kind (`Ignore`, `Malformed`, `Answer`, `CallTool`), every way a tool ends
(`ToolEnds`, `ToolThrowsOther`), tools that print to the standard output the
protocol uses (whole lines only), `Write` with a `dump()` that may throw.
`McpServerStandalone` adds a client that sends anything (run `mcp_server`):
`AnsweredOnceInOrder`. `McpSession` (run `mcp_session`) adds the real client instead: `Call`,
`DumpThrows` or `Dumped` (from then on the call is in `write(2)`, where it can only wait),
`WriteRequest`, the skipping of other lines, each way a call ends, and a server
that may die at any step; `InSync`, `CallEnds` and the refinement of
`RemoteCalls`: calls are carried out in order and at most once, and a call that
returns returns its own result. The result of a call in `RemoteCalls` is what
`handled` says of it, and an unprintable one is a failure. `CallEnds` has one exception, `Stuck`, and the code does
get there: two calls throw on lines a tool printed (an id that is no number) while their
requests are still on their way, a third line fills the pipe to the client, so the server
waits to write, and the third call waits to write its request into the other full pipe.
`write_line()` has no timeout (`stdio_transport.cpp:101-114`), so only the death of the server
ends that. `CallEnds` shows that nothing else keeps a call, and that one which does not follow
a call that threw always ends. Fairness: the client's thread in a call, and the server, whose
tools return, except that one that prints into a full pipe is held up (`MayBlock`). Capacity
1 makes both pipes full at once; three ids let two calls fail before the one that is checked,
and three printed lines (`MaxPrints`) are what `Stuck` takes. A request
whose method is no string ends `serve` (`Malformed`), although the comment at
`mcp_server.cpp:55` says that malformed input is ignored; `AnsweredOnceInOrder` allows
for it. It counts the responses in the pipe (`Responses`, `UpTo`) and does not filter the
pipe, so that it can be proved. `InSync` and the refinement are also proved, for pipes of any
capacity and any number of calls, and `AnsweredOnceInOrder` for any client.

### McpHttpServer, McpHttpSession
A post is one connection with the one request it carries. The kernel's side is
`Connect`, the backlog and what has arrived; `run()` is `CheckStop`, `Accept` or
`PollTimesOut`, then `Received`/`RecvThrows`, `Refuse` or `Handle`, `ToolEnds`,
`Send` (whole, or `SendRest` after a part), `CloseConnection`; the destructor is `Stop`
and `Destroyed`, which waits for the thread. An exception that leaves the thread, and
SIGPIPE in the middle of a response, end the process (`Abort`). `McpHttpSession` adds the
client (`PostRequest`, `RequestAnswered`, `ConnectionLost`, the notification of
`initialize`) and strangers that send any message or leave half-way. The run `http`:

- `StatusTellsEffect`: a response that says the message was refused was not carried
  out, one that says it was accepted was;
- `RemoteCallsSpec`: over HTTP too, calls are carried out at most once, in order as
  far as their callers know, and a call that returns returns its own result;
- `CallEnds`, `DestructorReturns`, under weak fairness of the server's thread and its
  tools, of the destructor, of a client in a call, and of `Arrives`: what is sent arrives,
  and who does not send leaves. The code has no timeout on `recv()`, so without
  that a silent client holds the thread and the destructor for ever: a hazard of
  the code, not something the run excludes by accident.

`StatusTellsEffect` and the refinement are also proved, for any number of calls and strangers.

Bounds: two calls and one stranger with one of six messages, and two connections in the backlog
(`Backlog`, 8 in the code), so that a client meets a full one: its `connect` waits for `Room`, or
fails. Sessions (`Mcp-Session-Id`) and event streams, which other servers use, are in `HttpReplies`.

### CallbackingChatModel, CachingChatModel
`CallbackingChatModel` is `CallbackManager` and the wrapper around any inner model:
`Start`, then `Reply` (invoke), or `Piece`* and `Final` with the consumer's turn
after each (`Consumed`, `ConsumerThrows`), an exception at any point
(`InnerThrows`), `Return`. `style` tells a model that streams in pieces from one
that uses the default `stream()`. `CachingChatModel` EXTENDS it: the caching model
is the consumer, with `Hit`, `Miss`, `Store`, `BindTools` (any number of copies, each known by
its `tools_signature_`), and `AddTool` by the application. The run `cached` (three requests, two calls of the inner model, two
conversations, one of two handlers throws) checks

- `ClosedOnce`: every handler sees each start closed once by what became of the
  call (a consumer that throws at the final chunk makes an end and then an error;
  what is no `std::exception` closes nothing: that is what the code does);
- `CachedIsComplete`, `AnswersRequest`, `DeltasAddUp`.

All four are also proved, for any handlers, conversations, tools, requests and replies of any
number of pieces. `At(h, kind, call)` are the places in a handler's log that hold such an
event: `ClosedOnce` speaks of them and not of a filtered log, so that it can be.

Replies of up to one piece are enough to tell an empty reply from another and a
text counted twice from one counted once. `AnswersRequest`: a request is answered with a reply to the same
conversation, from a model bound to the same tools, and if no tool was registered since
`bind_tools()` that reply was given with exactly the tools offered now. That is less than
`README.md:94` promises ("The cache key includes which tools are bound", as does
`caching_chat_model.hpp:11-15`), and the code does not keep the rest: `bind_tools()` renders
the registry once for the key (`caching_chat_model.cpp:75`) while the inner model renders it at
each call, so a tool registered later is offered but is not in the key, and a reply given
without it is served. The default `stream()`
(`chat_model.hpp:54`) and a cache hit put the whole text in the final chunk's delta,
which `chat_model.hpp:16-18` describes as empty; `DeltasAddUp` is stated so that both count.

### ChatHistory
`ChatModelWithHistory::invoke` over a `FileChatMessageHistory`: `Invoke`,
`ModelReplies` or `ModelThrows`, then for each message `Push`, `Open` (which
truncates), `Write`; the exceptions of each; `Exit` between turns, `Crash`
anywhere, `Load`, and `LoadUnread`, the other use of the early return of `load()`
(`file_chat_message_history.cpp:78-81`): a file that exists but cannot be opened is taken
for one that does not, the conversation starts empty, and the next save overwrites what
was kept, although `file_chat_message_history.hpp:10-12` says that existing content is
loaded "if the file exists". A turn of two messages makes three saves, and two faults break
two of them, in three turns. `kept` are the turns that returned, without those such a
process forgot when it saved (`unread`, `Known`). `KeptOnDisk`: a
file that can be loaded holds them all, and it cannot be loaded only during a save or
after one that was cut short; `ModelRemembers`: the model is given all of them that
its process can know; `WellOrdered`: no reply without its question, nothing twice. What is
kept of a turn that failed half-way is stated, not forbidden: the code keeps it. A log
`Remembers` turns if it is in order and every message of theirs is in it; the three
invariants are proved for any number of turns, messages of a turn and faults.

### DocumentIndex, VectorStores
One object of each local class, two `QdrantVectorStore`s and a `PgVectorStore`. A call is
`Start`, `Embed` (or `EmbedThrows`), then for the local stores one step (`AddInMemory`,
`AddFaiss`, `SearchLocal`), for the others `Check`, `Create`, `Upsert` or `SearchServer`
at the server, and `Receive`; `CheckFails`, `CreateFails`, `RequestFails` are the ways
the network fails, `UpsertLate` a request that is carried out after its call threw,
`Drop` an administrator who deletes the collection, `RenderThrows` a text that cannot be dumped. A second object of a class is also
what a restarted process is. A vector is its text and its size, so that a document
paired with another one's vector is seen; rows carry the call that made them, so that
one inserted twice is seen. Servers take a batch whole or refuse it.

`DocumentIndex` is the promise: a batch enters the index whole and once, before its
call returns, and a search answers from the index of one moment. The run `stores` checks it as
`IndexSpec`, and `ThrowsForCause`: the only calls that throw are those whose embeddings,
network, sizes, connection or collection failed, and a loser of the race to
create a collection; a search or an insertion at a table that was deleted is refused by
the server (`exec_checked`, `pgvector_store.cpp:26-36`), and a text that is not UTF-8 makes
`dump()` throw before anything is sent (`RenderThrows`). `collection_exists()` takes every
answer but 200, also a lost
connection, for absence (`qdrant_vector_store.cpp:34`), so a search of a full collection
may answer {}, which line 86 explains as "nothing has ever been added to this
collection". The abstract specification has an action of its own for it: a store in
`Lenient` may find nothing in an index that is not empty (`SearchBlind`), but only in a step that
counts a failure. Any other search that misses what is there is refused. Bounds: three calls, one
failure, one deletion, batches of none or two documents; two objects of one class
are interchangeable (symmetry; no liveness is checked). k is 1 and scores are equal
or not: rankings among unequal documents are left to the servers.

### ProviderFormats
What `invoke()` of `OpenAIChat` (`AzureOpenAIChat` is the same), `AnthropicChat` and
`GeminiChat` makes of a conversation, and what it reads of a reply. `MCAgentExecutor`
applies it to every conversation the run `agent` reaches: `ProvidersUnderstand` says that
a reply sent back is the reply that was read, and that in each request every call is
followed by its results, found by id or, for Gemini, by name. Two rounds are needed to
have Gemini's `call_0` twice. Contents are abstract: only whether a text is empty is told apart.

### ChatStream
`OpenAIChat::stream`, `AzureOpenAIChat::stream` and the `OpenAiStreamParser` they feed,
between a server that streams a reply (text in pieces; calls whole, or in fragments; lines
that say nothing; "\r\n"; with or without "[DONE]"), a network that cuts the bytes
anywhere (`Receive`) or loses the connection (`Lose`), and a consumer that may throw.
`FeedLine` is one turn of the loop in `feed()` with `process_line()`. `StreamedReply`: the
consumer gets the text from its beginning, each piece once, and the message that is
returned is the reply, unless the connection was lost. In that case the code returns
what it has (only the status is looked at, `openai_chat.cpp:103`); the property states
how much: a beginning of the text, calls with their arguments whole or empty. Bounds: up
to three bytes wait when a line is sent, so that up to two lines are in flight (a byte is
a field name, a payload or a line end), one line of noise; three replies, of which one
has its arguments in two fragments and one has two calls.

### Chain
One chain with every combinator of `runnable.hpp` in it: a `RunnableParallel` of a
retriever and a `RunnablePassthrough`, a `ChatPromptTemplate`, a `RunnableBranch` of two chat
models, and an `OutputFixingParser` with the small one. `calls` are the locals of the
calls of `invoke()`; `app` is the application, which invokes the chain call by call, in a
`batch()`, or with `ainvoke()` any number at once, and gets the futures or drops them. A
call is `RunBranch` in any order (or `BranchThrows`), `AskBranch`, `ModelReplies` or
`ModelThrows`, then `Return`, `GiveUp` or `AskAgain`. With `cached` the models sit in
`CachingChatModel`s that share one cache; not with `ainvoke()`, since the cache has no lock.
The run `chain` (two calls, two inputs of which one is routed to each model, two replies
that parse and two that do not, two retries):

- `AnswersOwnInput`: each reply answers the prompt of its own call, each retry the reply
  before it, a call returns the last reply and gives up only after `max_retries` retries;
  results are in the order of the inputs, and a batch stops at its first exception.
  Also proved, for any inputs, replies and retries;
- `Settled`: behind a cache the first call that gets through settles its input, also if no
  reply parsed: a later call, and a retry of a reply seen before, is answered from the
  cache and fails in the same way. Nothing in the code removes an entry.

`ainvoke()` gives its thread a raw `this`. The application of the model drops its futures
before the chain (`Destroy`), as scopes do, and the future of `std::async` waits in its
destructor. `(a | b)->ainvoke(x)` on a temporary chain, whose future is kept, would leave a call
without its chain; nothing in the library does that, nothing prevents it, and no property
covers it.

Two replies that do not parse are needed for a retry that asks something new and one that
asks the same again; two retries show both in one call.

### Texts, TextSplitter, CsvLoader, HtmlToText, Loaders, JsonReplies, HttpReplies, Settings, Prompts, Embeddings, Images
Pure functions. `MCReaders` grows a text part by part (`MCInputs` holds the properties of the
second half) and checks, in the run `readers`, every one up to the length that shows each boundary:

- `ChunksMakeUpText` (up to 7 characters, 4 configurations): the chunks hold every
  character that is no separator, in order, twice only in an overlap; without overlap the
  chunks of a text that has no separators at its ends or in a row are parts of the text
  within `chunk_size`. That condition is needed: `split()` merges pieces it has split again with
  the outer separator, whose length counts (line 88), and does not check a piece that follows
  an overlap, so that "/bcd" with a `chunk_size` of 3 gives a chunk of six characters, three of
  them separators that are not in the text, although
  `recursive_character_text_splitter.hpp:11` says "no larger than chunk_size". The same of the pages of a
  PDF and of a markdown file, with the metadata `split_documents` gives every chunk; a page that
  cannot be read leaves the numbers of the others alone.
- `TableSurvives` (up to 6): reading what was written in quotes gives the same table, and each
  cell is in the metadata of its row under its column.
- `PageReadable` (up to 5 words): what is visible is in the text, in order; scripts and styles
  are not; words with a space or a tag between them stay apart. Not so if the tag opens
  a block: `a<p>b` gives "ab", although the comment at `html_to_text.cpp:94` wants
  words of adjacent elements apart (the one at line 74 explains why an opening tag adds nothing).
  Entities are decoded one after the other, so that `&amp;lt;` becomes `<`.
- `JsonFound` (up to 5): the JSON object in prose without braces, or in a fence, is what
  is handed to the parser, unless two fences with a newline between them are part of it.
- `ResponseRead` (up to 3 interim lines or events, both line ends, an object in one line or two,
  cut at every place): the answer over HTTP is returned whole, or the call throws. An event
  stream that was cut off between an event of progress and the answer is the one exception: its caller
  gets `{}` as the result (`http_client_transport.cpp:90`).
- `KeyFromFile` (keys of up to 4 characters, quotes, white space and comments among them; ten classes): a key written
  in a `.env` file reaches the classes that look for its variable, and no other; a variable that
  is set already, or a key in the configuration, comes first. Nothing is said of
  a preset whose variable is set to the empty text: the code takes `OPENAI_API_KEY` then
  (`openai_compatible_presets.cpp:18`), which the comment at lines 10-13 means to prevent.
- `PromptFilled` (templates of up to 6 parts): placeholders are filled once, values are not read as
  templates, all else stays; also through few-shot and chat prompts.
- `SelectsNearest` (up to 3 vectors of six kinds, every order of the entries): each text gets its own
  vector, and the nearest ones are selected. Vectors are integers and similarities compared as
  exact fractions; rounding is left out.
- `ImageIntact` (up to 4 bytes): the bytes of a file are in the request, bit by bit; a provider that
  cannot send images throws. Two exceptions: Anthropic drops those of a system message
  (`anthropic_chat.cpp:43`), although `message.hpp:37-38` says it throws "rather than silently drop an
  attached image", and OpenAI those of a tool result (`openai_wire_format.cpp:29`).

RECURSIVE operators are used here, so nothing about these modules is proved.

## 4. Proofs

| Module | Theorems | Argument |
|---|---|---|
| `RateLimiterProofs` | `TypeCorrect`, `QuotaKept`, `ReturnQuotaKept`, `DecisionsSerialised`, `ImplementsQuota` | `BucketPays`: for every grant i, what is in the bucket plus the cost of the grants since i is at most a full bucket plus the refills since i. It is inductive only with the order of the clock readings (`ClockOrder`, `ReadingAfterReturns`), which holds because the mutex is held from `ReadClock` to `Take` (`MutexHeld`). |
| `AgentExecutorProofs` | `TypeCorrect`, `ImplementsConversation`, `ReportsEffects`, `AnswersSeeEffects` | `InRound`, `BetweenRounds`: the request last sent is a prefix of the conversation, followed by one reply and the results of the calls before `next`, in order. Then each `Send` is a step of `ToolConversation` and every other action stutters. For the effects, `EInv`: the results in the conversation are as many as the tools that ran, but for one that is at work or threw (`Told`), and the n-th of them is that of the n-th tool that ran (`InOrder`). |
| `McpTransportProofs`, over HTTP | `TypeCorrect`, `StatusIsTrue`, `ImplementsRemoteCalls` | A connection is followed from the backlog to the end of its round. `Queue`: it is in the backlog once, then served alone. `Told`: until its turn has come, and while the round is early, nothing was done for it (`Undecided`); from then on the response about to be sent, or sent, says what was done; so a second effect (`Once`) is impossible. `InOrder`: requests that calls left behind are in the backlog, before the server and in what was done in the order of their calls, whoever stands between them; so `Handle` and `ToolEnds` of a request are steps of `RemoteCalls` for a call that was made and that no later one has overtaken, whether or not it has thrown meanwhile. A caller that is told 200 with a result has one (`AnswerTells`). |
| `McpTransportProofs`, over pipes | `StdioTypeCorrect`, `KilledOnlyForCause` | The parent's end of a pipe is held by the parent until `Close`, or by a child forked while the transport had pipes (`InParent`, `Inherited`), and a child that has ended holds nothing (`Lives`); so a prompt child that has not seen end of file at `Kill` points to a younger transport that is not destroyed. |
| `VectorStoresProofs` | `TypeCorrect`, `ImplementsIndex`, `ThrowsOnlyForCause` | `Together`: wherever a document goes, in a call, a late request, a table or the two sequences of a local store, the vector made from its text goes to the same place; so what ranks first is a document the index allows. `Once`: a batch on its way is in one call in progress or late, never both, and no two late batches come from one call; so forgetting one of them cannot stand for forgetting another. `NoneNoRows`: where there is no table there is nothing to find. Then each action is one step of `DocumentIndex` or none (`Simulates`), and at most one failure (`FaultsCounted`). `ThrowsOnlyForCause` needs what a call knows (`Aware`): one that is about to create a collection saw none, so if there is one, it was made since the call began; one that makes its request saw the collection, so if there is none, it was deleted. `made`, the count of creations, only grows. |
| `ChainProofs` | `TypeCorrect`, `AnswersItsInput`, `CacheSettles` | `Right` says of each call alone what its locals hold at each point: every key asked follows from its input and the replies before it, those replies did not parse, and `attempt` counts them. A step changes one call, which has not ended, so what is `Collected` stays; `BatchStops` because a batch starts a call only when those before it are collected. For the cache, `CInv`: calls are made one by one, every reply of a call is in the cache under the key it answered (`Kept`), nothing removes an entry, so a later call of the same input goes the same way, reply by reply, and none of its replies is fresh (`SameWay`). |
| `CachingChatModelProofs` | `TypeCorrect`, `CallsAreClosed`, `AnswersTheRequest`, `OnlyCompleteIsCached`, `StreamsAddUp` | `LInv`: the events a handler has of a call are in order and go exactly as far as the call has got (`AsFarAs`), only the last call is under way (`OneUnderWay`), and nobody has heard of a later one (`NoFuture`), so a new start is the first. `OwnInv`: a key gives the conversation and the model away, and the tools offered lie between those bound and those registered (`Tells`), the inner call that is under way serves the request last made (`Serves`), an entry is a reply that was returned and consumed (`EntriesComplete`), and the text delivered so far is what the pieces so far make (`DeltasSoFar`). |
| `McpSessionProofs`, the server alone | `AloneTypeCorrect`, `RequestsAnswered` | The request at work, or the response about to be written, is that of the last request read (`Handling`), which `AnsweredOnceInOrder` says is the one unanswered (`Owed`). What the client reads shifts the places of the responses behind it by one, and of their number by one if it was a response (`Shifted`). |
| `McpSessionProofs`, the session | `TypeCorrect`, `StaysInSync`, `ImplementsRemoteCalls` | Calls that threw leave requests, responses and printed lines in the pipes. `Ordered`: ids only grow from what was decided, to what is being decided, to what is still on its way. `Replied`: every response was decided, and what is behind it in the pipe is of a later call, so the response with the id of the present call is the last thing the server has written (`Answered => Clear`). Then `TakeRequest` of a call, its end in the tool and the return to the caller are the steps of `RemoteCalls`, and every other step stutters. |
| `ChatHistoryProofs` | `TypeCorrect`, `TurnsAreKept`, `ModelIsShown`, `HistoryInOrder` | `UpTo(n)` and `Progress`: where the turn under way is, the history holds exactly its first n messages, behind those of older turns; so the message that is pushed comes last, and the turn that returns is there as a whole. `Told`: what the running process holds tells every turn it can know, which `Load` re-establishes from `KeptOnDisk`, and `LoadUnread` by there being none. `Sound` is what a process may leave behind when it stops anywhere. |

The assumptions are the named ASSUMEs of the modules: numbers are naturals,
sets are disjoint where the code's values are. Every theorem holds for any number
of threads, transports, tools, rounds, calls of a chain, requests, handlers, turns and faults, and
pipes of any capacity. `CachingChatModel` assumes in addition that there is some conversation,
and `McpHttpServer` that there is some connection (`at` is a descriptor, which needs a first value).
`McpTransportProofs` and `McpSessionProofs` extend two modules each (whose definitions have names of
their own for that: `TransportSpec`, `StandaloneSpec`), so each theorem in them is stated under the
assumptions of both, which speak of different constants, with one exception: `McpSession` assumes that
ids are the numbers it counts, and `RequestsAnswered` is stated for such ids too, although the server
never looks into one. Over HTTP there may be any number of connections and any `Backlog`.
Each invariant was checked by TLC on the run's instance before it was proved.

Only model-checked:

- every liveness property (`EveryCallerServed`, `ChildReaped`, `DestructorReturns`, `CallersReleased`, `CallEnds`):
  liveness under fairness is out of the prover's reach;
- `StreamedReply`, `ProvidersUnderstand` and the pure functions (`MCReaders`, `MCInputs`): data computed
  by recursion, on which induction is out of the prover's reach.

The type invariants the theorems prove and `WindowQuota` are listed by no run, nor are those of the
other modules, which document the state.

## 5. Not modelled

Formatting of JSON and logs; the bytes of pipes (lines are); parameters of provider requests that are
only copied; `MockChat` and `MockEmbeddings`, test doubles; `FormatDocumentsAsString`, which joins texts;
`CallbackingTool` and the console handler's printing; `InMemoryChatMessageHistory`, a vector; the headers
of `include/langchain` that only declare, and the programs in `examples/`, which only call the library.
Two threads that use one `McpClient`, one cache, one history or one store object, and two processes that
write one history file, are outside of what the code promises: `McpClient` and `InMemoryChatModelCache`
have no lock, and `as_tools()` makes it easy to share the first.
