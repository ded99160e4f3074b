-------------------------------- MODULE Chain --------------------------------
(***************************************************************************)
(* A chain made with operator| (core/runnable.hpp): a RunnableParallel of  *)
(* a retrieved context and the question, a ChatPromptTemplate, a           *)
(* RunnableBranch of two chat models, and an OutputFixingParser that asks  *)
(* one of them again (parsers/output_fixing_parser.hpp).  The application  *)
(* invokes it call by call, gives it a batch, or starts calls with         *)
(* ainvoke() and gets their futures; the models may sit in                 *)
(* CachingChatModels (llm/caching_chat_model.cpp), which have no lock and  *)
(* are not used with ainvoke().                                            *)
(*                                                                         *)
(* A prompt is the set of values its template is filled with, a reply one  *)
(* of a few contents, of which those in Bad do not parse.                  *)
(*                                                                         *)
(* Bound: MaxCalls calls.                                                  *)
(***************************************************************************)
EXTENDS Integers, Sequences

CONSTANTS Inputs, Long, Good, Bad, MaxRetries, MaxCalls, None

ASSUME ChainAssumption ==
  /\ Long \subseteq Inputs
  /\ Good \cap Bad = {}
  /\ MaxRetries \in Nat /\ MaxCalls \in Nat
  /\ None \notin Good \cup Bad

VARIABLES
  mode,      \* how the application uses the chain
  cached,    \* whether the models are in CachingChatModels
  app,       \* where the application is
  calls,     \* the calls of invoke(), in the order in which they were asked for
  results,   \* what batch() has pushed, or the application has got from futures
  cache      \* the entries: model and conversation -> content

vars == << mode, cached, app, calls, results, cache >>

-----------------------------------------------------------------------------
\* What the branches of the RunnableParallel make of an input.
Branches == {"context", "question"}
ValueOf(branch, input) == [branch |-> branch, of |-> input]
Prompt(values) == [values |-> values]
PromptFor(input) == Prompt({ValueOf(branch, input) : branch \in Branches})

\* The conversation of a retry holds the reply that did not parse, its error,
\* and nothing else.
FixPrompt(content) == [invalid |-> content]

\* RunnableBranch: the predicate looks at the prompt.
Fixer == "small"
Route(prompt) == IF \E value \in prompt.values : value.of \in Long THEN "large" ELSE "small"

Key(model, conversation) == [model |-> model, conversation |-> conversation]

\* `path` is history: what was asked, by whom it was answered, and whether the
\* provider was asked for it.
NewCall(input) ==
  [pc |-> "branches", input |-> input, values |-> {}, asking |-> None,
   current |-> None, attempt |-> 0, path |-> << >>]

IsIn(i, pc)  == i \in DOMAIN calls /\ calls[i].pc = pc
HasEnded(i)  == calls[i].pc \in {"returned", "unparsed", "failed"}
AllEnded     == \A i \in DOMAIN calls : HasEnded(i)
Replied(i, content) ==
  Append(calls[i].path, [key |-> calls[i].asking, content |-> content,
                         fresh |-> calls[i].asking \notin DOMAIN cache])
Put(key, content) == [k \in DOMAIN cache \cup {key} |-> IF k = key THEN content ELSE cache[k]]

-----------------------------------------------------------------------------
(* Ways this code could be wrong, for the mutation checks.                 *)

\* `current` is a member of the parser, and not a variable of the call.
ModelRepliesToAll(i, content) ==
  /\ IsIn(i, "model")
  /\ calls' = [j \in DOMAIN calls |->
                 IF j = i THEN [calls[i] EXCEPT !.pc = "parse", !.current = content, !.path = Replied(i, content)]
                 ELSE IF calls[j].pc = "parse" THEN [calls[j] EXCEPT !.current = content] ELSE calls[j]]
  /\ cache' = IF cached THEN Put(calls[i].asking, content) ELSE cache
  /\ UNCHANGED << mode, cached, app, results >>

\* The attempts are counted from one.
GiveUpEarly(i) ==
  /\ IsIn(i, "parse") /\ calls[i].current \in Bad /\ calls[i].attempt + 1 >= MaxRetries
  /\ calls' = [calls EXCEPT ![i].pc = "unparsed"]
  /\ UNCHANGED << mode, cached, app, results, cache >>

\* Only what answers a prompt is kept.
ModelRepliesUnkept(i, content) ==
  /\ IsIn(i, "model")
  /\ calls' = [calls EXCEPT ![i].pc = "parse", ![i].current = content, ![i].path = Replied(i, content)]
  /\ cache' = IF cached /\ calls[i].attempt = 0 THEN Put(calls[i].asking, content) ELSE cache
  /\ UNCHANGED << mode, cached, app, results >>

-----------------------------------------------------------------------------
Init ==
  /\ mode \in {"invoke", "batch", "ainvoke"}
  /\ cached \in (IF mode = "ainvoke" THEN {FALSE} ELSE BOOLEAN)
  /\ app = "calling"
  /\ calls = << >>
  /\ results = << >>
  /\ cache = << >>

(* The application *)

\* The next call: after the previous one, in a batch only if that returned, with
\* ainvoke() at any time; the lambda has its own copy of the input.
Call(input) ==
  /\ app = "calling" /\ Len(calls) < MaxCalls
  /\ mode # "ainvoke" => AllEnded
  /\ mode = "batch" => Len(results) = Len(calls)
  /\ calls' = Append(calls, NewCall(input))
  /\ UNCHANGED << mode, cached, app, results, cache >>

\* std::async has no thread to give.
CallFails ==
  /\ app = "calling" /\ mode = "ainvoke"
  /\ app' = "leaving"
  /\ UNCHANGED << mode, cached, calls, results, cache >>

\* All calls are started; the application turns to their futures.
Wait ==
  /\ app = "calling" /\ mode = "ainvoke"
  /\ app' = "getting"
  /\ UNCHANGED << mode, cached, calls, results, cache >>

Collecting(i) ==
  /\ (mode = "batch" /\ app = "calling") \/ app = "getting"
  /\ i = Len(results) + 1 /\ i \in DOMAIN calls /\ HasEnded(i)

\* push_back() in batch(), or get() of the next future.
Collect(i) ==
  /\ Collecting(i) /\ calls[i].pc = "returned"
  /\ results' = Append(results, calls[i].current)
  /\ UNCHANGED << mode, cached, app, calls, cache >>

\* The exception of the call leaves batch(), or get(): the results are lost.
Rethrow(i) ==
  /\ Collecting(i) /\ calls[i].pc # "returned"
  /\ results' = << >>
  /\ app' = "leaving"
  /\ UNCHANGED << mode, cached, calls, cache >>

\* The application needs the chain no more; it may drop futures it did not get.
LetGo ==
  /\ app \in {"calling", "getting"}
  /\ mode # "ainvoke" => AllEnded
  /\ mode = "batch" => Len(results) = Len(calls)
  /\ app' = "leaving"
  /\ UNCHANGED << mode, cached, calls, results, cache >>

\* The futures of std::async are destroyed, each of which waits for its call, and
\* then the chain: an application that destroys the chain first, to which the calls
\* have a plain pointer, is left out.
Destroy ==
  /\ app = "leaving" /\ AllEnded
  /\ app' = "done"
  /\ UNCHANGED << mode, cached, calls, results, cache >>

-----------------------------------------------------------------------------
(* A call *)

\* The branches, in the order of an unordered_map.
RunBranch(i, branch) ==
  /\ IsIn(i, "branches")
  /\ \A value \in calls[i].values : value.branch # branch
  /\ calls' = [calls EXCEPT ![i].values = @ \cup {ValueOf(branch, calls[i].input)}]
  /\ UNCHANGED << mode, cached, app, results, cache >>

\* The retriever throws.
BranchThrows(i) ==
  /\ IsIn(i, "branches")
  /\ \A value \in calls[i].values : value.branch # "context"
  /\ calls' = [calls EXCEPT ![i].pc = "failed"]
  /\ UNCHANGED << mode, cached, app, results, cache >>

\* The template is filled, and the branch that fits the prompt is taken.
AskBranch(i) ==
  /\ IsIn(i, "branches") /\ {value.branch : value \in calls[i].values} = Branches
  /\ LET prompt == Prompt(calls[i].values)
     IN  calls' = [calls EXCEPT ![i].pc = "model", ![i].asking = Key(Route(prompt), prompt)]
  /\ UNCHANGED << mode, cached, app, results, cache >>

\* The model answers, or its cache does.
ModelReplies(i, content) ==
  /\ IsIn(i, "model")
  /\ calls[i].asking \in DOMAIN cache => content = cache[calls[i].asking]
  /\ calls' = [calls EXCEPT ![i].pc = "parse", ![i].current = content, ![i].path = Replied(i, content)]
  /\ cache' = IF cached THEN Put(calls[i].asking, content) ELSE cache
  /\ UNCHANGED << mode, cached, app, results >>

\* The exception of the model passes through, in a retry in the place of the
\* error that the reply did not parse.
ModelThrows(i) ==
  /\ IsIn(i, "model") /\ calls[i].asking \notin DOMAIN cache
  /\ calls' = [calls EXCEPT ![i].pc = "failed"]
  /\ UNCHANGED << mode, cached, app, results, cache >>

Return(i) ==
  /\ IsIn(i, "parse") /\ calls[i].current \in Good
  /\ calls' = [calls EXCEPT ![i].pc = "returned"]
  /\ UNCHANGED << mode, cached, app, results, cache >>

\* The last error is thrown again ...
GiveUp(i) ==
  /\ IsIn(i, "parse") /\ calls[i].current \in Bad /\ calls[i].attempt >= MaxRetries
  /\ calls' = [calls EXCEPT ![i].pc = "unparsed"]
  /\ UNCHANGED << mode, cached, app, results, cache >>

\* ... or the parser's own model is asked to put the reply right.
AskAgain(i) ==
  /\ IsIn(i, "parse") /\ calls[i].current \in Bad /\ calls[i].attempt < MaxRetries
  /\ calls' = [calls EXCEPT ![i].pc = "model", ![i].attempt = @ + 1,
                            ![i].asking = Key(Fixer, FixPrompt(calls[i].current))]
  /\ UNCHANGED << mode, cached, app, results, cache >>

Step(i) ==
  \/ \E branch \in Branches : RunBranch(i, branch)
  \/ \E content \in Good \cup Bad : ModelReplies(i, content)
  \/ BranchThrows(i) \/ AskBranch(i) \/ ModelThrows(i)
  \/ Return(i) \/ GiveUp(i) \/ AskAgain(i)

-----------------------------------------------------------------------------
Done == app = "done" /\ UNCHANGED vars

Next ==
  \/ \E input \in Inputs : Call(input)
  \/ CallFails \/ Wait \/ LetGo \/ Destroy \/ Done
  \/ \E i \in 1..MaxCalls : Collect(i) \/ Rethrow(i) \/ Step(i)

Spec == Init /\ [][Next]_vars

-----------------------------------------------------------------------------
Contents == Good \cup Bad
Conversations == [values : SUBSET [branch : Branches, of : Inputs]] \cup [invalid : Bad]
Keys == [model : {"large", "small"}, conversation : Conversations]

Entries == [key : Keys, content : Contents, fresh : BOOLEAN]
CallRecords ==
  [pc : {"branches", "model", "parse", "returned", "unparsed", "failed"},
   input : Inputs, values : SUBSET [branch : Branches, of : Inputs],
   asking : Keys \cup {None}, current : Contents \cup {None}, attempt : 0..MaxRetries,
   path : Seq(Entries)]

TypeOK ==
  /\ mode \in {"invoke", "batch", "ainvoke"} /\ cached \in BOOLEAN
  /\ app \in {"calling", "getting", "leaving", "done"}
  /\ calls \in Seq(CallRecords) /\ Len(calls) <= MaxCalls
  /\ results \in Seq(Contents) /\ Len(results) <= Len(calls)
  /\ DOMAIN cache \subseteq Keys /\ \A key \in DOMAIN cache : cache[key] \in Contents

Final(i) == calls[i].path[Len(calls[i].path)].content

\* Each call, alone or with others under way, answers its own input: the first
\* reply is the routed model's to the prompt that holds both values of the input,
\* each later one the fixing model's to the reply before it, which did not parse;
\* the call returns the last reply if that parses, and throws its error only
\* after max_retries retries (output_fixing_parser.hpp:24-42).  Results come in
\* the order of the inputs, and a batch goes no further than its first exception
\* (runnable.hpp:27-34).
AnswersOwnInput ==
  /\ \A i \in DOMAIN calls :
       LET path == calls[i].path
       IN  /\ \A k \in DOMAIN path :
                path[k].key = IF k = 1
                              THEN Key(Route(PromptFor(calls[i].input)), PromptFor(calls[i].input))
                              ELSE Key(Fixer, FixPrompt(path[k - 1].content))
           /\ \A k \in 1..(Len(path) - 1) : path[k].content \in Bad
           /\ calls[i].pc \in {"returned", "unparsed"} => path # << >>
           /\ calls[i].pc = "returned" => Final(i) \in Good
           /\ calls[i].pc = "unparsed" => Final(i) \in Bad /\ Len(path) = MaxRetries + 1
  /\ \A i \in DOMAIN results : calls[i].pc = "returned" /\ results[i] = Final(i)
  /\ mode = "batch" => \A i \in 1..(Len(calls) - 1) : calls[i].pc = "returned"

\* Behind a cache an input is settled by the first call that got through: the
\* same input ends the same way ever after, and no provider is asked again, also
\* when that way is that no reply parses; and a retry that is answered as the
\* one before it makes every further one futile (caching_chat_model.cpp:47-54
\* under output_fixing_parser.hpp:37).
Settled ==
  cached =>
    \A j \in DOMAIN calls :
      LET path == calls[j].path
      IN  /\ \A i \in 1..(j - 1) :
               calls[i].pc \in {"returned", "unparsed"} /\ calls[i].input = calls[j].input =>
                 /\ \A k \in DOMAIN path : ~path[k].fresh
                 /\ calls[j].pc \in {"returned", "unparsed"} =>
                      calls[j].pc = calls[i].pc /\ Final(j) = Final(i)
          /\ \A k, m \in DOMAIN path :
               k < m /\ path[k].key = path[m].key =>
                 path[m].content = path[k].content /\ ~path[m].fresh
=============================================================================
