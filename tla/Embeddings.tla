----------------------------- MODULE Embeddings -----------------------------
(***************************************************************************)
(* What src/src/rag/embeddings makes of a server's answer, and the search  *)
(* for the nearest vectors (src/src/core/similarity.cpp) by which          *)
(* SemanticSimilarityExampleSelector and InMemoryVectorStore choose.       *)
(* Vectors hold integers; -1 is a square root of nothing, so similarities  *)
(* are compared by their sign and their square.                            *)
(***************************************************************************)
EXTENDS Integers, Sequences, FiniteSets, SequencesExt

Answer(status, data)  == [status |-> status, data |-> data]
Throws                == [throws |-> TRUE, vectors |-> << >>]
Vectors(vs)           == [throws |-> FALSE, vectors |-> vs]

\* A plausible bug, for the mutation checks: the entries are taken as they come.
parse_openai_embeddings_responseUnsorted(data) == [i \in DOMAIN data |-> data[i].embedding]

\* The entries come with their index, in any order; std::sort puts them in order.
parse_openai_embeddings_response(data) ==
  LET sorted == SortSeq(data, LAMBDA a, b : a.index < b.index)
  IN  [i \in DOMAIN sorted |-> sorted[i].embedding]

\* Gemini's come in the order of the requests.
parse_gemini_batch_embed_contents_response(data) == [i \in DOMAIN data |-> data[i].embedding]

\* embed_documents() of each class.
OpenAIEmbeddings(answer) ==
  IF answer.status # 200 THEN Throws ELSE Vectors(parse_openai_embeddings_response(answer.data))
AzureOpenAIEmbeddings(answer) ==
  IF answer.status # 200 THEN Throws ELSE Vectors(parse_openai_embeddings_response(answer.data))
GeminiEmbeddings(answer) ==
  IF answer.status # 200 THEN Throws ELSE Vectors(parse_gemini_batch_embed_contents_response(answer.data))

\* embed_query(): the first of a batch of one; Gemini has a request of its own for it.
OpenAIQuery(answer) ==
  LET batch == OpenAIEmbeddings(answer)
  IN  IF batch.throws THEN Throws ELSE Vectors(<< batch.vectors[1] >>)
GeminiQuery(answer) ==
  IF answer.status # 200 THEN Throws ELSE Vectors(<< answer.data[1].embedding >>)

-----------------------------------------------------------------------------
Dot(a, b) == FoldLeft(+, 0, [i \in DOMAIN a |-> a[i] * b[i]])
Sign(n)   == IF n < 0 THEN -1 ELSE IF n = 0 THEN 0 ELSE 1

\* sign(cos) * cos^2, as a fraction; 0 for a vector of zeros.
cosine_similarity(a, b) ==
  LET norms == Dot(a, a) * Dot(b, b)
  IN  IF norms = 0 THEN [over |-> 0, under |-> 1]
      ELSE [over |-> Sign(Dot(a, b)) * Dot(a, b) * Dot(a, b), under |-> norms]

Above(s, t) == s.over * t.under > t.over * s.under

\* std::sort by descending similarity: equal ones in any order.
Orders(query, vectors) ==
  LET Better(i, j) == Above(cosine_similarity(query, vectors[i]), cosine_similarity(query, vectors[j]))
  IN  {order \in [DOMAIN vectors -> DOMAIN vectors] :
         /\ \A i, j \in DOMAIN vectors : i # j => order[i] # order[j]
         /\ \A i, j \in DOMAIN vectors : i < j => ~Better(order[j], order[i])}

\* A plausible bug, for the mutation checks: one example too many.
CountPlusOne(k, order) == IF k < Len(order) THEN k + 1 ELSE Len(order)
Count(k, order) == IF k < Len(order) THEN k ELSE Len(order)

\* The positions select_examples() or similarity_search() may return.
select_examples(query, vectors, k) ==
  {SubSeq(order, 1, Count(k, order)) : order \in Orders(query, vectors)}
=============================================================================
