---------------------------- MODULE VectorStores ----------------------------
(***************************************************************************)
(* rag::InMemoryVectorStore, FaissVectorStore, QdrantVectorStore and       *)
(* PgVectorStore (src/src/rag/vectorstores): the first two keep their      *)
(* entries in the object, the others in a collection or a table of a       *)
(* server, which several objects, of this process or of others, share.     *)
(* Each object is used by one thread; the servers and the network are      *)
(* modelled from how the code uses them.                                   *)
(*                                                                         *)
(* A vector is the text it was computed from and its size; a search looks  *)
(* for one document (k = 1).  Rows and entries carry the call that made    *)
(* them, which no code can see.                                            *)
(*                                                                         *)
(* Bounds: MaxCalls calls, MaxFaults failures of the network, of the       *)
(* embeddings or of a text that cannot be dumped, MaxDrops deletions of a  *)
(* collection or table.                                                    *)
(***************************************************************************)
EXTENDS Naturals, Sequences

CONSTANTS InMemory, Faiss, Qdrant, PgVector,   \* the objects of each class
          Documents, Batches,                  \* what may be added at once
          Usual, Sizes,                        \* of vectors, the usual one and all
          NoDocument, MaxCalls, MaxFaults, MaxDrops
Local == InMemory \cup Faiss
Remote == Qdrant \cup PgVector
Stores == Local \cup Remote
Servers == {"qdrant", "postgres"}
Home == [s \in Stores |-> CASE s \in Qdrant -> "qdrant" [] s \in PgVector -> "postgres" [] s \in Local -> s]

ASSUME StoresAssumption ==
    /\ InMemory \cap Faiss = {} /\ Qdrant \cap PgVector = {} /\ Local \cap (Remote \cup Servers) = {}
    /\ Batches \subseteq Seq(Documents)
    /\ NoDocument \notin Documents
    /\ Usual \in Sizes /\ 0 \notin Sizes
    /\ MaxCalls \in Nat /\ MaxFaults \in Nat /\ MaxDrops \in Nat

VARIABLES
    documents,  \* documents_ of a local store
    vectors,    \* vectors_, or what is in index_
    dimension,  \* dimension_; 0 is -1: no index_ yet
    ready,      \* collection_ready_, table_ready_
    connected,  \* whether connection_ of a PgVectorStore is usable
    table,      \* of each server: the collection or table; size 0: there is none
    call,       \* the last call made on each store
    late,       \* batches on their way to a server when their call threw
    calls, faults, drops,
    made        \* history: how often a table was made at each server

object == <<documents, vectors, dimension>>
server == <<table, made>>
vars == <<object, ready, connected, server, call, late, calls, faults, drops>>

-----------------------------------------------------------------------------
NoTable == [size |-> 0, rows |-> <<>>]
Entry(document, id) == [document |-> document, call |-> id]
Call(op, id, docs, pc, answer, m) ==
    [op |-> op, id |-> id, docs |-> docs, pc |-> pc, vectors |-> <<>>, answer |-> answer,
     made |-> m, hurt |-> FALSE]
Ended(pc, answer) == Call("none", 0, <<>>, pc, answer, 0)

\* One batch, as build_upsert_points_body() and build_insert_sql() send it.
Rows(c) == [i \in DOMAIN c.docs |-> [vector |-> c.vectors[i], entry |-> Entry(c.docs[i], c.id)]]

\* The server takes the whole batch, or none of it if a vector does not fit.
Fits(t, batch) == t.size # 0 /\ \A i \in DOMAIN batch : batch[i].vector.size = t.size

\* What a search ranks first: the entry indexed under the query's own text
\* when there is one, otherwise any.
Ranked(texts, query) ==
    LET exact == {i \in DOMAIN texts : texts[i] = query}
    IN  IF exact = {} THEN DOMAIN texts ELSE exact

Running(s) == call[s].pc \notin {"returned", "threw"}
At(s, pc) == call[s].pc = pc
Adds(s) == call[s].op = "add"
Goto(s, pc) == call' = [call EXCEPT ![s].pc = pc]
Answer(s, pc, d) == call' = [call EXCEPT ![s] = Ended(pc, d)]
Return(s) == Answer(s, "returned", NoDocument)
Throw(s) == Answer(s, "threw", NoDocument)
Fault == faults < MaxFaults /\ faults' = faults + 1

OneSize(s, d) == \A i \in DOMAIN call[s].vectors : call[s].vectors[i].size = d
Texts(vs) == [i \in DOMAIN vs |-> vs[i].text]

\* The documents and their vectors are kept at the same places.
Keep(s) ==
    /\ documents' = [documents EXCEPT ![s] = @ \o [i \in DOMAIN call[s].docs |-> Entry(call[s].docs[i], call[s].id)]]
    /\ vectors' = [vectors EXCEPT ![s] = @ \o call[s].vectors]

Tbl(s) == table[Home[s]]
Usable(s) == s \in PgVector => connected[s]

\* A connection to the database may be lost with the request.
Breaks(s) == connected' \in {connected} \cup (IF s \in PgVector THEN {[connected EXCEPT ![s] = FALSE]} ELSE {})

MakeTable(s) ==
    /\ table' = [table EXCEPT ![Home[s]].size = call[s].vectors[1].size]
    /\ made' = [made EXCEPT ![Home[s]] = @ + 1]

-----------------------------------------------------------------------------
(* Ways this code could be wrong, for the mutation checks.                 *)

\* The documents are kept before the sizes are looked at.
AddFaissUnchecked(s) ==
    /\ At(s, "local") /\ Adds(s) /\ s \in Faiss
    /\ LET d == IF dimension[s] = 0 THEN call[s].vectors[1].size ELSE dimension[s]
       IN  /\ dimension' = [dimension EXCEPT ![s] = d]
           /\ Keep(s)
           /\ IF OneSize(s, d) THEN Return(s) ELSE Throw(s)
    /\ UNCHANGED <<ready, connected, server, late, calls, faults, drops>>

\* The check is made only to search.
CheckOnlyToSearch(s) ==
    /\ At(s, "check") /\ Usable(s)
    /\ ready' = [ready EXCEPT ![s] = ~Adds(s) /\ Tbl(s).size # 0]
    /\ IF ready'[s] THEN Goto(s, "request") ELSE IF Adds(s) THEN Goto(s, "create") ELSE Return(s)
    /\ UNCHANGED <<object, connected, server, late, calls, faults, drops>>

\* A retry of add_documents() that the network failed.
RequestRetried(s) ==
    /\ call[s].pc \in {"request", "answered"} /\ Usable(s)
    /\ Fault /\ Breaks(s)
    /\ IF At(s, "request") /\ Adds(s)
       THEN Goto(s, "request") /\ late' = late \cup {[home |-> Home[s], rows |-> Rows(call[s])]}
       ELSE Throw(s) /\ UNCHANGED late
    /\ UNCHANGED <<object, ready, server, calls, drops>>

-----------------------------------------------------------------------------
Init ==
    /\ documents = [s \in Local |-> <<>>] /\ vectors = [s \in Local |-> <<>>]
    /\ dimension = [s \in Faiss |-> 0]
    /\ ready = [s \in Remote |-> FALSE]
    /\ connected = [s \in PgVector |-> TRUE]
    /\ table = [b \in Servers |-> NoTable] /\ made = [b \in Servers |-> 0]
    /\ call = [s \in Stores |-> Ended("returned", NoDocument)]
    /\ late = {}
    /\ calls = 0 /\ faults = 0 /\ drops = 0

\* add_documents(docs), or similarity_search(docs[1], 1).
Start(s, op, docs) ==
    /\ ~Running(s) /\ calls < MaxCalls
    /\ calls' = calls + 1
    /\ call' = [call EXCEPT ![s] =
                   Call(op, calls + 1, docs, "started", NoDocument, IF s \in Remote THEN made[Home[s]] ELSE 0)]
    /\ UNCHANGED <<object, ready, connected, server, late, faults, drops>>

AddDocuments(s) == \E docs \in Batches : Start(s, "add", docs)
SimilaritySearch(s) == \E d \in Documents : Start(s, "search", <<d>>)

\* What needs no embedding.
NothingToDo(s) ==
    \/ Adds(s) /\ call[s].docs = <<>> /\ s \notin InMemory
    \/ ~Adds(s) /\ s \in Faiss /\ documents[s] = <<>>

ReturnAtOnce(s) ==
    /\ At(s, "started") /\ NothingToDo(s)
    /\ Return(s)
    /\ UNCHANGED <<object, ready, connected, server, late, calls, faults, drops>>

\* embed_documents() or embed_query(), of any provider: a vector for each text.
\* Vectors of an unusual size in an InMemoryVectorStore are undefined behaviour
\* (cosine_similarity) and are left out.
Embed(s) ==
    /\ At(s, "started") /\ ~NothingToDo(s)
    /\ \E sizes \in [DOMAIN call[s].docs -> Sizes] :
          LET odd == \E i \in DOMAIN sizes : sizes[i] # Usual
          IN  /\ odd => s \notin InMemory /\ faults < MaxFaults
              /\ faults' = IF odd THEN faults + 1 ELSE faults
              /\ call' = [call EXCEPT ![s] = [@ EXCEPT
                    !.vectors = [i \in DOMAIN sizes |-> [text |-> call[s].docs[i], size |-> sizes[i]]],
                    !.pc = CASE s \in Local -> "local"
                             [] s \in Remote -> IF ready[s] THEN "request" ELSE "check"]]
    /\ UNCHANGED <<object, ready, connected, server, late, calls, drops>>

EmbedThrows(s) ==
    /\ At(s, "started") /\ ~NothingToDo(s)
    /\ Fault /\ Throw(s)
    /\ UNCHANGED <<object, ready, connected, server, late, calls, drops>>

-----------------------------------------------------------------------------
(* The stores that keep their entries themselves.                          *)

AddInMemory(s) ==
    /\ At(s, "local") /\ Adds(s) /\ s \in InMemory
    /\ Keep(s) /\ Return(s)
    /\ UNCHANGED <<dimension, ready, connected, server, late, calls, faults, drops>>

\* The first vector ever seen fixes the dimension, even of a batch that is refused.
AddFaiss(s) ==
    /\ At(s, "local") /\ Adds(s) /\ s \in Faiss
    /\ LET d == IF dimension[s] = 0 THEN call[s].vectors[1].size ELSE dimension[s]
       IN  /\ dimension' = [dimension EXCEPT ![s] = d]
           /\ IF OneSize(s, d) THEN Keep(s) /\ Return(s)
                               ELSE UNCHANGED <<documents, vectors>> /\ Throw(s)
    /\ UNCHANGED <<ready, connected, server, late, calls, faults, drops>>

SearchLocal(s) ==
    /\ At(s, "local") /\ ~Adds(s)
    /\ IF s \in Faiss /\ ~OneSize(s, dimension[s]) THEN Throw(s)
       ELSE IF documents[s] = <<>> THEN Return(s)
       ELSE \E i \in Ranked(Texts(vectors[s]), call[s].docs[1]) :
               Answer(s, "returned", documents[s][i].document)
    /\ UNCHANGED <<object, ready, connected, server, late, calls, faults, drops>>

-----------------------------------------------------------------------------
(* The stores behind a server.  A request is sent, carried out and answered; *)
(* the check and the creation are short, and are cut only by a failure.     *)

\* libpq does not reopen a connection that was lost, and nobody asks it to.
Unusable(s) ==
    /\ call[s].pc \in {"check", "create", "request"} /\ ~Usable(s)
    /\ Throw(s)
    /\ UNCHANGED <<object, ready, connected, server, late, calls, faults, drops>>

\* collection_exists(), table_exists(): only a positive answer is remembered.
Check(s) ==
    /\ At(s, "check") /\ Usable(s)
    /\ ready' = [ready EXCEPT ![s] = Tbl(s).size # 0]
    /\ IF Tbl(s).size # 0 THEN Goto(s, "request") ELSE IF Adds(s) THEN Goto(s, "create") ELSE Return(s)
    /\ UNCHANGED <<object, connected, server, late, calls, faults, drops>>

\* Qdrant: any answer but 200 counts for "there is none", and a search finds nothing.
CheckFails(s) ==
    /\ At(s, "check") /\ Usable(s)
    /\ Fault /\ Breaks(s)
    /\ IF s \in PgVector THEN Throw(s)
       ELSE IF Adds(s) THEN call' = [call EXCEPT ![s] = [@ EXCEPT !.pc = "create", !.hurt = TRUE]]
       ELSE Return(s)
    /\ UNCHANGED <<object, ready, server, late, calls, drops>>

\* ensure_collection_exists(), ensure_table_exists(): CREATE TABLE has its IF NOT
\* EXISTS; Qdrant refuses to create what another store has created since the check.
Create(s) ==
    /\ At(s, "create") /\ Usable(s)
    /\ IF Tbl(s).size = 0 THEN MakeTable(s) ELSE UNCHANGED server
    /\ IF Tbl(s).size = 0 \/ s \in PgVector
       THEN ready' = [ready EXCEPT ![s] = TRUE] /\ Goto(s, "request")
       ELSE UNCHANGED ready /\ Throw(s)
    /\ UNCHANGED <<object, connected, late, calls, faults, drops>>

CreateFails(s) ==
    /\ At(s, "create") /\ Usable(s)
    /\ Fault /\ Throw(s) /\ Breaks(s)
    /\ \/ UNCHANGED server
       \/ Tbl(s).size = 0 /\ MakeTable(s)
    /\ UNCHANGED <<object, ready, late, calls, drops>>

\* The server carries out the upsert or the INSERT, whole or not at all.
Upsert(s) ==
    /\ At(s, "request") /\ Adds(s) /\ Usable(s)
    /\ IF Fits(Tbl(s), Rows(call[s]))
       THEN /\ table' = [table EXCEPT ![Home[s]].rows = @ \o Rows(call[s])]
            /\ Answer(s, "answered", NoDocument)
       ELSE UNCHANGED table /\ Throw(s)
    /\ UNCHANGED <<object, ready, connected, made, late, calls, faults, drops>>

\* The body is not sent: a text in it is not UTF-8, and dump() throws.
RenderThrows(s) ==
    /\ At(s, "request") /\ Adds(s)
    /\ Fault /\ Throw(s)
    /\ UNCHANGED <<object, ready, connected, server, late, calls, drops>>

\* A collection or table that is gone is an error of the server; PostgreSQL compares
\* the sizes row by row.
SearchServer(s) ==
    /\ At(s, "request") /\ ~Adds(s) /\ Usable(s)
    /\ IF \/ Tbl(s).size = 0
          \/ ~OneSize(s, Tbl(s).size) /\ (s \in Qdrant \/ Tbl(s).rows # <<>>)
       THEN Throw(s)
       ELSE LET rows == Tbl(s).rows
            IN  IF rows = <<>> THEN Answer(s, "answered", NoDocument)
                ELSE \E i \in Ranked([j \in DOMAIN rows |-> rows[j].vector.text], call[s].docs[1]) :
                        Answer(s, "answered", rows[i].entry.document)
    /\ UNCHANGED <<object, ready, connected, server, late, calls, faults, drops>>

Receive(s) ==
    /\ At(s, "answered")
    /\ Goto(s, "returned")
    /\ UNCHANGED <<object, ready, connected, server, late, calls, faults, drops>>

\* The request is lost, is delayed until after the call threw, or its answer is lost.
RequestFails(s) ==
    /\ call[s].pc \in {"request", "answered"} /\ Usable(s)
    /\ Fault /\ Throw(s) /\ Breaks(s)
    /\ late' \in {late} \cup (IF At(s, "request") /\ Adds(s)
                              THEN {late \cup {[home |-> Home[s], rows |-> Rows(call[s])]}} ELSE {})
    /\ UNCHANGED <<object, ready, server, calls, drops>>

UpsertLate(batch) ==
    /\ table' = IF Fits(table[batch.home], batch.rows)
                THEN [table EXCEPT ![batch.home].rows = @ \o batch.rows] ELSE table
    /\ late' = late \ {batch}
    /\ UNCHANGED <<object, ready, connected, made, call, calls, faults, drops>>

\* An administrator deletes the collection or the table.
Drop(b) ==
    /\ table[b].size # 0 /\ drops < MaxDrops
    /\ table' = [table EXCEPT ![b] = NoTable] /\ drops' = drops + 1
    /\ UNCHANGED <<object, ready, connected, made, call, late, calls, faults>>

-----------------------------------------------------------------------------
Prepare(s) == Embed(s) \/ EmbedThrows(s) \/ ReturnAtOnce(s)
LocalStep(s) == AddInMemory(s) \/ AddFaiss(s) \/ SearchLocal(s)
RemoteStep(s) ==
    \/ Unusable(s) \/ Check(s) \/ CheckFails(s) \/ Create(s) \/ CreateFails(s)
    \/ RenderThrows(s) \/ Upsert(s) \/ SearchServer(s) \/ Receive(s) \/ RequestFails(s)

Next ==
    \/ \E s \in Stores : AddDocuments(s) \/ SimilaritySearch(s) \/ Prepare(s)
    \/ \E s \in Local : LocalStep(s)
    \/ \E s \in Remote : RemoteStep(s)
    \/ \E batch \in late : UpsertLate(batch)
    \/ \E b \in Servers : Drop(b)

Spec == Init /\ [][Next]_vars

-----------------------------------------------------------------------------
(* Properties                                                              *)

\* The promise of every store: the entries of the objects and of the servers are
\* the index, and what a search ranks first is found through its vector.
Status(c) == CASE c.pc \in {"answered", "returned"} -> "done" [] c.pc = "threw" -> "failed" [] OTHER -> "pending"
EntriesOf(rows) == [i \in DOMAIN rows |-> rows[i].entry]
Seen(c) == [op |-> c.op, id |-> c.id, docs |-> c.docs, state |-> Status(c), answer |-> c.answer]
IndexNow == [b \in Local \cup Servers |-> IF b \in Local THEN documents[b] ELSE EntriesOf(table[b].rows)]
CallNow == [s \in Stores |-> Seen(call[s])]
LateNow == {[home |-> batch.home, entries |-> EntriesOf(batch.rows)] : batch \in late}
Index == INSTANCE DocumentIndex WITH
    Backends <- Local \cup Servers, Lenient <- Qdrant, index <- IndexNow, call <- CallNow, late <- LateNow

\* add_documents() is all or nothing and at most once, a search answers from the
\* index of one moment and names the document whose vector it matched: for the
\* four classes, through races, lost and late requests and deleted collections.  A
\* QdrantVectorStore may say that there is nothing though there is, but only in the
\* step in which its look for the collection failed (qdrant_vector_store.cpp:34, 85).
IndexSpec == Index!Spec

\* A call throws only because embeddings, network or dump() failed in it, vectors do not
\* fit, the collection was deleted after it was seen, another store made the
\* collection after this one had looked for it, or the database connection was
\* lost before: never because of what this store or another did and finished.
Mismatch(s) ==
    \/ \E i, j \in DOMAIN call[s].vectors : call[s].vectors[i].size # call[s].vectors[j].size
    \/ s \in Faiss /\ ~OneSize(s, dimension[s])
    \/ s \in Remote /\ Tbl(s).size # 0 /\ ~OneSize(s, Tbl(s).size)
Cause(s) ==
    \/ call[s].hurt
    \/ Mismatch(s)
    \/ s \in Remote /\ ready[s] /\ Tbl(s).size = 0 /\ drops > 0
    \/ s \in Qdrant /\ ~ready[s] /\ made[Home[s]] > call[s].made
    \/ s \in PgVector /\ ~connected[s]
ThrowsForCause ==
    [][\A s \in Stores : Running(s) /\ call'[s].pc = "threw" => Cause(s) \/ faults' > faults]_vars

TypeOK ==
    /\ \A s \in Local : Len(documents[s]) = Len(vectors[s])
    /\ \A s \in Faiss : dimension[s] \in Sizes \cup {0} /\ \A i \in DOMAIN vectors[s] : vectors[s][i].size = dimension[s]
    /\ ready \in [Remote -> BOOLEAN] /\ connected \in [PgVector -> BOOLEAN]
    /\ \A b \in Servers : table[b].size \in Sizes \cup {0} /\ Fits([table[b] EXCEPT !.size = IF @ = 0 THEN Usual ELSE @], table[b].rows)
    /\ \A s \in Stores : call[s].pc \in {"started", "local", "check", "create", "request", "answered", "returned", "threw"}
    /\ \A s \in Remote : ready[s] /\ drops = 0 => Tbl(s).size # 0
    /\ calls <= MaxCalls /\ faults <= MaxFaults /\ drops <= MaxDrops
=============================================================================
