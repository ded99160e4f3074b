------------------------- MODULE VectorStoresProofs -------------------------
(***************************************************************************)
(* For any number of stores, documents, batches, failures and deletions,   *)
(* the four vector stores implement DocumentIndex.  The invariant says     *)
(* that a document and its vector stay together on their way: in a call,   *)
(* in a late request, in a table and at the same place of the two          *)
(* sequences of a local store.  And no call throws without a cause: that   *)
(* follows from what a call has seen of its collection (Aware).            *)
(***************************************************************************)
EXTENDS VectorStores, SequenceTheorems, TLAPS

USE StoresAssumption

Vectors == [text : Documents, size : Sizes]
Entered == [document : Documents, call : Nat]
Row == [vector : Vectors, entry : Entered]
Table == [size : Sizes \cup {0}, rows : Seq(Row)]
Busy == {"started", "local", "check", "create", "request"}
Calls == [op : {"none", "add", "search"}, id : Nat, docs : Seq(Documents),
          pc : Busy \cup {"answered", "returned", "threw"}, vectors : Seq(Vectors),
          answer : Documents \cup {NoDocument}, made : Nat, hurt : BOOLEAN]

Typed ==
    /\ documents \in [Local -> Seq(Entered)] /\ vectors \in [Local -> Seq(Vectors)]
    /\ dimension \in [Faiss -> Sizes \cup {0}]
    /\ table \in [Servers -> Table] /\ made \in [Servers -> Nat]
    /\ call \in [Stores -> Calls]
    /\ late \subseteq [home : Servers, rows : Seq(Row)]
    /\ calls \in Nat

\* What a call in progress has done so far.
InPlace(c, s) ==
    /\ c.pc \in Busy => c.op \in {"add", "search"}
    /\ c.op = "search" => Len(c.docs) = 1
    /\ c.pc = "local" => s \in Local
    /\ c.pc \in {"check", "create", "request"} => s \in Remote
    /\ c.pc = "create" => c.op = "add"
    /\ c.pc \in {"local", "check", "create", "request"} =>
          /\ s \notin InMemory => c.docs # <<>>
          /\ DOMAIN c.vectors = DOMAIN c.docs
          /\ \A i \in DOMAIN c.docs : c.vectors[i].text = c.docs[i]
Progress == \A s \in Stores : InPlace(call[s], s)

Matched(rows) == \A i \in DOMAIN rows : rows[i].vector.text = rows[i].entry.document
Together ==
    /\ \A s \in Local : /\ DOMAIN documents[s] = DOMAIN vectors[s]
                        /\ \A i \in DOMAIN vectors[s] : vectors[s][i].text = documents[s][i].document
    /\ \A b \in Servers : Matched(table[b].rows)
    /\ \A batch \in late : Matched(batch.rows)

NoneNoRows == \A b \in Servers : table[b].size = 0 => table[b].rows = <<>>

\* A batch is on its way once: in a call in progress or late, never in two places.
Carries(batch) == batch.rows[1].entry.call
Once ==
    /\ \A s \in Stores : call[s].id <= calls
    /\ \A s, t \in Stores : s # t /\ call[s].pc \in Busy /\ call[t].pc \in Busy => call[s].id # call[t].id
    /\ \A batch \in late :
          /\ batch.rows # <<>> /\ Carries(batch) <= calls
          /\ \A s \in Stores : call[s].pc \in Busy => call[s].id # Carries(batch)
    /\ \A x, y \in late : Carries(x) = Carries(y) => x = y

IInv == Typed /\ Progress /\ Together /\ NoneNoRows /\ Once

-----------------------------------------------------------------------------
(* The places of entries.                                                  *)

LEMMA HomeOf ==
    /\ \A s \in Local : Home[s] = s /\ s \in Stores /\ s \notin Servers /\ s \notin Remote
    /\ \A s \in Remote : Home[s] \in Servers /\ s \in Stores /\ s \notin Local
    /\ \A s \in Stores : s \in Local \/ s \in Remote
BY DEF Home, Local, Remote, Stores, Servers

LEMMA RowsTyped ==
    ASSUME NEW c \in Calls, DOMAIN c.vectors = DOMAIN c.docs,
           \A i \in DOMAIN c.docs : c.vectors[i].text = c.docs[i]
    PROVE  /\ Rows(c) \in Seq(Row) /\ Matched(Rows(c))
           /\ EntriesOf(Rows(c)) = [i \in DOMAIN c.docs |-> Entry(c.docs[i], c.id)]
<1>1. c.docs \in Seq(Documents) /\ c.vectors \in Seq(Vectors) /\ c.id \in Nat
  BY DEF Calls
<1>2. PICK n \in Nat : DOMAIN c.docs = 1..n
  BY <1>1
<1>3. \A i \in 1..n : [vector |-> c.vectors[i], entry |-> Entry(c.docs[i], c.id)] \in Row
  BY <1>1, <1>2 DEF Row, Entered, Entry
<1>4. Rows(c) \in Seq(Row)
  BY <1>2, <1>3 DEF Rows
<1>5. QED
  BY <1>1, <1>2, <1>4 DEF Rows, Matched, EntriesOf, Entry

LEMMA EntriesTyped ==
    ASSUME NEW c \in Calls
    PROVE  [i \in DOMAIN c.docs |-> Entry(c.docs[i], c.id)] \in Seq(Entered)
<1>1. PICK n \in Nat : DOMAIN c.docs = 1..n
  BY DEF Calls
<1>2. \A i \in 1..n : Entry(c.docs[i], c.id) \in Entered
  BY <1>1 DEF Calls, Entry, Entered
<1>3. QED
  BY <1>1, <1>2

LEMMA EntriesOfTyped ==
    ASSUME NEW rows \in Seq(Row)
    PROVE  EntriesOf(rows) \in Seq(Entered) /\ Len(EntriesOf(rows)) = Len(rows)
<1>1. DOMAIN rows = 1..Len(rows) /\ Len(rows) \in Nat
  OBVIOUS
<1>2. \A i \in 1..Len(rows) : rows[i].entry \in Entered
  <2>1. \A i \in 1..Len(rows) : rows[i] \in Row
    BY ElementOfSeq
  <2>2. QED
    BY <2>1 DEF Row
<1>3. EntriesOf(rows) \in [1..Len(rows) -> Entered]
  BY <1>1, <1>2 DEF EntriesOf
<1>4. EntriesOf(rows) \in Seq(Entered)
  BY <1>1, <1>3, SeqDef
<1>5. QED
  BY <1>1, <1>3, <1>4, LenProperties

LEMMA JoinIs ==
    ASSUME NEW T, NEW s \in Seq(T), NEW t \in Seq(T)
    PROVE  s \o t \in Seq(T) /\ Len(s \o t) = Len(s) + Len(t)
OBVIOUS

LEMMA RowsJoined ==
    ASSUME NEW old \in Seq(Row), NEW new \in Seq(Row)
    PROVE  /\ EntriesOf(old \o new) = EntriesOf(old) \o EntriesOf(new)
           /\ Matched(old) /\ Matched(new) => Matched(old \o new)
<1>1. old \o new \in Seq(Row) /\ Len(old \o new) = Len(old) + Len(new)
  OBVIOUS
<1>2. EntriesOf(old) \in Seq(Entered) /\ EntriesOf(new) \in Seq(Entered)
      /\ Len(EntriesOf(old)) = Len(old) /\ Len(EntriesOf(new)) = Len(new)
  BY EntriesOfTyped
<1>3. ASSUME NEW i \in 1..(Len(old) + Len(new))
      PROVE  (old \o new)[i] = IF i <= Len(old) THEN old[i] ELSE new[i - Len(old)]
  OBVIOUS
<1>4. EntriesOf(old \o new) = EntriesOf(old) \o EntriesOf(new)
  <2>1. EntriesOf(old \o new) \in Seq(Entered) /\ Len(EntriesOf(old \o new)) = Len(old) + Len(new)
    BY <1>1, EntriesOfTyped
  <2>2. EntriesOf(old) \o EntriesOf(new) \in Seq(Entered)
        /\ Len(EntriesOf(old) \o EntriesOf(new)) = Len(old) + Len(new)
    BY <1>2, JoinIs
  <2>3. ASSUME NEW i \in 1..(Len(old) + Len(new))
        PROVE  EntriesOf(old \o new)[i] = (EntriesOf(old) \o EntriesOf(new))[i]
    <3>1. EntriesOf(old \o new)[i] = (old \o new)[i].entry
      BY <1>1 DEF EntriesOf
    <3>2. CASE i <= Len(old)
      <4>1. (EntriesOf(old) \o EntriesOf(new))[i] = EntriesOf(old)[i] /\ i \in DOMAIN old
        BY <1>2, <3>2
      <4>2. QED
        BY <1>3, <3>1, <3>2, <4>1 DEF EntriesOf
    <3>3. CASE ~(i <= Len(old))
      <4>1. (EntriesOf(old) \o EntriesOf(new))[i] = EntriesOf(new)[i - Len(old)] /\ i - Len(old) \in DOMAIN new
        BY <1>2, <3>3
      <4>2. QED
        BY <1>3, <3>1, <3>3, <4>1 DEF EntriesOf
    <3>4. QED
      BY <3>2, <3>3
  <2>4. QED
    BY <2>1, <2>2, <2>3, SeqEqual
<1>5. ASSUME Matched(old), Matched(new) PROVE Matched(old \o new)
  <2>1. DOMAIN (old \o new) = 1..(Len(old) + Len(new)) /\ DOMAIN old = 1..Len(old)
        /\ DOMAIN new = 1..Len(new) /\ Len(old) \in Nat /\ Len(new) \in Nat
    BY <1>1
  <2>2. SUFFICES ASSUME NEW i \in 1..(Len(old) + Len(new))
                 PROVE  (old \o new)[i].vector.text = (old \o new)[i].entry.document
    BY <2>1 DEF Matched
  <2>3. CASE i <= Len(old)
    <3>1. (old \o new)[i] = old[i] /\ i \in DOMAIN old
      BY <1>3, <2>1, <2>3
    <3>2. QED
      BY <1>5, <3>1 DEF Matched
  <2>4. CASE ~(i <= Len(old))
    <3>1. (old \o new)[i] = new[i - Len(old)] /\ i - Len(old) \in DOMAIN new
      BY <1>3, <2>1, <2>4
    <3>2. QED
      BY <1>5, <3>1 DEF Matched
  <2>5. QED
    BY <2>3, <2>4
<1>6. QED
  BY <1>4, <1>5

\* What ranks first under a query is an answer the index allows.
LEMMA RankedIsNearest ==
    ASSUME NEW entries \in Seq(Entered), NEW texts, DOMAIN texts = DOMAIN entries,
           \A j \in DOMAIN entries : texts[j] = entries[j].document,
           NEW query, NEW i \in Ranked(texts, query)
    PROVE  entries[i].document \in Index!Nearest(entries, query)
<1>1. i \in DOMAIN entries
  BY DEF Ranked
<1>2. CASE texts[i] = query
  BY <1>1, <1>2 DEF Index!Nearest
<1>3. CASE texts[i] # query
  <2>1. \A j \in DOMAIN entries : entries[j].document # query
    BY <1>3 DEF Ranked
  <2>2. QED
    BY <1>1, <2>1 DEF Index!Nearest
<1>4. QED
  BY <1>2, <1>3

-----------------------------------------------------------------------------
(* How a step changes one call.                                            *)

LEMMA CallSeen ==
    ASSUME IInv, NEW s \in Stores
    PROVE  /\ call[s] \in Calls /\ InPlace(call[s], s)
           /\ CallNow[s] = Seen(call[s])
           /\ CallNow[s].op = call[s].op /\ CallNow[s].docs = call[s].docs
           /\ CallNow[s].id = call[s].id
           /\ Index!Pending(s) <=> call[s].pc \in Busy
           /\ CallNow[s].state = "failed" <=> call[s].pc = "threw"
<1>1. call[s] \in Calls /\ InPlace(call[s], s)
  BY DEF IInv, Typed, Progress
<1>2. CallNow[s] = Seen(call[s])
  BY DEF CallNow
<1>3. CallNow[s].state = Status(call[s])
  BY <1>2 DEF Seen
<1>4. call[s].pc \in Busy \cup {"answered", "returned", "threw"}
  BY <1>1 DEF Calls
<1>5. Status(call[s]) = "pending" <=> call[s].pc \in Busy
  BY <1>4 DEF Status, Busy
<1>6. Status(call[s]) = "failed" <=> call[s].pc = "threw"
  BY <1>4 DEF Status, Busy
<1>7. QED
  BY <1>1, <1>2, <1>3, <1>5, <1>6 DEF Seen, Index!Pending

LEMMA CallChanges ==
    ASSUME IInv, NEW s \in Stores, NEW c \in Calls, call' = [call EXCEPT ![s] = c], InPlace(c, s)
    PROVE  /\ call' \in [Stores -> Calls]
           /\ Progress'
           /\ CallNow' = [CallNow EXCEPT ![s] = Seen(c)]
<1>1. call \in [Stores -> Calls] /\ Progress
  BY DEF IInv, Typed
<1>2. call' \in [Stores -> Calls]
  BY <1>1
<1>3. \A t \in Stores : call'[t] = IF t = s THEN c ELSE call[t]
  BY <1>1
<1>4. Progress'
  <2>1. SUFFICES ASSUME NEW t \in Stores PROVE InPlace(call'[t], t)
    BY DEF Progress
  <2>2. CASE t = s
    BY <1>3, <2>2
  <2>3. CASE t # s
    <3>1. call'[t] = call[t] /\ InPlace(call[t], t)
      BY <1>1, <1>3, <2>3 DEF Progress
    <3>2. QED
      BY <3>1
  <2>4. QED
    BY <2>2, <2>3
<1>5. CallNow' = [t \in Stores |-> Seen(call'[t])]
  BY DEF CallNow
<1>6. \A t \in Stores : Seen(call'[t]) = IF t = s THEN Seen(c) ELSE Seen(call[t])
  BY <1>3
<1>7. CallNow' = [CallNow EXCEPT ![s] = Seen(c)]
  BY <1>5, <1>6 DEF CallNow
<1>8. QED
  BY <1>2, <1>4, <1>7

\* A step that takes nothing on and leaves the late batches alone.
LEMMA OnceKept ==
    ASSUME IInv, NEW s \in Stores, NEW c \in Calls, call' = [call EXCEPT ![s] = c],
           c.pc \in Busy => call[s].pc \in Busy,
           c.id = 0 \/ c.id = call[s].id, c.pc \in Busy => c.id = call[s].id,
           UNCHANGED <<calls, late>>
    PROVE  Once'
<1>1. call \in [Stores -> Calls] /\ Once /\ calls \in Nat
  BY DEF IInv, Typed
<1>2. \A t \in Stores : call'[t] = IF t = s THEN c ELSE call[t]
  BY <1>1
<1>3. \A t \in Stores : /\ call'[t].pc \in Busy => call[t].pc \in Busy /\ call'[t].id = call[t].id
                        /\ call'[t].id <= calls
  <2>1. \A t \in Stores : call[t].id <= calls
    BY <1>1 DEF Once
  <2>2. QED
    BY <1>1, <1>2, <2>1
<1>4. \A t \in Stores : call'[t].id <= calls'
  BY <1>3
<1>5. \A t, u \in Stores : t # u /\ call'[t].pc \in Busy /\ call'[u].pc \in Busy => call'[t].id # call'[u].id
  BY <1>1, <1>3 DEF Once
<1>6. \A batch \in late' :
         /\ batch.rows # <<>> /\ Carries(batch) <= calls'
         /\ \A t \in Stores : call'[t].pc \in Busy => call'[t].id # Carries(batch)
  BY <1>1, <1>3 DEF Once
<1>7. \A x, y \in late' : Carries(x) = Carries(y) => x = y
  BY <1>1 DEF Once
<1>8. QED
  BY <1>4, <1>5, <1>6, <1>7 DEF Once

\* A call returns, throws or is answered.
LEMMA CallEnds ==
    ASSUME IInv, NEW s \in Stores, NEW pc \in {"answered", "returned", "threw"},
           NEW d \in Documents \cup {NoDocument}, Answer(s, pc, d)
    PROVE  /\ call' \in [Stores -> Calls] /\ Progress'
           /\ UNCHANGED <<calls, late>> => Once'
           /\ CallNow' = [CallNow EXCEPT ![s] = Index!Ended(IF pc = "threw" THEN "failed" ELSE "done", d)]
           /\ call'[s].id = 0 /\ call'[s].pc \notin Busy
           /\ \A t \in Stores : t # s => call'[t] = call[t]
<1> DEFINE c == Ended(pc, d)
<1>1. c = [op |-> "none", id |-> 0, docs |-> <<>>, pc |-> pc, vectors |-> <<>>, answer |-> d,
           made |-> 0, hurt |-> FALSE]
  BY DEF Ended, Call
<1>2. c \in Calls
  <2>1. <<>> \in Seq(Documents) /\ <<>> \in Seq(Vectors)
    OBVIOUS
  <2>2. QED
    BY <1>1, <2>1 DEF Calls
<1>3. InPlace(c, s)
  BY <1>1 DEF InPlace, Busy
<1>4. call' = [call EXCEPT ![s] = c]
  BY DEF Answer
<1>5. c.pc \notin Busy /\ c.id = 0
  BY <1>1 DEF Busy
<1>6. Seen(c) = Index!Ended(IF pc = "threw" THEN "failed" ELSE "done", d)
  <2>1. Status(c) = IF pc = "threw" THEN "failed" ELSE "done"
    BY <1>1 DEF Status
  <2>2. Seen(c) = [op |-> "none", id |-> 0, docs |-> <<>>,
                   state |-> IF pc = "threw" THEN "failed" ELSE "done", answer |-> d]
    BY <1>1, <2>1 DEF Seen
  <2>3. QED
    BY <2>2 DEF Index!Ended, Index!Call
<1> HIDE DEF c
<1>7. call' \in [Stores -> Calls] /\ Progress' /\ CallNow' = [CallNow EXCEPT ![s] = Seen(c)]
  BY <1>2, <1>3, <1>4, CallChanges
<1>8. UNCHANGED <<calls, late>> => Once'
  BY <1>2, <1>4, <1>5, OnceKept
<1>9. \A t \in Stores : call'[t] = IF t = s THEN c ELSE call[t]
  BY <1>4 DEF IInv, Typed
<1>10. QED
  BY <1>5, <1>6, <1>7, <1>8, <1>9

-----------------------------------------------------------------------------
(* How a step changes what is kept.                                        *)

LEMMA NothingKept ==
    ASSUME IInv, UNCHANGED <<documents, vectors, table, late>>
    PROVE  Together' /\ NoneNoRows' /\ IndexNow' = IndexNow /\ LateNow' = LateNow
BY DEF IInv, Together, NoneNoRows, IndexNow, LateNow

LEMMA IndexLocal ==
    ASSUME IInv, NEW s \in Local, NEW new, documents' = [documents EXCEPT ![s] = new], UNCHANGED table
    PROVE  IndexNow' = [IndexNow EXCEPT ![s] = new]
<1>1. documents \in [Local -> Seq(Entered)]
  BY DEF IInv, Typed
<1>2. \A t \in Local : documents'[t] = IF t = s THEN new ELSE documents[t]
  BY <1>1
<1>3. s \in Local \cup Servers
  OBVIOUS
<1>4. IndexNow' = [b \in Local \cup Servers |-> IF b \in Local THEN documents'[b] ELSE EntriesOf(table[b].rows)]
  BY DEF IndexNow
<1>5. QED
  BY <1>2, <1>3, <1>4 DEF IndexNow

LEMMA IndexRemote ==
    ASSUME IInv, NEW b \in Servers, NEW t, table' = [table EXCEPT ![b] = t], UNCHANGED documents
    PROVE  IndexNow' = [IndexNow EXCEPT ![b] = EntriesOf(t.rows)]
<1>1. table \in [Servers -> Table] /\ \A x \in Servers : x \notin Local
  BY DEF IInv, Typed
<1>2. \A x \in Servers : table'[x] = IF x = b THEN t ELSE table[x]
  BY <1>1
<1>3. IndexNow' = [x \in Local \cup Servers |-> IF x \in Local THEN documents[x] ELSE EntriesOf(table'[x].rows)]
  BY DEF IndexNow
<1>4. \A x \in Servers : EntriesOf(table'[x].rows) = IF x = b THEN EntriesOf(t.rows) ELSE EntriesOf(table[x].rows)
  BY <1>2
<1>5. QED
  BY <1>1, <1>3, <1>4 DEF IndexNow

-----------------------------------------------------------------------------
(* The shapes of the steps of a call.                                      *)

CallsKept == call' \in [Stores -> Calls] /\ Progress' /\ Once'

LEMMA Throws ==
    ASSUME IInv, NEW s \in Stores, call[s].pc \in Busy \cup {"answered"}, Throw(s),
           UNCHANGED <<IndexNow, calls, late>>
    PROVE  CallsKept /\ Index!Operation
<1>1. NoDocument \in Documents \cup {NoDocument} /\ Answer(s, "threw", NoDocument)
  BY DEF Throw
<1>2. CallsKept /\ CallNow' = [CallNow EXCEPT ![s] = Index!Ended("failed", NoDocument)]
  BY <1>1, CallEnds DEF CallsKept
<1>3. CallNow[s].state # "failed"
  BY CallSeen DEF Busy
<1>4. LateNow' = LateNow
  BY DEF LateNow
<1>5. Index!Throw(s)
  BY <1>2, <1>3, <1>4 DEF Index!Throw
<1>6. QED
  BY <1>2, <1>5 DEF Index!Operation

\* A step of a call that its caller cannot see.
LEMMA GoesOn ==
    ASSUME IInv, NEW s \in Stores, NEW c \in Calls, call' = [call EXCEPT ![s] = c], InPlace(c, s),
           c.pc \in Busy => call[s].pc \in Busy, c.id = call[s].id, Seen(c) = Seen(call[s]),
           UNCHANGED <<IndexNow, calls, late>>
    PROVE  CallsKept /\ UNCHANGED Index!shown
<1>1. call' \in [Stores -> Calls] /\ Progress' /\ CallNow' = [CallNow EXCEPT ![s] = Seen(c)]
  BY CallChanges
<1>2. Once'
  BY OnceKept
<1>3. CallNow[s] = Seen(c) /\ CallNow' = CallNow
  BY <1>1 DEF CallNow
<1>4. LateNow' = LateNow
  BY DEF LateNow
<1>5. QED
  BY <1>1, <1>2, <1>3, <1>4 DEF Index!shown, CallsKept

LEMMA AddsDone ==
    ASSUME IInv, NEW s \in Stores, NEW pc \in {"answered", "returned"}, call[s].pc \in Busy, Adds(s),
           Answer(s, pc, NoDocument),
           IndexNow' = [IndexNow EXCEPT ![Home[s]] = @ \o [i \in DOMAIN call[s].docs |-> Entry(call[s].docs[i], call[s].id)]],
           UNCHANGED <<calls, late>>
    PROVE  CallsKept /\ Index!Operation
<1>1. NoDocument \in Documents \cup {NoDocument}
  OBVIOUS
<1>2. CallsKept /\ CallNow' = [CallNow EXCEPT ![s] = Index!Ended("done", NoDocument)]
  BY <1>1, CallEnds DEF CallsKept
<1>3. Index!Pending(s) /\ CallNow[s].op = "add"
  BY CallSeen DEF Adds
<1>4. Index!Entries(CallNow[s]) = [i \in DOMAIN call[s].docs |-> Entry(call[s].docs[i], call[s].id)]
  BY CallSeen DEF Index!Entries, Index!Entry, Entry
<1>5. LateNow' = LateNow
  BY DEF LateNow
<1>6. Index!Add(s)
  BY <1>2, <1>3, <1>4, <1>5 DEF Index!Add
<1>7. QED
  BY <1>2, <1>6 DEF Index!Operation

LEMMA SearchDone ==
    ASSUME IInv, NEW s \in Stores, NEW pc \in {"answered", "returned"}, call[s].pc \in Busy, ~Adds(s),
           NEW d \in Documents \cup {NoDocument}, Answer(s, pc, d),
           d \in Index!Nearest(IndexNow[Home[s]], call[s].docs[1]),
           UNCHANGED <<IndexNow, calls, late>>
    PROVE  CallsKept /\ Index!Operation
<1>1. CallsKept /\ CallNow' = [CallNow EXCEPT ![s] = Index!Ended("done", d)]
  BY CallEnds DEF CallsKept
<1>2. Index!Pending(s) /\ CallNow[s].op = "search" /\ CallNow[s].docs = call[s].docs
  BY CallSeen DEF Adds, InPlace
<1>3. LateNow' = LateNow
  BY DEF LateNow
<1>4. Index!Search(s)
  BY <1>1, <1>2, <1>3 DEF Index!Search
<1>5. QED
  BY <1>1, <1>4 DEF Index!Operation

LEMMA EmptyIsNearest == ASSUME NEW query PROVE NoDocument \in Index!Nearest(<<>>, query)
<1>1. {<<>>[i].document : i \in DOMAIN <<>>} = {}
  OBVIOUS
<1>2. QED
  BY <1>1 DEF Index!Nearest

-----------------------------------------------------------------------------
LEMMA InitIInv == Init => IInv /\ Index!Init
<1> SUFFICES ASSUME Init PROVE IInv /\ Index!Init
  OBVIOUS
<1>2. \A b \in Servers : table[b].size = 0 /\ table[b].rows = <<>> /\ table[b] = NoTable
  BY DEF Init, NoTable
<1>3. NoTable \in Table
  <2>1. <<>> \in Seq(Row)
    OBVIOUS
  <2>2. QED
    BY <2>1 DEF NoTable, Table
<1>4. Ended("returned", NoDocument) \in Calls
  <2>1. <<>> \in Seq(Documents) /\ <<>> \in Seq(Vectors)
    OBVIOUS
  <2>2. QED
    BY <2>1 DEF Calls, Ended, Call
<1>5. \A s \in Stores : call[s] = Ended("returned", NoDocument)
  BY DEF Init
<1>6. Typed
  <2>1. <<>> \in Seq(Entered) /\ <<>> \in Seq(Vectors)
    OBVIOUS
  <2>2. documents \in [Local -> Seq(Entered)] /\ vectors \in [Local -> Seq(Vectors)]
    BY <2>1 DEF Init
  <2>3. table \in [Servers -> Table] /\ call \in [Stores -> Calls]
    BY <1>3, <1>4 DEF Init
  <2>4. QED
    BY <2>2, <2>3 DEF Init, Typed
<1>7. Ended("returned", NoDocument).pc = "returned" /\ Ended("returned", NoDocument).id = 0
      /\ Ended("returned", NoDocument).op = "none"
  BY DEF Ended, Call
<1>8. Progress
  BY <1>5, <1>7 DEF Progress, InPlace, Busy
<1>9. Together /\ NoneNoRows
  BY <1>2 DEF Init, Together, Matched, NoneNoRows
<1>10. Once
  BY <1>5, <1>7 DEF Init, Once, Busy
<1>11. Index!Init
  <2>1. Seen(Ended("returned", NoDocument)) = Index!Ended("done", NoDocument)
    BY DEF Seen, Status, Ended, Call, Index!Ended, Index!Call
  <2>2. EntriesOf(<<>>) = <<>>
    BY DEF EntriesOf
  <2>3. IndexNow = [b \in Local \cup Servers |-> <<>>]
    BY <1>2, <2>2 DEF Init, IndexNow
  <2>4. CallNow = [s \in Stores |-> Index!Ended("done", NoDocument)]
    BY <1>5, <2>1 DEF CallNow
  <2>5. LateNow = {}
    BY DEF Init, LateNow
  <2>6. QED
    BY <2>3, <2>4, <2>5 DEF Init, Index!Init
<1>12. QED
  BY <1>6, <1>8, <1>9, <1>10, <1>11 DEF IInv

-----------------------------------------------------------------------------
(* One lemma for every action: it keeps the invariant, and it is a step of  *)
(* the index or none.                                                       *)
Simulates ==
    /\ IInv'
    /\ Index!Operation \/ UNCHANGED Index!shown \/ \E s \in Qdrant : Index!SearchBlind(s)

LEMMA StartStep ==
    ASSUME IInv, NEW s \in Stores, NEW op, NEW docs, Start(s, op, docs),
           \/ op = "add" /\ docs \in Batches
           \/ op = "search" /\ \E d \in Documents : docs = <<d>>
    PROVE  Simulates
<1> DEFINE m == IF s \in Remote THEN made[Home[s]] ELSE 0
           c == Call(op, calls + 1, docs, "started", NoDocument, m)
<1>1. /\ call' = [call EXCEPT ![s] = c] /\ calls' = calls + 1
      /\ UNCHANGED <<documents, vectors, dimension, table, made, late>>
      /\ call[s].pc \notin Busy
  BY DEF Start, object, server, Running, Busy
<1>2. docs \in Seq(Documents) /\ op \in {"add", "search"} /\ (op = "search" => Len(docs) = 1)
  <2>1. \A d \in Documents : <<d>> \in Seq(Documents) /\ Len(<<d>>) = 1
    OBVIOUS
  <2>2. QED
    BY <2>1
<1>3. /\ c.op = op /\ c.id = calls + 1 /\ c.docs = docs /\ c.pc = "started" /\ c.vectors = <<>>
      /\ c.answer = NoDocument
  BY DEF Call
<1>4. m \in Nat
  BY HomeOf DEF IInv, Typed
<1>5. c \in Calls
  <2>1. <<>> \in Seq(Vectors) /\ calls + 1 \in Nat
    BY DEF IInv, Typed
  <2>2. QED
    BY <1>2, <1>4, <2>1 DEF Calls, Call, Busy
<1>6. InPlace(c, s)
  BY <1>2, <1>3 DEF InPlace
<1>7. Seen(c) = Index!Call(op, calls + 1, docs, "pending", NoDocument)
  BY <1>3 DEF Seen, Status, Index!Call
<1> HIDE DEF c, m
<1>8. call' \in [Stores -> Calls] /\ Progress' /\ CallNow' = [CallNow EXCEPT ![s] = Seen(c)]
  BY <1>1, <1>5, <1>6, CallChanges
<1>9. Once'
  <2>1. call \in [Stores -> Calls] /\ Once /\ calls \in Nat /\ \A t \in Stores : call[t].id \in Nat
    BY DEF IInv, Typed, Calls
  <2>2. \A t \in Stores : call'[t] = IF t = s THEN c ELSE call[t]
    BY <1>1, <2>1
  <2>3. \A t \in Stores : call'[t].id <= calls'
    BY <1>1, <1>3, <2>1, <2>2 DEF Once
  <2>4. ASSUME NEW t \in Stores, NEW u \in Stores, t # u, call'[t].pc \in Busy, call'[u].pc \in Busy
        PROVE  call'[t].id # call'[u].id
    <3>1. \A v \in Stores : call[v].id <= calls
      BY <2>1 DEF Once
    <3>2. CASE t # s /\ u # s
      BY <2>1, <2>2, <2>4, <3>2 DEF Once
    <3>3. CASE t = s \/ u = s
      BY <1>3, <2>1, <2>2, <2>4, <3>1, <3>3
    <3>4. QED
      BY <3>2, <3>3
  <2>5. ASSUME NEW batch \in late
        PROVE  /\ batch.rows # <<>> /\ Carries(batch) <= calls'
               /\ \A t \in Stores : call'[t].pc \in Busy => call'[t].id # Carries(batch)
    <3>1. batch.rows # <<>> /\ Carries(batch) <= calls /\ Carries(batch) \in Nat
      <4>1. batch.rows \in Seq(Row) /\ batch.rows # <<>> /\ Carries(batch) <= calls
        BY <2>1 DEF Once, IInv, Typed
      <4>2. batch.rows[1] \in Row
        BY <4>1
      <4>3. QED
        BY <4>1, <4>2 DEF Carries, Row, Entered
    <3>2. \A t \in Stores : call[t].pc \in Busy => call[t].id # Carries(batch)
      BY <2>1 DEF Once
    <3>3. QED
      BY <1>1, <1>3, <2>1, <2>2, <3>1, <3>2
  <2>6. \A x, y \in late' : Carries(x) = Carries(y) => x = y
    BY <1>1, <2>1 DEF Once
  <2>7. QED
    BY <1>1, <2>3, <2>4, <2>5, <2>6 DEF Once
<1>10. Together' /\ NoneNoRows' /\ IndexNow' = IndexNow /\ LateNow' = LateNow
  BY <1>1, NothingKept
<1>11. IInv'
  BY <1>1, <1>8, <1>9, <1>10 DEF IInv, Typed
<1>12. Index!Begin(s, op, docs)
  <2>1. ~Index!Pending(s)
    BY <1>1, CallSeen
  <2>2. QED
    BY <1>1, <1>7, <1>8, <1>10, <2>1 DEF Index!Begin
<1>13. Index!Operation
  BY <1>12 DEF Index!Operation
<1>14. QED
  BY <1>11, <1>13 DEF Simulates

\* The two ways in which a step that touches nothing but its call may end.
LEMMA OnlyCall ==
    ASSUME IInv, CallsKept, UNCHANGED <<documents, vectors, dimension, table, made, late, calls>>
    PROVE  IInv'
<1>1. Together' /\ NoneNoRows'
  BY NothingKept
<1>2. QED
  BY <1>1 DEF IInv, Typed, CallsKept

LEMMA OnlyThrows ==
    ASSUME IInv, NEW s \in Stores, call[s].pc \in Busy \cup {"answered"}, Throw(s),
           UNCHANGED <<documents, vectors, dimension, table, made, late, calls>>
    PROVE  Simulates
<1>1. IndexNow' = IndexNow
  BY NothingKept
<1>2. CallsKept /\ Index!Operation
  BY <1>1, Throws
<1>3. QED
  BY <1>2, OnlyCall DEF Simulates

LEMMA EmbedThrowsStep ==
    ASSUME IInv, NEW s \in Stores, EmbedThrows(s) PROVE Simulates
<1>1. Throw(s) /\ call[s].pc \in Busy
      /\ UNCHANGED <<documents, vectors, dimension, table, made, late, calls>>
  BY DEF EmbedThrows, At, Busy, object, server
<1>2. QED
  BY <1>1, OnlyThrows

LEMMA EmbedStep ==
    ASSUME IInv, NEW s \in Stores, Embed(s) PROVE Simulates
<1>1. PICK sizes \in [DOMAIN call[s].docs -> Sizes] :
        call' = [call EXCEPT ![s] = [@ EXCEPT
                    !.vectors = [i \in DOMAIN sizes |-> [text |-> call[s].docs[i], size |-> sizes[i]]],
                    !.pc = CASE s \in Local -> "local"
                             [] s \in Remote -> IF ready[s] THEN "request" ELSE "check"]]
  BY DEF Embed
<1>2. call[s].pc = "started" /\ ~NothingToDo(s)
      /\ UNCHANGED <<documents, vectors, dimension, table, made, late, calls>>
  BY DEF Embed, At, object, server
<1>3. call \in [Stores -> Calls] /\ call[s] \in Calls /\ InPlace(call[s], s)
  BY DEF IInv, Typed, Progress
<1> DEFINE vs == [i \in DOMAIN call[s].docs |-> [text |-> call[s].docs[i], size |-> sizes[i]]]
           pc == CASE s \in Local -> "local" [] s \in Remote -> IF ready[s] THEN "request" ELSE "check"
           c == [call[s] EXCEPT !.vectors = vs, !.pc = pc]
<1>4. DOMAIN sizes = DOMAIN call[s].docs
  OBVIOUS
<1>5. call' = [call EXCEPT ![s] = c]
  BY <1>1, <1>3, <1>4
<1>6. vs \in Seq(Vectors)
  <2>1. call[s].docs \in Seq(Documents)
    BY <1>3 DEF Calls
  <2>2. PICK n \in Nat : DOMAIN call[s].docs = 1..n
    BY <2>1
  <2>3. \A i \in 1..n : [text |-> call[s].docs[i], size |-> sizes[i]] \in Vectors
    BY <2>1, <2>2 DEF Vectors
  <2>4. QED
    BY <2>2, <2>3
<1>7. /\ pc \in {"local", "check", "request"} /\ (pc = "local" => s \in Local)
      /\ (pc \in {"check", "request"} => s \in Remote)
  BY HomeOf
<1>8. /\ DOMAIN vs = DOMAIN call[s].docs
      /\ \A i \in DOMAIN call[s].docs : vs[i].text = call[s].docs[i]
  OBVIOUS
<1> HIDE DEF vs, pc
<1>9. c \in Calls
  BY <1>3, <1>6, <1>7 DEF Calls, Busy
<1>10. c.vectors = vs /\ c.pc = pc /\ c.op = call[s].op /\ c.id = call[s].id /\ c.docs = call[s].docs
       /\ c.answer = call[s].answer
  BY <1>3 DEF Calls
<1> HIDE DEF c
<1>11. InPlace(c, s)
  <2>1. c.op \in {"add", "search"} /\ (c.op = "search" => Len(c.docs) = 1)
    BY <1>2, <1>3, <1>10 DEF InPlace, Busy
  <2>2. s \notin InMemory => c.docs # <<>>
    <3>1. call[s].op = "search" => call[s].docs # <<>>
      <4>1. call[s].docs = <<>> => Len(call[s].docs) # 1
        OBVIOUS
      <4>2. call[s].op = "search" => Len(call[s].docs) = 1
        BY <1>10, <2>1
      <4>3. QED
        BY <4>1, <4>2
    <3>2. QED
      BY <1>2, <1>10, <2>1, <3>1 DEF NothingToDo, Adds
  <2>3. QED
    BY <1>7, <1>8, <1>10, <2>1, <2>2 DEF InPlace
<1>12. c.pc \in Busy /\ call[s].pc \in Busy
  BY <1>2, <1>7, <1>10 DEF Busy
<1>13. Seen(c) = Seen(call[s])
  <2>1. Status(c) = Status(call[s])
    BY <1>2, <1>7, <1>10 DEF Status
  <2>2. QED
    BY <1>10, <2>1 DEF Seen
<1>14. IndexNow' = IndexNow
  BY <1>2, NothingKept
<1>15. CallsKept /\ UNCHANGED Index!shown
  BY <1>2, <1>5, <1>9, <1>10, <1>11, <1>12, <1>13, <1>14, GoesOn
<1>16. QED
  BY <1>2, <1>15, OnlyCall DEF Simulates

LEMMA IndexTyped ==
    ASSUME IInv, NEW s \in Stores
    PROVE  /\ DOMAIN IndexNow = Local \cup Servers /\ Home[s] \in Local \cup Servers
           /\ IndexNow[Home[s]] \in Seq(Entered)
           /\ s \in Local => IndexNow[Home[s]] = documents[s]
           /\ s \in Remote => IndexNow[Home[s]] = EntriesOf(Tbl(s).rows)
<1>1. Home[s] \in Local \cup Servers /\ (s \in Local => Home[s] = s) /\ (s \in Remote => Home[s] \in Servers)
  BY HomeOf
<1>2. s \in Local => IndexNow[Home[s]] = documents[s]
  BY <1>1 DEF IndexNow
<1>3. s \in Remote => IndexNow[Home[s]] = EntriesOf(Tbl(s).rows)
  BY <1>1 DEF IndexNow, Tbl
<1>4. s \in Local => documents[s] \in Seq(Entered)
  BY DEF IInv, Typed
<1>5. s \in Remote => EntriesOf(Tbl(s).rows) \in Seq(Entered)
  <2>1. s \in Remote => Tbl(s).rows \in Seq(Row)
    BY <1>1 DEF IInv, Typed, Table, Tbl
  <2>2. QED
    BY <2>1, EntriesOfTyped
<1>6. QED
  BY <1>1, <1>2, <1>3, <1>4, <1>5, HomeOf DEF IndexNow

LEMMA ReturnAtOnceStep ==
    ASSUME IInv, NEW s \in Stores, ReturnAtOnce(s) PROVE Simulates
<1>1. call[s].pc \in Busy /\ NothingToDo(s) /\ Answer(s, "returned", NoDocument)
      /\ UNCHANGED <<documents, vectors, dimension, table, made, late, calls>>
  BY DEF ReturnAtOnce, At, Busy, Return, object, server
<1>2. IndexNow' = IndexNow
  BY <1>1, NothingKept
<1>3. CASE Adds(s)
  <2>1. call[s].docs = <<>>
    BY <1>1, <1>3 DEF NothingToDo
  <2>2. [i \in DOMAIN call[s].docs |-> Entry(call[s].docs[i], call[s].id)] = <<>>
    BY <2>1
  <2>3. IndexNow[Home[s]] \o <<>> = IndexNow[Home[s]]
    BY IndexTyped
  <2>4. IndexNow = [b \in Local \cup Servers |-> IndexNow[b]]
    BY DEF IndexNow
  <2>5. IndexNow' = [IndexNow EXCEPT ![Home[s]] = @ \o [i \in DOMAIN call[s].docs |-> Entry(call[s].docs[i], call[s].id)]]
    BY <1>2, <2>2, <2>3, <2>4
  <2>6. CallsKept /\ Index!Operation
    BY <1>1, <1>3, <2>5, AddsDone
  <2>7. QED
    BY <1>1, <2>6, OnlyCall DEF Simulates
<1>4. CASE ~Adds(s)
  <2>1. IndexNow[Home[s]] = <<>>
    BY <1>1, <1>4, IndexTyped DEF NothingToDo, Local
  <2>2. NoDocument \in Index!Nearest(IndexNow[Home[s]], call[s].docs[1])
    BY <2>1, EmptyIsNearest
  <2>3. CallsKept /\ Index!Operation
    BY <1>1, <1>2, <1>4, <2>2, SearchDone
  <2>4. QED
    BY <1>1, <2>3, OnlyCall DEF Simulates
<1>5. QED
  BY <1>3, <1>4

LEMMA Joined ==
    ASSUME NEW S, NEW old \in Seq(S), NEW new \in Seq(S)
    PROVE  /\ DOMAIN (old \o new) = 1..(Len(old) + Len(new))
           /\ \A i \in 1..(Len(old) + Len(new)) :
                 (old \o new)[i] = IF i <= Len(old) THEN old[i] ELSE new[i - Len(old)]
OBVIOUS

\* A local store keeps the documents and the vectors of a call together.
LEMMA Kept ==
    ASSUME IInv, NEW s \in Local, At(s, "local"), Keep(s), UNCHANGED <<table, late>>
    PROVE  /\ documents' \in [Local -> Seq(Entered)] /\ vectors' \in [Local -> Seq(Vectors)]
           /\ Together' /\ NoneNoRows'
           /\ IndexNow' = [IndexNow EXCEPT ![Home[s]] =
                              @ \o [i \in DOMAIN call[s].docs |-> Entry(call[s].docs[i], call[s].id)]]
<1> DEFINE new == [i \in DOMAIN call[s].docs |-> Entry(call[s].docs[i], call[s].id)]
<1>1. s \in Stores /\ Home[s] = s /\ call[s] \in Calls /\ InPlace(call[s], s)
  BY HomeOf, CallSeen
<1>2. /\ DOMAIN call[s].vectors = DOMAIN call[s].docs
      /\ \A i \in DOMAIN call[s].docs : call[s].vectors[i].text = call[s].docs[i]
  BY <1>1 DEF At, InPlace
<1>3. new \in Seq(Entered) /\ call[s].vectors \in Seq(Vectors) /\ call[s].docs \in Seq(Documents)
  BY <1>1, EntriesTyped DEF Calls
<1>4. documents[s] \in Seq(Entered) /\ vectors[s] \in Seq(Vectors)
      /\ documents \in [Local -> Seq(Entered)] /\ vectors \in [Local -> Seq(Vectors)]
  BY DEF IInv, Typed
<1>5. /\ DOMAIN new = DOMAIN call[s].vectors
      /\ \A i \in DOMAIN new : call[s].vectors[i].text = new[i].document
  BY <1>2 DEF Entry
<1> HIDE DEF new
<1>6. /\ documents' = [documents EXCEPT ![s] = documents[s] \o new]
      /\ vectors' = [vectors EXCEPT ![s] = vectors[s] \o call[s].vectors]
  BY DEF Keep, new
<1>7. documents' \in [Local -> Seq(Entered)] /\ vectors' \in [Local -> Seq(Vectors)]
  <2>1. documents[s] \o new \in Seq(Entered) /\ vectors[s] \o call[s].vectors \in Seq(Vectors)
    BY <1>3, <1>4
  <2>2. QED
    BY <1>4, <1>6, <2>1
<1>8. /\ DOMAIN (documents[s] \o new) = DOMAIN (vectors[s] \o call[s].vectors)
      /\ \A i \in DOMAIN (vectors[s] \o call[s].vectors) :
            (vectors[s] \o call[s].vectors)[i].text = (documents[s] \o new)[i].document
  <2>1. /\ DOMAIN documents[s] = DOMAIN vectors[s]
        /\ \A i \in DOMAIN vectors[s] : vectors[s][i].text = documents[s][i].document
    BY DEF IInv, Together
  <2>2. /\ DOMAIN documents[s] = 1..Len(documents[s]) /\ DOMAIN vectors[s] = 1..Len(vectors[s])
        /\ DOMAIN new = 1..Len(new) /\ DOMAIN call[s].vectors = 1..Len(call[s].vectors)
        /\ Len(documents[s]) \in Nat /\ Len(vectors[s]) \in Nat /\ Len(new) \in Nat /\ Len(call[s].vectors) \in Nat
    BY <1>3, <1>4
  <2>3. Len(documents[s]) = Len(vectors[s]) /\ Len(new) = Len(call[s].vectors)
    <3>1. \A m, n \in Nat : 1..m = 1..n => m = n
      OBVIOUS
    <3>2. QED
      BY <1>5, <2>1, <2>2, <3>1
  <2>4. /\ DOMAIN (documents[s] \o new) = 1..(Len(documents[s]) + Len(new))
        /\ DOMAIN (vectors[s] \o call[s].vectors) = 1..(Len(documents[s]) + Len(new))
    <3>1. DOMAIN (documents[s] \o new) = 1..(Len(documents[s]) + Len(new))
      BY <1>3, <1>4, Joined
    <3>2. DOMAIN (vectors[s] \o call[s].vectors) = 1..(Len(vectors[s]) + Len(call[s].vectors))
      BY <1>3, <1>4, Joined
    <3>3. QED
      BY <2>3, <3>1, <3>2
  <2>5. ASSUME NEW i \in 1..(Len(documents[s]) + Len(new))
        PROVE  (vectors[s] \o call[s].vectors)[i].text = (documents[s] \o new)[i].document
    <3> DEFINE n == Len(documents[s])
    <3>1. (documents[s] \o new)[i] = IF i <= n THEN documents[s][i] ELSE new[i - n]
      BY <1>3, <1>4, Joined
    <3>2. (vectors[s] \o call[s].vectors)[i] = IF i <= n THEN vectors[s][i] ELSE call[s].vectors[i - n]
      <4>1. i \in 1..(Len(vectors[s]) + Len(call[s].vectors))
        BY <2>3
      <4>2. QED
        BY <1>3, <1>4, <2>3, <4>1, Joined
    <3>3. (i <= n => i \in DOMAIN vectors[s]) /\ (~(i <= n) => i - n \in DOMAIN new)
      <4>1. i \in Nat /\ 1 <= i /\ i <= n + Len(new) /\ n \in Nat /\ Len(new) \in Nat
        BY <2>2
      <4>2. i <= n => i \in 1..n
        BY <4>1
      <4>3. ~(i <= n) => i - n \in 1..Len(new)
        BY <4>1
      <4>4. QED
        BY <2>2, <2>3, <4>2, <4>3
    <3> HIDE DEF n
    <3>4. CASE i <= n
      BY <2>1, <3>1, <3>2, <3>3, <3>4
    <3>5. CASE ~(i <= n)
      BY <1>5, <3>1, <3>2, <3>3, <3>5
    <3>6. QED
      BY <3>4, <3>5
  <2>6. QED
    BY <2>4, <2>5
<1>9. Together'
  <2>1. \A t \in Local : /\ documents'[t] = IF t = s THEN documents[s] \o new ELSE documents[t]
                         /\ vectors'[t] = IF t = s THEN vectors[s] \o call[s].vectors ELSE vectors[t]
    BY <1>4, <1>6
  <2>2. ASSUME NEW t \in Local
        PROVE  /\ DOMAIN documents'[t] = DOMAIN vectors'[t]
               /\ \A i \in DOMAIN vectors'[t] : vectors'[t][i].text = documents'[t][i].document
    <3>1. CASE t = s
      BY <1>8, <2>1, <3>1
    <3>2. CASE t # s
      <4>1. documents'[t] = documents[t] /\ vectors'[t] = vectors[t]
        BY <2>1, <3>2
      <4>2. QED
        BY <4>1 DEF IInv, Together
    <3>3. QED
      BY <3>1, <3>2
  <2>3. QED
    BY <2>2 DEF IInv, Together
<1>10. NoneNoRows'
  BY DEF IInv, NoneNoRows
<1>11. IndexNow' = [IndexNow EXCEPT ![Home[s]] = @ \o new]
  <2>1. IndexNow' = [IndexNow EXCEPT ![s] = documents[s] \o new]
    BY <1>6, IndexLocal
  <2>2. IndexNow[s] = documents[s]
    BY <1>1, IndexTyped
  <2>3. QED
    BY <1>1, <2>1, <2>2
<1>12. QED
  BY <1>7, <1>9, <1>10, <1>11 DEF new

LEMMA KeptAndReturned ==
    ASSUME IInv, NEW s \in Local, At(s, "local"), Adds(s), Keep(s), Return(s),
           dimension' \in [Faiss -> Sizes \cup {0}], UNCHANGED <<table, made, late, calls>>
    PROVE  Simulates
<1>1. s \in Stores /\ call[s].pc \in Busy /\ Answer(s, "returned", NoDocument)
  BY HomeOf DEF At, Busy, Return
<1>2. /\ documents' \in [Local -> Seq(Entered)] /\ vectors' \in [Local -> Seq(Vectors)]
      /\ Together' /\ NoneNoRows'
      /\ IndexNow' = [IndexNow EXCEPT ![Home[s]] =
                         @ \o [i \in DOMAIN call[s].docs |-> Entry(call[s].docs[i], call[s].id)]]
  BY Kept
<1>3. CallsKept /\ Index!Operation
  BY <1>1, <1>2, AddsDone
<1>4. IInv'
  BY <1>2, <1>3 DEF IInv, Typed, CallsKept
<1>5. QED
  BY <1>3, <1>4 DEF Simulates

LEMMA AddInMemoryStep ==
    ASSUME IInv, NEW s \in Local, AddInMemory(s) PROVE Simulates
<1>1. At(s, "local") /\ Adds(s) /\ Keep(s) /\ Return(s) /\ UNCHANGED <<dimension, table, made, late, calls>>
  BY DEF AddInMemory, server
<1>2. dimension' \in [Faiss -> Sizes \cup {0}]
  BY <1>1 DEF IInv, Typed
<1>3. QED
  BY <1>1, <1>2, KeptAndReturned

LEMMA AddFaissStep ==
    ASSUME IInv, NEW s \in Local, AddFaiss(s) PROVE Simulates
<1> DEFINE d == IF dimension[s] = 0 THEN call[s].vectors[1].size ELSE dimension[s]
<1>1. /\ At(s, "local") /\ Adds(s) /\ s \in Faiss /\ s \in Stores
      /\ dimension' = [dimension EXCEPT ![s] = d]
      /\ IF OneSize(s, d) THEN Keep(s) /\ Return(s) ELSE UNCHANGED <<documents, vectors>> /\ Throw(s)
      /\ UNCHANGED <<table, made, late, calls>>
  BY HomeOf DEF AddFaiss, server
<1>2. d \in Sizes \cup {0}
  <2>1. call[s] \in Calls /\ InPlace(call[s], s)
    BY <1>1, CallSeen
  <2>2. call[s].vectors \in Seq(Vectors) /\ call[s].docs \in Seq(Documents) /\ call[s].docs # <<>>
        /\ DOMAIN call[s].vectors = DOMAIN call[s].docs
    BY <1>1, <2>1 DEF Calls, InPlace, At
  <2>3. call[s].vectors[1] \in Vectors
    <3>1. 1 \in DOMAIN call[s].docs
      BY <2>2
    <3>2. QED
      BY <2>2, <3>1
  <2>4. QED
    BY <1>1, <2>3 DEF IInv, Typed, Vectors
<1> HIDE DEF d
<1>3. dimension' \in [Faiss -> Sizes \cup {0}]
  BY <1>1, <1>2 DEF IInv, Typed
<1>4. CASE OneSize(s, d)
  BY <1>1, <1>3, <1>4, KeptAndReturned
<1>5. CASE ~OneSize(s, d)
  <2>1. Together' /\ NoneNoRows' /\ IndexNow' = IndexNow
    BY <1>1, <1>5, NothingKept
  <2>2. CallsKept /\ Index!Operation
    BY <1>1, <1>5, <2>1, Throws DEF At, Busy
  <2>3. IInv'
    BY <1>1, <1>3, <1>5, <2>1, <2>2 DEF IInv, Typed, CallsKept
  <2>4. QED
    BY <2>2, <2>3 DEF Simulates
<1>6. QED
  BY <1>4, <1>5

LEMMA SearchLocalStep ==
    ASSUME IInv, NEW s \in Local, SearchLocal(s) PROVE Simulates
<1>1. /\ s \in Stores /\ call[s].pc \in Busy /\ ~Adds(s)
      /\ UNCHANGED <<documents, vectors, dimension, table, made, late, calls>>
  BY HomeOf DEF SearchLocal, At, Busy, object, server
<1>2. IndexNow' = IndexNow /\ IndexNow[Home[s]] = documents[s]
  BY <1>1, NothingKept, IndexTyped
<1>3. CASE Throw(s)
  BY <1>1, <1>3, OnlyThrows
<1>4. CASE documents[s] = <<>> /\ Return(s)
  <2>1. NoDocument \in Index!Nearest(IndexNow[Home[s]], call[s].docs[1])
    BY <1>2, <1>4, EmptyIsNearest
  <2>2. Answer(s, "returned", NoDocument)
    BY <1>4 DEF Return
  <2>3. CallsKept /\ Index!Operation
    BY <1>1, <1>2, <2>1, <2>2, SearchDone
  <2>4. QED
    BY <1>1, <2>3, OnlyCall DEF Simulates
<1>5. ASSUME NEW i \in Ranked(Texts(vectors[s]), call[s].docs[1]),
             Answer(s, "returned", documents[s][i].document)
      PROVE  Simulates
  <2>1. /\ documents[s] \in Seq(Entered) /\ DOMAIN Texts(vectors[s]) = DOMAIN documents[s]
        /\ \A j \in DOMAIN documents[s] : Texts(vectors[s])[j] = documents[s][j].document
    BY DEF IInv, Typed, Together, Texts
  <2>2. documents[s][i].document \in Index!Nearest(documents[s], call[s].docs[1])
    BY <2>1, RankedIsNearest
  <2>3. i \in DOMAIN documents[s]
    BY <2>1 DEF Ranked
  <2>4. documents[s][i] \in Entered
    BY <2>1, <2>3
  <2>5. documents[s][i].document \in Documents \cup {NoDocument}
    BY <2>4 DEF Entered
  <2>6. CallsKept /\ Index!Operation
    BY <1>1, <1>2, <1>5, <2>2, <2>5, SearchDone
  <2>7. QED
    BY <1>1, <2>6, OnlyCall DEF Simulates
<1>6. QED
  BY <1>3, <1>4, <1>5 DEF SearchLocal

-----------------------------------------------------------------------------
(* The stores behind a server.                                             *)

LEMMA UnusableStep ==
    ASSUME IInv, NEW s \in Remote, Unusable(s) PROVE Simulates
<1>1. /\ s \in Stores /\ call[s].pc \in Busy \cup {"answered"} /\ Throw(s)
      /\ UNCHANGED <<documents, vectors, dimension, table, made, late, calls>>
  BY HomeOf DEF Unusable, Busy, object, server
<1>2. QED
  BY <1>1, OnlyThrows

\* A call goes on to create the table or to make its request.
LEMMA Moves ==
    ASSUME IInv, NEW s \in Remote, call[s].pc \in {"check", "create"}, NEW pc \in {"create", "request"},
           pc = "create" => Adds(s), NEW c \in Calls, call' = [call EXCEPT ![s] = c], c.pc = pc,
           c.op = call[s].op, c.id = call[s].id, c.docs = call[s].docs, c.answer = call[s].answer,
           c.vectors = call[s].vectors, UNCHANGED <<IndexNow, calls, late>>
    PROVE  CallsKept /\ UNCHANGED Index!shown
<1>1. s \in Stores /\ call[s] \in Calls /\ InPlace(call[s], s)
  BY HomeOf, CallSeen
<1>2. InPlace(c, s)
  BY <1>1 DEF InPlace, Busy, Adds
<1>3. c.pc \in Busy /\ call[s].pc \in Busy
  BY DEF Busy
<1>4. Status(c) = Status(call[s])
  BY DEF Status
<1>5. Seen(c) = Seen(call[s])
  BY <1>4 DEF Seen
<1>6. QED
  BY <1>1, <1>2, <1>3, <1>5, GoesOn

LEMMA Goes ==
    ASSUME IInv, NEW s \in Remote, call[s].pc \in {"check", "create"}, NEW pc \in {"create", "request"},
           pc = "create" => Adds(s), Goto(s, pc), UNCHANGED <<IndexNow, calls, late>>
    PROVE  CallsKept /\ UNCHANGED Index!shown
<1> DEFINE c == [call[s] EXCEPT !.pc = pc]
<1>1. call[s] \in Calls
  BY HomeOf, CallSeen
<1>2. c \in Calls
  BY <1>1 DEF Calls, Busy
<1>3. /\ c.pc = pc /\ c.op = call[s].op /\ c.id = call[s].id /\ c.docs = call[s].docs
      /\ c.answer = call[s].answer /\ c.vectors = call[s].vectors
  BY <1>1 DEF Calls
<1>4. call' = [call EXCEPT ![s] = c]
  BY DEF Goto
<1> HIDE DEF c
<1>5. QED
  BY <1>2, <1>3, <1>4, Moves

LEMMA CheckStep ==
    ASSUME IInv, NEW s \in Remote, Check(s) PROVE Simulates
<1>1. /\ s \in Stores /\ call[s].pc = "check"
      /\ IF Tbl(s).size # 0 THEN Goto(s, "request") ELSE IF Adds(s) THEN Goto(s, "create") ELSE Return(s)
      /\ UNCHANGED <<documents, vectors, dimension, table, made, late, calls>>
  BY HomeOf DEF Check, At, object, server
<1>2. IndexNow' = IndexNow
  BY <1>1, NothingKept
<1>3. CASE Tbl(s).size # 0 \/ Adds(s)
  <2>1. CASE Goto(s, "request")
    BY <1>1, <1>2, <2>1, Goes, OnlyCall DEF Simulates
  <2>2. CASE Adds(s) /\ Goto(s, "create")
    BY <1>1, <1>2, <2>2, Goes, OnlyCall DEF Simulates
  <2>3. QED
    BY <1>1, <1>3, <2>1, <2>2
<1>4. CASE Tbl(s).size = 0 /\ ~Adds(s)
  <2>1. IndexNow[Home[s]] = <<>>
    <3>1. Tbl(s).rows = <<>>
      BY <1>4, HomeOf DEF IInv, NoneNoRows, Tbl
    <3>2. IndexNow[Home[s]] = EntriesOf(<<>>)
      BY <1>1, <3>1, IndexTyped
    <3>3. QED
      BY <3>2 DEF EntriesOf
  <2>2. NoDocument \in Index!Nearest(IndexNow[Home[s]], call[s].docs[1])
    BY <2>1, EmptyIsNearest
  <2>3. call[s].pc \in Busy /\ Answer(s, "returned", NoDocument)
    BY <1>1, <1>4 DEF Busy, Return
  <2>4. CallsKept /\ Index!Operation
    BY <1>1, <1>2, <1>4, <2>2, <2>3, SearchDone
  <2>5. QED
    BY <1>1, <2>4, OnlyCall DEF Simulates
<1>5. QED
  BY <1>3, <1>4

\* A search that returns here has not looked at the index.
LEMMA CheckFailsStep ==
    ASSUME IInv, NEW s \in Remote, CheckFails(s) PROVE Simulates
<1>1. /\ s \in Stores /\ call[s].pc = "check" /\ call[s].pc \in Busy /\ faults' = faults + 1
      /\ \/ Throw(s)
         \/ Adds(s) /\ call' = [call EXCEPT ![s] = [@ EXCEPT !.pc = "create", !.hurt = TRUE]]
         \/ s \notin PgVector /\ ~Adds(s) /\ Return(s)
      /\ UNCHANGED <<documents, vectors, dimension, table, made, late, calls>>
  BY HomeOf DEF CheckFails, Fault, At, Busy, object, server
<1>2. IndexNow' = IndexNow
  BY <1>1, NothingKept
<1>3. CASE Throw(s)
  BY <1>1, <1>3, OnlyThrows DEF Simulates
<1>4. CASE Adds(s) /\ call' = [call EXCEPT ![s] = [@ EXCEPT !.pc = "create", !.hurt = TRUE]]
  <2> DEFINE c == [call[s] EXCEPT !.pc = "create", !.hurt = TRUE]
  <2>1. call[s] \in Calls
    BY <1>1, CallSeen
  <2>2. c \in Calls
    BY <2>1 DEF Calls, Busy
  <2>3. /\ c.pc = "create" /\ c.op = call[s].op /\ c.id = call[s].id /\ c.docs = call[s].docs
        /\ c.answer = call[s].answer /\ c.vectors = call[s].vectors
    BY <2>1 DEF Calls
  <2>4. call' = [call EXCEPT ![s] = c]
    BY <1>4
  <2> HIDE DEF c
  <2>5. CallsKept /\ UNCHANGED Index!shown
    BY <1>1, <1>2, <1>4, <2>2, <2>3, <2>4, Moves
  <2>6. QED
    BY <1>1, <2>5, OnlyCall DEF Simulates
<1>5. CASE s \notin PgVector /\ ~Adds(s) /\ Return(s)
  <2>1. NoDocument \in Documents \cup {NoDocument} /\ Answer(s, "returned", NoDocument)
    BY <1>5 DEF Return
  <2>2. CallsKept /\ CallNow' = [CallNow EXCEPT ![s] = Index!Ended("done", NoDocument)]
    BY <1>1, <2>1, CallEnds DEF CallsKept
  <2>3. Index!Pending(s) /\ CallNow[s].op = "search"
    BY <1>1, <1>5, CallSeen DEF Adds, InPlace
  <2>4. LateNow' = LateNow /\ s \in Qdrant
    BY <1>1, <1>5 DEF LateNow, Remote
  <2>5. Index!SearchBlind(s)
    BY <1>1, <1>2, <2>2, <2>3, <2>4 DEF Index!SearchBlind
  <2>6. QED
    BY <1>1, <2>2, <2>4, <2>5, OnlyCall DEF Simulates
<1>6. QED
  BY <1>1, <1>3, <1>4, <1>5

\* A table or collection may be made: its index is empty as before.
LEMMA TableMade ==
    ASSUME IInv, NEW s \in Remote, call[s].pc = "create",
           \/ UNCHANGED <<table, made>>
           \/ Tbl(s).size = 0 /\ MakeTable(s),
           UNCHANGED <<documents, vectors, late>>
    PROVE  /\ table' \in [Servers -> Table] /\ made' \in [Servers -> Nat]
           /\ Together' /\ NoneNoRows' /\ IndexNow' = IndexNow
<1>1. CASE UNCHANGED <<table, made>>
  BY <1>1, NothingKept DEF IInv, Typed
<1>2. CASE Tbl(s).size = 0 /\ MakeTable(s)
  <2> DEFINE b == Home[s]
             t == [table[b] EXCEPT !.size = call[s].vectors[1].size]
  <2>1. b \in Servers /\ s \in Stores
    BY HomeOf
  <2>2. table' = [table EXCEPT ![b] = t] /\ made' = [made EXCEPT ![b] = @ + 1]
    BY <1>2 DEF MakeTable
  <2>3. table \in [Servers -> Table] /\ table[b] \in Table /\ made \in [Servers -> Nat]
    BY <2>1 DEF IInv, Typed
  <2>4. call[s].vectors[1].size \in Sizes
    <3>1. call[s] \in Calls /\ InPlace(call[s], s) /\ s \notin InMemory
      BY <2>1, CallSeen, HomeOf DEF Local
    <3>2. call[s].vectors \in Seq(Vectors) /\ call[s].docs \in Seq(Documents) /\ call[s].docs # <<>>
          /\ DOMAIN call[s].vectors = DOMAIN call[s].docs
      BY <3>1 DEF Calls, InPlace
    <3>3. 1 \in DOMAIN call[s].docs
      BY <3>2
    <3>4. call[s].vectors[1] \in Vectors
      BY <3>2, <3>3
    <3>5. QED
      BY <3>4 DEF Vectors
  <2>5. t \in Table /\ t.rows = table[b].rows
    BY <2>3, <2>4 DEF Table
  <2>6. t.size # 0
    BY <2>3, <2>4 DEF Table
  <2> HIDE DEF b, t
  <2>7. \A x \in Servers : table'[x] = IF x = b THEN t ELSE table[x]
    BY <2>2, <2>3
  <2>8. table' \in [Servers -> Table] /\ made' \in [Servers -> Nat]
    BY <2>1, <2>2, <2>3, <2>5
  <2>9. \A x \in Servers : table'[x].rows = table[x].rows
    BY <2>5, <2>7
  <2>10. Together'
    BY <2>9 DEF IInv, Together
  <2>11. NoneNoRows'
    BY <2>6, <2>7, <2>9 DEF IInv, NoneNoRows
  <2>12. IndexNow' = IndexNow
    BY <2>9 DEF IndexNow
  <2>13. QED
    BY <2>8, <2>10, <2>11, <2>12
<1>3. QED
  BY <1>1, <1>2

LEMMA CreateStep ==
    ASSUME IInv, NEW s \in Remote, Create(s) PROVE Simulates
<1>1. /\ s \in Stores /\ call[s].pc = "create" /\ call[s].pc \in Busy
      /\ Goto(s, "request") \/ Throw(s)
      /\ \/ UNCHANGED <<table, made>>
         \/ Tbl(s).size = 0 /\ MakeTable(s)
      /\ UNCHANGED <<documents, vectors, dimension, late, calls>>
  BY HomeOf DEF Create, At, Busy, object, server
<1>2. /\ table' \in [Servers -> Table] /\ made' \in [Servers -> Nat]
      /\ Together' /\ NoneNoRows' /\ IndexNow' = IndexNow
  BY <1>1, TableMade
<1>3. CallsKept /\ (Index!Operation \/ UNCHANGED Index!shown)
  <2>1. CASE Goto(s, "request")
    BY <1>1, <1>2, <2>1, Goes
  <2>2. CASE Throw(s)
    BY <1>1, <1>2, <2>2, Throws
  <2>3. QED
    BY <1>1, <2>1, <2>2
<1>4. IInv'
  BY <1>1, <1>2, <1>3 DEF IInv, Typed, CallsKept
<1>5. QED
  BY <1>3, <1>4 DEF Simulates

LEMMA CreateFailsStep ==
    ASSUME IInv, NEW s \in Remote, CreateFails(s) PROVE Simulates
<1>1. /\ s \in Stores /\ call[s].pc = "create" /\ call[s].pc \in Busy /\ Throw(s)
      /\ \/ UNCHANGED <<table, made>>
         \/ Tbl(s).size = 0 /\ MakeTable(s)
      /\ UNCHANGED <<documents, vectors, dimension, late, calls>>
  BY HomeOf DEF CreateFails, At, Busy, object, server
<1>2. /\ table' \in [Servers -> Table] /\ made' \in [Servers -> Nat]
      /\ Together' /\ NoneNoRows' /\ IndexNow' = IndexNow
  BY <1>1, TableMade
<1>3. CallsKept /\ Index!Operation
  BY <1>1, <1>2, Throws
<1>4. IInv'
  BY <1>1, <1>2, <1>3 DEF IInv, Typed, CallsKept
<1>5. QED
  BY <1>3, <1>4 DEF Simulates

LEMMA ReceiveStep ==
    ASSUME IInv, NEW s \in Remote, Receive(s) PROVE Simulates
<1> DEFINE c == [call[s] EXCEPT !.pc = "returned"]
<1>1. /\ s \in Stores /\ call[s] \in Calls /\ InPlace(call[s], s) /\ call[s].pc = "answered"
      /\ UNCHANGED <<documents, vectors, dimension, table, made, late, calls>>
  BY HomeOf, CallSeen DEF Receive, At, object, server
<1>2. c \in Calls
  BY <1>1 DEF Calls
<1>3. /\ c.pc = "returned" /\ c.op = call[s].op /\ c.id = call[s].id /\ c.docs = call[s].docs
      /\ c.answer = call[s].answer
  BY <1>1 DEF Calls
<1>4. call' = [call EXCEPT ![s] = c]
  BY DEF Receive, Goto
<1> HIDE DEF c
<1>5. InPlace(c, s) /\ c.pc \notin Busy
  BY <1>1, <1>3 DEF InPlace, Busy
<1>6. Seen(c) = Seen(call[s])
  BY <1>1, <1>3 DEF Seen, Status
<1>7. IndexNow' = IndexNow
  BY <1>1, NothingKept
<1>8. CallsKept /\ UNCHANGED Index!shown
  BY <1>1, <1>2, <1>3, <1>4, <1>5, <1>6, <1>7, GoesOn
<1>9. QED
  BY <1>1, <1>8, OnlyCall DEF Simulates

\* A server takes a whole batch.
LEMMA Grown ==
    ASSUME IInv, NEW b \in Servers, NEW new \in Seq(Row), Matched(new), table[b].size # 0,
           table' = [table EXCEPT ![b].rows = @ \o new], UNCHANGED <<documents, vectors>>,
           \A batch \in late' : Matched(batch.rows)
    PROVE  /\ table' \in [Servers -> Table] /\ Together' /\ NoneNoRows'
           /\ IndexNow' = [IndexNow EXCEPT ![b] = @ \o EntriesOf(new)]
<1> DEFINE t == [table[b] EXCEPT !.rows = table[b].rows \o new]
<1>1. table \in [Servers -> Table] /\ table[b] \in Table /\ table[b].rows \in Seq(Row) /\ b \notin Local
  BY DEF IInv, Typed, Table
<1>2. table[b].rows \o new \in Seq(Row)
  BY <1>1
<1>3. t \in Table /\ t.rows = table[b].rows \o new /\ t.size = table[b].size
  BY <1>1, <1>2 DEF Table
<1>4. table' = [table EXCEPT ![b] = t]
  OBVIOUS
<1> HIDE DEF t
<1>5. table' \in [Servers -> Table] /\ \A x \in Servers : table'[x] = IF x = b THEN t ELSE table[x]
  BY <1>1, <1>3, <1>4
<1>6. EntriesOf(t.rows) = EntriesOf(table[b].rows) \o EntriesOf(new) /\ Matched(t.rows)
  <2>1. Matched(table[b].rows)
    BY DEF IInv, Together
  <2>2. QED
    BY <1>1, <1>3, <2>1, RowsJoined
<1>7. Together'
  <2>1. \A x \in Servers : Matched(table[x].rows)
    BY DEF IInv, Together
  <2>2. \A x \in Servers : Matched(table'[x].rows)
    BY <1>5, <1>6, <2>1
  <2>3. QED
    BY <2>2 DEF IInv, Together
<1>8. NoneNoRows'
  BY <1>3, <1>5 DEF IInv, NoneNoRows
<1>9. IndexNow' = [IndexNow EXCEPT ![b] = @ \o EntriesOf(new)]
  <2>1. IndexNow' = [IndexNow EXCEPT ![b] = EntriesOf(t.rows)]
    BY <1>4, IndexRemote
  <2>2. IndexNow[b] = EntriesOf(table[b].rows)
    BY <1>1 DEF IndexNow
  <2>3. QED
    BY <1>6, <2>1, <2>2
<1>10. QED
  BY <1>5, <1>7, <1>8, <1>9

\* What a call that has its vectors sends to a server.
LEMMA RowsSent ==
    ASSUME IInv, NEW s \in Remote, call[s].pc = "request"
    PROVE  /\ Rows(call[s]) \in Seq(Row) /\ Matched(Rows(call[s]))
           /\ EntriesOf(Rows(call[s])) = [i \in DOMAIN call[s].docs |-> Entry(call[s].docs[i], call[s].id)]
           /\ Rows(call[s]) # <<>> /\ Carries([home |-> Home[s], rows |-> Rows(call[s])]) = call[s].id
<1>1. s \in Stores /\ call[s] \in Calls /\ InPlace(call[s], s) /\ s \notin InMemory
  BY HomeOf, CallSeen DEF Local
<1>2. /\ call[s].docs # <<>> /\ call[s].docs \in Seq(Documents)
      /\ DOMAIN call[s].vectors = DOMAIN call[s].docs
      /\ \A i \in DOMAIN call[s].docs : call[s].vectors[i].text = call[s].docs[i]
  BY <1>1 DEF InPlace, Calls
<1>3. 1 \in DOMAIN call[s].docs
  BY <1>2
<1>4. DOMAIN Rows(call[s]) = DOMAIN call[s].docs /\ Rows(call[s])[1].entry.call = call[s].id
  BY <1>3 DEF Rows, Entry
<1>5. Rows(call[s]) # <<>>
  BY <1>3, <1>4
<1>6. QED
  BY <1>1, <1>2, <1>4, <1>5, RowsTyped DEF Carries

LEMMA UpsertStep ==
    ASSUME IInv, NEW s \in Remote, Upsert(s) PROVE Simulates
<1>1. /\ s \in Stores /\ Home[s] \in Servers /\ call[s].pc = "request" /\ call[s].pc \in Busy /\ Adds(s)
      /\ UNCHANGED <<documents, vectors, dimension, made, late, calls>>
  BY HomeOf DEF Upsert, At, Busy, object
<1>2. CASE Fits(Tbl(s), Rows(call[s]))
  <2>1. /\ table' = [table EXCEPT ![Home[s]].rows = @ \o Rows(call[s])]
        /\ Answer(s, "answered", NoDocument) /\ table[Home[s]].size # 0
    BY <1>2 DEF Upsert, Fits, Tbl
  <2>2. \A batch \in late' : Matched(batch.rows)
    BY <1>1 DEF IInv, Together
  <2>3. /\ table' \in [Servers -> Table] /\ Together' /\ NoneNoRows'
        /\ IndexNow' = [IndexNow EXCEPT ![Home[s]] = @ \o EntriesOf(Rows(call[s]))]
    BY <1>1, <2>1, <2>2, Grown, RowsSent
  <2>4. CallsKept /\ Index!Operation
    BY <1>1, <2>1, <2>3, AddsDone, RowsSent
  <2>5. IInv'
    BY <1>1, <2>3, <2>4 DEF IInv, Typed, CallsKept
  <2>6. QED
    BY <2>4, <2>5 DEF Simulates
<1>3. CASE ~Fits(Tbl(s), Rows(call[s]))
  <2>1. Throw(s) /\ UNCHANGED table
    BY <1>3 DEF Upsert
  <2>2. QED
    BY <1>1, <2>1, OnlyThrows
<1>4. QED
  BY <1>2, <1>3

LEMMA SearchServerStep ==
    ASSUME IInv, NEW s \in Remote, SearchServer(s) PROVE Simulates
<1> DEFINE rows == Tbl(s).rows
           texts == [j \in DOMAIN rows |-> rows[j].vector.text]
<1>1. /\ s \in Stores /\ Home[s] \in Servers /\ call[s].pc \in Busy /\ ~Adds(s)
      /\ UNCHANGED <<documents, vectors, dimension, table, made, late, calls>>
  BY HomeOf DEF SearchServer, At, Busy, object, server
<1>2. IndexNow' = IndexNow /\ IndexNow[Home[s]] = EntriesOf(rows)
  BY <1>1, NothingKept, IndexTyped
<1>3. CASE Throw(s)
  BY <1>1, <1>3, OnlyThrows
<1>4. CASE rows = <<>> /\ Answer(s, "answered", NoDocument)
  <2>1. IndexNow[Home[s]] = <<>>
    BY <1>2, <1>4 DEF EntriesOf
  <2>2. NoDocument \in Index!Nearest(IndexNow[Home[s]], call[s].docs[1])
    BY <2>1, EmptyIsNearest
  <2>3. CallsKept /\ Index!Operation
    BY <1>1, <1>2, <1>4, <2>2, SearchDone
  <2>4. QED
    BY <1>1, <2>3, OnlyCall DEF Simulates
<1>5. ASSUME NEW i \in Ranked(texts, call[s].docs[1]), Answer(s, "answered", rows[i].entry.document)
      PROVE  Simulates
  <2>1. rows \in Seq(Row) /\ Matched(rows)
    BY <1>1 DEF IInv, Typed, Together, Table, Tbl
  <2>2. EntriesOf(rows) \in Seq(Entered) /\ DOMAIN EntriesOf(rows) = DOMAIN rows /\ DOMAIN texts = DOMAIN rows
        /\ \A j \in DOMAIN rows : EntriesOf(rows)[j] = rows[j].entry
    BY <2>1, EntriesOfTyped DEF EntriesOf
  <2>3. \A j \in DOMAIN rows : texts[j] = EntriesOf(rows)[j].document
    BY <2>1, <2>2 DEF Matched
  <2>4. i \in DOMAIN rows
    BY <2>2 DEF Ranked
  <2> HIDE DEF texts, rows
  <2>5. EntriesOf(rows)[i].document \in Index!Nearest(EntriesOf(rows), call[s].docs[1])
    BY <2>2, <2>3, RankedIsNearest
  <2>6. EntriesOf(rows)[i] \in Entered
    BY <2>2, <2>4
  <2>7. rows[i].entry.document = EntriesOf(rows)[i].document /\ rows[i].entry.document \in Documents \cup {NoDocument}
    BY <2>2, <2>4, <2>6 DEF Entered
  <2>8. CallsKept /\ Index!Operation
    BY <1>1, <1>2, <1>5, <2>5, <2>7, SearchDone
  <2>9. QED
    BY <1>1, <2>8, OnlyCall DEF Simulates
<1>6. QED
  BY <1>3, <1>4, <1>5 DEF SearchServer

\* A call throws and leaves its batch on its way.
LEMMA LeftLate ==
    ASSUME IInv, NEW s \in Remote, call[s].pc = "request", Adds(s), Throw(s),
           late' = late \cup {[home |-> Home[s], rows |-> Rows(call[s])]},
           UNCHANGED <<documents, vectors, dimension, table, made, calls>>
    PROVE  Simulates
<1> DEFINE nb == [home |-> Home[s], rows |-> Rows(call[s])]
<1>1. s \in Stores /\ Home[s] \in Servers /\ call[s].pc \in Busy
  BY HomeOf DEF Busy
<1>2. nb.rows \in Seq(Row) /\ nb.rows # <<>> /\ nb.home \in Servers /\ Matched(nb.rows) /\ Carries(nb) = call[s].id
      /\ nb \in [home : Servers, rows : Seq(Row)]
  BY <1>1, RowsSent
<1>3. NoDocument \in Documents \cup {NoDocument} /\ Answer(s, "threw", NoDocument)
  BY DEF Throw
<1>4. /\ call' \in [Stores -> Calls] /\ Progress'
      /\ CallNow' = [CallNow EXCEPT ![s] = Index!Ended("failed", NoDocument)]
      /\ call'[s].id = 0 /\ call'[s].pc \notin Busy
      /\ \A t \in Stores : t # s => call'[t] = call[t]
  BY <1>1, <1>3, CallEnds
<1>5. LateNow' = LateNow \cup {[home |-> Home[s], entries |-> Index!Entries(CallNow[s])]}
  <2>1. Index!Entries(CallNow[s]) = [i \in DOMAIN call[s].docs |-> Entry(call[s].docs[i], call[s].id)]
    BY <1>1, CallSeen DEF Index!Entries, Index!Entry, Entry
  <2>2. EntriesOf(nb.rows) = Index!Entries(CallNow[s])
    BY <2>1, RowsSent
  <2>3. LateNow' = LateNow \cup {[home |-> nb.home, entries |-> EntriesOf(nb.rows)]}
    BY DEF LateNow
  <2>4. QED
    BY <2>2, <2>3
<1> HIDE DEF nb
<1>6. late' = late \cup {nb}
  BY DEF nb
<1>7. Once'
  <2>1. Once /\ calls \in Nat
    BY DEF IInv, Typed
  <2>2. \A t \in Stores : call'[t].id <= calls
    BY <1>4, <2>1 DEF Once
  <2>3. \A t \in Stores : call'[t].pc \in Busy => t # s /\ call'[t] = call[t]
    BY <1>4
  <2>4. \A t, u \in Stores : t # u /\ call'[t].pc \in Busy /\ call'[u].pc \in Busy => call'[t].id # call'[u].id
    BY <2>1, <2>3 DEF Once
  <2>5. ASSUME NEW batch \in late'
        PROVE  /\ batch.rows # <<>> /\ Carries(batch) <= calls
               /\ \A t \in Stores : call'[t].pc \in Busy => call'[t].id # Carries(batch)
    <3>1. CASE batch \in late
      BY <2>1, <2>3, <3>1 DEF Once
    <3>2. CASE batch = nb
      BY <1>1, <1>2, <2>1, <2>3, <3>2 DEF Once
    <3>3. QED
      BY <1>6, <3>1, <3>2
  <2>6. \A x \in late : Carries(x) # Carries(nb)
    BY <1>1, <1>2, <2>1 DEF Once
  <2>7. \A x, y \in late' : Carries(x) = Carries(y) => x = y
    BY <1>6, <2>1, <2>6 DEF Once
  <2>8. QED
    BY <2>2, <2>4, <2>5, <2>7 DEF Once
<1>8. Together' /\ NoneNoRows'
  <2>1. \A batch \in late' : Matched(batch.rows)
    BY <1>2, <1>6 DEF IInv, Together
  <2>2. QED
    BY <2>1 DEF IInv, Together, NoneNoRows
<1>9. IInv'
  BY <1>2, <1>4, <1>6, <1>7, <1>8 DEF IInv, Typed
<1>10. IndexNow' = IndexNow
  BY DEF IndexNow
<1>11. Index!Throw(s)
  <2>1. Index!Pending(s) /\ CallNow[s].op = "add" /\ CallNow[s].state # "failed"
    BY <1>1, CallSeen DEF Adds, Busy
  <2>2. QED
    BY <1>4, <1>5, <1>10, <2>1 DEF Index!Throw
<1>12. QED
  BY <1>1, <1>9, <1>11 DEF Simulates, Index!Operation

LEMMA RenderThrowsStep ==
    ASSUME IInv, NEW s \in Remote, RenderThrows(s) PROVE Simulates
<1>1. /\ s \in Stores /\ call[s].pc \in Busy /\ Throw(s)
      /\ UNCHANGED <<documents, vectors, dimension, table, made, late, calls>>
  BY HomeOf DEF RenderThrows, At, Busy, object, server
<1>2. QED
  BY <1>1, OnlyThrows

LEMMA RequestFailsStep ==
    ASSUME IInv, NEW s \in Remote, RequestFails(s) PROVE Simulates
<1>1. /\ s \in Stores /\ call[s].pc \in Busy \cup {"answered"} /\ Throw(s)
      /\ \/ late' = late
         \/ /\ call[s].pc = "request" /\ Adds(s)
            /\ late' = late \cup {[home |-> Home[s], rows |-> Rows(call[s])]}
      /\ UNCHANGED <<documents, vectors, dimension, table, made, calls>>
  BY HomeOf DEF RequestFails, At, Busy, object, server
<1>2. CASE late' = late
  BY <1>1, <1>2, OnlyThrows
<1>3. CASE late' # late
  BY <1>1, <1>3, LeftLate
<1>4. QED
  BY <1>2, <1>3

-----------------------------------------------------------------------------
(* The steps of the network and of an administrator.                       *)

LEMMA LateSeen ==
    ASSUME IInv, NEW batch \in late, late' = late \ {batch}
    PROVE  /\ [home |-> batch.home, entries |-> EntriesOf(batch.rows)] \in LateNow
           /\ LateNow' = LateNow \ {[home |-> batch.home, entries |-> EntriesOf(batch.rows)]}
<1> DEFINE Image(x) == [home |-> x.home, entries |-> EntriesOf(x.rows)]
<1>1. LateNow = {Image(x) : x \in late} /\ LateNow' = {Image(x) : x \in late \ {batch}}
  BY DEF LateNow
<1>2. ASSUME NEW x \in late, NEW y \in late, Image(x) = Image(y) PROVE x = y
  <2>1. /\ x.rows \in Seq(Row) /\ y.rows \in Seq(Row) /\ x.rows # <<>> /\ y.rows # <<>>
        /\ EntriesOf(x.rows) = EntriesOf(y.rows)
    BY <1>2 DEF IInv, Typed, Once
  <2>2. 1 \in DOMAIN x.rows /\ 1 \in DOMAIN y.rows
    BY <2>1
  <2>3. EntriesOf(x.rows)[1] = x.rows[1].entry /\ EntriesOf(y.rows)[1] = y.rows[1].entry
    BY <2>2 DEF EntriesOf
  <2>4. Carries(x) = Carries(y)
    BY <2>1, <2>3 DEF Carries
  <2>5. QED
    BY <2>4 DEF IInv, Once
<1> HIDE DEF Image
<1>3. Image(batch) \in LateNow /\ LateNow' = LateNow \ {Image(batch)}
  BY <1>1, <1>2
<1>4. QED
  BY <1>3 DEF Image

LEMMA UpsertLateStep ==
    ASSUME IInv, NEW batch \in late, UpsertLate(batch) PROVE Simulates
<1> DEFINE image == [home |-> batch.home, entries |-> EntriesOf(batch.rows)]
<1>1. /\ batch.home \in Servers /\ batch.rows \in Seq(Row) /\ Matched(batch.rows)
      /\ late' = late \ {batch}
      /\ UNCHANGED <<documents, vectors, dimension, made, call, calls>>
  BY DEF IInv, Typed, Together, UpsertLate, object
<1>2. image \in LateNow /\ LateNow' = LateNow \ {image} /\ CallNow' = CallNow
  BY <1>1, LateSeen DEF CallNow
<1>3. \A x \in late' : Matched(x.rows)
  BY <1>1 DEF IInv, Together
<1>4. Once' /\ Progress' /\ late' \subseteq late
  BY <1>1 DEF IInv, Once, Progress
<1>5. CASE Fits(table[batch.home], batch.rows)
  <2>1. table' = [table EXCEPT ![batch.home].rows = @ \o batch.rows] /\ table[batch.home].size # 0
    BY <1>5 DEF UpsertLate, Fits
  <2>2. /\ table' \in [Servers -> Table] /\ Together' /\ NoneNoRows'
        /\ IndexNow' = [IndexNow EXCEPT ![batch.home] = @ \o EntriesOf(batch.rows)]
    BY <1>1, <1>3, <2>1, Grown
  <2>3. IInv'
    BY <1>1, <1>4, <2>2 DEF IInv, Typed
  <2>4. Index!AddLate(image)
    BY <1>1, <1>2, <2>2 DEF Index!AddLate
  <2>5. QED
    BY <1>2, <2>3, <2>4 DEF Simulates, Index!Operation
<1>6. CASE ~Fits(table[batch.home], batch.rows)
  <2>1. table' = table
    BY <1>6 DEF UpsertLate
  <2>2. Together' /\ NoneNoRows' /\ IndexNow' = IndexNow
    BY <1>1, <1>3, <2>1 DEF IInv, Together, NoneNoRows, IndexNow
  <2>3. IInv'
    BY <1>1, <1>4, <2>1, <2>2 DEF IInv, Typed
  <2>4. Index!Forget(image)
    BY <1>1, <1>2, <2>2 DEF Index!Forget
  <2>5. QED
    BY <1>2, <2>3, <2>4 DEF Simulates, Index!Operation
<1>7. QED
  BY <1>5, <1>6

LEMMA DropStep ==
    ASSUME IInv, NEW b \in Servers, Drop(b) PROVE Simulates
<1>1. /\ table' = [table EXCEPT ![b] = NoTable] /\ NoTable.rows = <<>>
      /\ UNCHANGED <<documents, vectors, dimension, made, call, late, calls>>
  BY DEF Drop, object, NoTable
<1>2. table \in [Servers -> Table] /\ NoTable \in Table
  <2>1. <<>> \in Seq(Row)
    OBVIOUS
  <2>2. QED
    BY <2>1 DEF IInv, Typed, NoTable, Table
<1>3. table' \in [Servers -> Table] /\ \A x \in Servers : table'[x].rows = table[x].rows \/ table'[x] = NoTable
  BY <1>1, <1>2
<1>4. Together'
  <2>1. \A x \in Servers : Matched(table[x].rows)
    BY DEF IInv, Together
  <2>2. Matched(<<>>)
    BY DEF Matched
  <2>3. \A x \in Servers : Matched(table'[x].rows)
    BY <1>1, <1>3, <2>1, <2>2
  <2>4. QED
    BY <1>1, <2>3 DEF IInv, Together
<1>5. NoneNoRows'
  BY <1>1, <1>2 DEF IInv, NoneNoRows
<1>6. IInv'
  BY <1>1, <1>3, <1>4, <1>5 DEF IInv, Typed, Progress, Once
<1>7. IndexNow' = [IndexNow EXCEPT ![b] = <<>>]
  <2>1. IndexNow' = [IndexNow EXCEPT ![b] = EntriesOf(NoTable.rows)]
    BY <1>1, IndexRemote
  <2>2. EntriesOf(<<>>) = <<>>
    BY DEF EntriesOf
  <2>3. QED
    BY <1>1, <2>1, <2>2
<1>8. CallNow' = CallNow /\ LateNow' = LateNow
  BY <1>1 DEF CallNow, LateNow
<1>9. Index!Drop(b)
  BY <1>1, <1>7, <1>8 DEF Index!Drop
<1>10. QED
  BY <1>6, <1>9 DEF Simulates, Index!Operation

-----------------------------------------------------------------------------
LEMMA Stutters == ASSUME IInv, UNCHANGED vars PROVE Simulates
<1>1. UNCHANGED <<documents, vectors, dimension, table, made, call, late, calls>>
  BY DEF vars, object, server
<1>2. IndexNow' = IndexNow /\ CallNow' = CallNow /\ LateNow' = LateNow
  BY <1>1 DEF IndexNow, CallNow, LateNow
<1>3. IInv'
  BY <1>1 DEF IInv, Typed, Progress, Together, NoneNoRows, Once
<1>4. QED
  BY <1>1, <1>2, <1>3 DEF Simulates, Index!shown

\* Every step keeps the invariant, and is one of the index or none.
LEMMA StepSimulates ==
    ASSUME IInv, [Next]_vars PROVE Simulates
<1>1. CASE UNCHANGED vars
  BY <1>1, Stutters DEF Simulates
<1>2. ASSUME NEW s \in Stores, AddDocuments(s) PROVE Simulates
  BY <1>2, StartStep DEF AddDocuments
<1>3. ASSUME NEW s \in Stores, SimilaritySearch(s) PROVE Simulates
  <2>1. PICK d \in Documents : Start(s, "search", <<d>>)
    BY <1>3 DEF SimilaritySearch
  <2>2. QED
    BY <2>1, StartStep
<1>4. ASSUME NEW s \in Stores, Prepare(s) PROVE Simulates
  BY <1>4, EmbedStep, EmbedThrowsStep, ReturnAtOnceStep DEF Prepare
<1>5. ASSUME NEW s \in Local, LocalStep(s) PROVE Simulates
  BY <1>5, AddInMemoryStep, AddFaissStep, SearchLocalStep DEF LocalStep
<1>6. ASSUME NEW s \in Remote, RemoteStep(s) PROVE Simulates
  BY <1>6, UnusableStep, CheckStep, CheckFailsStep, CreateStep, CreateFailsStep, RenderThrowsStep,
     UpsertStep, SearchServerStep, ReceiveStep, RequestFailsStep DEF RemoteStep
<1>7. ASSUME NEW batch \in late, UpsertLate(batch) PROVE Simulates
  BY <1>7, UpsertLateStep
<1>8. ASSUME NEW b \in Servers, Drop(b) PROVE Simulates
  BY <1>8, DropStep
<1>9. QED
  BY <1>1, <1>2, <1>3, <1>4, <1>5, <1>6, <1>7, <1>8 DEF Next

\* A step has one failure at most.
LEMMA FaultsCounted == ASSUME [Next]_vars PROVE faults' \in {faults, faults + 1}
<1>1. CASE UNCHANGED vars
  BY <1>1 DEF vars
<1>2. ASSUME NEW s \in Stores, AddDocuments(s) \/ SimilaritySearch(s) PROVE faults' = faults
  BY <1>2 DEF AddDocuments, SimilaritySearch, Start
<1>3. ASSUME NEW s \in Stores, Prepare(s) PROVE faults' \in {faults, faults + 1}
  <2>1. CASE Embed(s)
    <3>1. PICK sizes \in [DOMAIN call[s].docs -> Sizes] :
             faults' = IF \E i \in DOMAIN sizes : sizes[i] # Usual THEN faults + 1 ELSE faults
      BY <2>1 DEF Embed
    <3>2. QED
      BY <3>1
  <2>2. CASE EmbedThrows(s) \/ ReturnAtOnce(s)
    BY <2>2 DEF EmbedThrows, ReturnAtOnce, Fault
  <2>3. QED
    BY <1>3, <2>1, <2>2 DEF Prepare
<1>4. ASSUME NEW s \in Local, LocalStep(s) PROVE faults' = faults
  BY <1>4 DEF LocalStep, AddInMemory, AddFaiss, SearchLocal
<1>5. ASSUME NEW s \in Remote, RemoteStep(s) PROVE faults' \in {faults, faults + 1}
  <2>1. CASE CheckFails(s) \/ CreateFails(s) \/ RequestFails(s) \/ RenderThrows(s)
    BY <2>1 DEF CheckFails, CreateFails, RequestFails, RenderThrows, Fault
  <2>2. CASE Unusable(s) \/ Check(s) \/ Create(s) \/ Upsert(s) \/ SearchServer(s) \/ Receive(s)
    BY <2>2 DEF Unusable, Check, Create, Upsert, SearchServer, Receive
  <2>3. QED
    BY <1>5, <2>1, <2>2 DEF RemoteStep
<1>6. ASSUME NEW batch \in late, UpsertLate(batch) PROVE faults' = faults
  BY <1>6 DEF UpsertLate
<1>7. ASSUME NEW b \in Servers, Drop(b) PROVE faults' = faults
  BY <1>7 DEF Drop
<1>8. QED
  BY <1>1, <1>2, <1>3, <1>4, <1>5, <1>6, <1>7 DEF Next

\* Whatever the stores, the batches and the failures, the four vector stores are
\* one index in the sense of DocumentIndex: all of a batch or none, once, and
\* searches that answer from the index of one moment, unless they are those of a
\* QdrantVectorStore and the look for the collection failed in that very step
\* (qdrant_vector_store.cpp:34, 85).
THEOREM ImplementsIndex == Spec => IndexSpec
<1>1. Init => IInv /\ Index!Init
  BY InitIInv
<1>2. IInv /\ [Next]_vars => IInv' /\ [Index!Next]_(Index!vars)
  BY StepSimulates, FaultsCounted DEF Simulates, Index!Next
<1>3. QED
  BY <1>1, <1>2, PTL DEF Spec, IndexSpec, Index!Spec
-----------------------------------------------------------------------------
(* Why calls throw, and the types: what a call knows of its collection, and *)
(* the sizes of what is kept.                                               *)

Counted ==
    /\ ready \in [Remote -> BOOLEAN] /\ connected \in [PgVector -> BOOLEAN]
    /\ calls \in 0..MaxCalls /\ faults \in 0..MaxFaults /\ drops \in 0..MaxDrops

\* A call that is about to create the collection did not see it, and one that makes
\* its request knows that it was there.
Aware(s) ==
    /\ ready[s] => Tbl(s).size # 0 \/ drops > 0
    /\ call[s].pc \in {"check", "create"} => ~ready[s]
    /\ call[s].pc = "request" => ready[s]
    /\ call[s].pc \in Busy => call[s].made <= made[Home[s]]
    /\ call[s].pc = "create" => call[s].hurt \/ Tbl(s).size = 0 \/ call[s].made < made[Home[s]]

KInv == Counted /\ \A s \in Remote : Aware(s)

Sized ==
    /\ \A s \in Faiss : \A i \in DOMAIN vectors[s] : vectors[s][i].size = dimension[s]
    /\ \A b \in Servers : \A i \in DOMAIN table[b].rows : table[b].rows[i].vector.size = table[b].size

\* What a step does to a server, seen from a call.
ServerMoves(b) ==
    \/ table'[b].size = table[b].size /\ made'[b] = made[b] /\ drops' \in {drops, drops + 1}
    \/ table[b].size = 0 /\ table'[b].size # 0 /\ made'[b] = made[b] + 1 /\ drops' = drops
    \/ table'[b].size = 0 /\ made'[b] = made[b] /\ drops' = drops + 1

LEMMA Numbers ==
    ASSUME IInv, KInv
    PROVE  /\ calls \in Nat /\ faults \in Nat /\ drops \in Nat
           /\ \A b \in Servers : made[b] \in Nat
           /\ \A s \in Stores : call[s].made \in Nat
           /\ \A s \in Remote : Home[s] \in Servers /\ s \in Stores /\ ready[s] \in BOOLEAN
<1>1. \A s \in Stores : call[s] \in Calls
  BY DEF IInv, Typed
<1>2. \A s \in Stores : call[s].made \in Nat
  BY <1>1 DEF Calls
<1>3. QED
  BY <1>2, HomeOf DEF IInv, Typed, KInv, Counted

\* What a call knows stays true, whatever the others do.
LEMMA AwareKept ==
    ASSUME IInv, KInv, NEW s \in Remote, ServerMoves(Home[s]), ready'[s] = ready[s],
           call'[s] = call[s] \/ call'[s].pc \notin Busy
    PROVE  Aware(s)'
<1>1. /\ Home[s] \in Servers /\ s \in Stores /\ drops \in Nat /\ made[Home[s]] \in Nat
      /\ call[s].made \in Nat /\ Aware(s) /\ Tbl(s) = table[Home[s]] /\ Tbl(s)' = table'[Home[s]]
  BY Numbers DEF KInv, Tbl
<1>2. ready'[s] => Tbl(s)'.size # 0 \/ drops' > 0
  <2>1. ready'[s] => Tbl(s).size # 0 \/ drops > 0
    BY <1>1 DEF Aware
  <2>2. drops' > 0 \/ (Tbl(s).size # 0 \/ drops > 0 => Tbl(s)'.size # 0 \/ drops' > 0)
    BY <1>1 DEF ServerMoves
  <2>3. QED
    BY <2>1, <2>2
<1>3. CASE call'[s] = call[s]
  <2>1. call[s].pc \in {"check", "create"} => ~ready'[s]
    BY <1>1 DEF Aware
  <2>2. call[s].pc = "request" => ready'[s]
    BY <1>1 DEF Aware
  <2>3. call[s].pc \in Busy => call[s].made <= made'[Home[s]]
    BY <1>1 DEF Aware, ServerMoves
  <2>4. call[s].pc = "create" => call[s].hurt \/ Tbl(s)'.size = 0 \/ call[s].made < made'[Home[s]]
    <3>1. ASSUME call[s].pc = "create"
          PROVE  /\ call[s].made <= made[Home[s]]
                 /\ call[s].hurt \/ Tbl(s).size = 0 \/ call[s].made < made[Home[s]]
      BY <1>1, <3>1 DEF Aware, Busy
    <3>2. ASSUME call[s].pc = "create", ~call[s].hurt
          PROVE  Tbl(s)'.size = 0 \/ call[s].made < made'[Home[s]]
      BY <1>1, <3>1, <3>2 DEF ServerMoves
    <3>3. QED
      BY <3>2
  <2>5. QED
    BY <1>2, <1>3, <2>1, <2>2, <2>3, <2>4 DEF Aware
<1>4. CASE call'[s].pc \notin Busy
  BY <1>2, <1>4 DEF Aware, Busy
<1>5. QED
  BY <1>3, <1>4

Explained ==
    /\ KInv'
    /\ \A t \in Stores : Running(t) /\ call'[t].pc = "threw" => Cause(t) \/ faults' > faults

\* A step of one call.
LEMMA OneMoves ==
    ASSUME IInv, KInv, Counted', NEW s \in Stores,
           \A t \in Stores : t # s => call'[t] = call[t],
           \A t \in Remote : t # s => ready'[t] = ready[t],
           \A b \in Servers : ServerMoves(b),
           s \in Remote => Aware(s)',
           Running(s) /\ call'[s].pc = "threw" => Cause(s) \/ faults' > faults
    PROVE  Explained
<1>1. ASSUME NEW t \in Remote PROVE Aware(t)'
  <2>1. CASE t = s
    BY <2>1
  <2>2. CASE t # s
    <3>1. t \in Stores /\ Home[t] \in Servers
      BY HomeOf
    <3>2. QED
      BY <2>2, <3>1, AwareKept
  <2>3. QED
    BY <2>1, <2>2
<1>2. ASSUME NEW t \in Stores, Running(t), call'[t].pc = "threw" PROVE Cause(t) \/ faults' > faults
  <2>1. t = s
    BY <1>2 DEF Running
  <2>2. QED
    BY <1>2, <2>1
<1>3. QED
  BY <1>1, <1>2 DEF Explained, KInv

\* A step that ends a call, or has its answer on the way.
LEMMA OneEnds ==
    ASSUME IInv, KInv, Counted', NEW s \in Stores, NEW pc \in {"answered", "returned", "threw"}, NEW d,
           Answer(s, pc, d), ready' = ready, \A b \in Servers : ServerMoves(b),
           Running(s) /\ pc = "threw" => Cause(s) \/ faults' > faults
    PROVE  Explained
<1>1. call'[s].pc = pc /\ \A t \in Stores : t # s => call'[t] = call[t]
  BY DEF Answer, Ended, Call, IInv, Typed
<1>2. call'[s].pc \notin Busy
  BY <1>1 DEF Busy
<1>3. s \in Remote => Aware(s)'
  BY <1>2, HomeOf, AwareKept
<1>4. QED
  BY <1>1, <1>3, OneMoves

LEMMA ServersRest ==
    ASSUME IInv, KInv, UNCHANGED <<table, made, drops>> PROVE \A b \in Servers : ServerMoves(b)
BY DEF ServerMoves

LEMMA OnlyFaults ==
    ASSUME KInv, Fault, UNCHANGED <<ready, calls, drops>>, connected' \in [PgVector -> BOOLEAN]
    PROVE  Counted' /\ faults' > faults
<1>1. faults' \in 0..MaxFaults /\ faults' > faults
  BY DEF KInv, Counted, Fault
<1>2. QED
  BY <1>1 DEF KInv, Counted

LEMMA BreaksOne == ASSUME KInv, NEW s \in Remote, Breaks(s) PROVE connected' \in [PgVector -> BOOLEAN]
BY DEF KInv, Counted, Breaks

LEMMA StartExplained ==
    ASSUME IInv, KInv, NEW s \in Stores, NEW op, NEW docs, Start(s, op, docs) PROVE Explained
<1>1. /\ ~Running(s) /\ calls < MaxCalls /\ calls' = calls + 1
      /\ UNCHANGED <<ready, connected, table, made, faults, drops>>
  BY DEF Start, server
<1>2. /\ call'[s].pc = "started" /\ (s \in Remote => call'[s].made = made[Home[s]])
      /\ \A t \in Stores : t # s => call'[t] = call[t]
  BY DEF Start, Call, IInv, Typed
<1>3. Counted'
  <2>1. calls' \in 0..MaxCalls
    BY <1>1 DEF KInv, Counted
  <2>2. QED
    BY <1>1, <2>1 DEF KInv, Counted
<1>4. s \in Remote => Aware(s)'
  <2>1. SUFFICES ASSUME s \in Remote PROVE Aware(s)'
    OBVIOUS
  <2>2. made[Home[s]] \in Nat /\ Aware(s) /\ Tbl(s)' = Tbl(s)
    BY <1>1, <2>1, Numbers DEF KInv, Tbl
  <2>3. ready'[s] => Tbl(s)'.size # 0 \/ drops' > 0
    BY <1>1, <2>2 DEF Aware
  <2>4. call'[s].made <= made'[Home[s]]
    BY <1>1, <1>2, <2>1, <2>2
  <2>5. QED
    BY <1>2, <2>3, <2>4 DEF Aware
<1>5. \A b \in Servers : ServerMoves(b)
  BY <1>1, ServersRest
<1>6. QED
  BY <1>1, <1>2, <1>3, <1>4, <1>5, OneMoves

LEMMA PrepareExplained ==
    ASSUME IInv, KInv, NEW s \in Stores, Prepare(s) PROVE Explained
<1>1. CASE EmbedThrows(s)
  <2>1. /\ Fault /\ Answer(s, "threw", NoDocument)
        /\ UNCHANGED <<ready, connected, table, made, calls, drops>>
    BY <1>1 DEF EmbedThrows, Throw, server
  <2>2. Counted' /\ faults' > faults
    BY <2>1, OnlyFaults DEF KInv, Counted
  <2>3. QED
    BY <2>1, <2>2, ServersRest, OneEnds
<1>2. CASE ReturnAtOnce(s)
  <2>1. /\ Answer(s, "returned", NoDocument)
        /\ UNCHANGED <<ready, connected, table, made, calls, faults, drops>>
    BY <1>2 DEF ReturnAtOnce, Return, server
  <2>2. Counted'
    BY <2>1 DEF KInv, Counted
  <2>3. QED
    BY <2>1, <2>2, ServersRest, OneEnds
<1>3. CASE Embed(s)
  <2>1. PICK sizes \in [DOMAIN call[s].docs -> Sizes] :
          /\ LET odd == \E i \in DOMAIN sizes : sizes[i] # Usual
             IN  /\ odd => s \notin InMemory /\ faults < MaxFaults
                 /\ faults' = IF odd THEN faults + 1 ELSE faults
          /\ call' = [call EXCEPT ![s] = [@ EXCEPT
                    !.vectors = [i \in DOMAIN sizes |-> [text |-> call[s].docs[i], size |-> sizes[i]]],
                    !.pc = CASE s \in Local -> "local"
                             [] s \in Remote -> IF ready[s] THEN "request" ELSE "check"]]
    BY <1>3 DEF Embed
  <2>2. call[s].pc = "started" /\ UNCHANGED <<ready, connected, table, made, calls, drops>>
    BY <1>3 DEF Embed, At, server
  <2>3. /\ call'[s].pc = (CASE s \in Local -> "local" [] s \in Remote -> IF ready[s] THEN "request" ELSE "check")
        /\ call'[s].made = call[s].made
        /\ \A t \in Stores : t # s => call'[t] = call[t]
    <3> DEFINE vs == [i \in DOMAIN sizes |-> [text |-> call[s].docs[i], size |-> sizes[i]]]
               pc == CASE s \in Local -> "local" [] s \in Remote -> IF ready[s] THEN "request" ELSE "check"
               c == [call[s] EXCEPT !.vectors = vs, !.pc = pc]
    <3>1. call \in [Stores -> Calls] /\ call[s] \in Calls
      BY DEF IInv, Typed
    <3>2. call' = [call EXCEPT ![s] = c]
      BY <2>1, <3>1
    <3> HIDE DEF vs, pc
    <3>3. c.pc = pc /\ c.made = call[s].made
      BY <3>1 DEF Calls
    <3> HIDE DEF c
    <3>4. call'[s] = c /\ \A t \in Stores : t # s => call'[t] = call[t]
      BY <3>1, <3>2
    <3>5. QED
      BY <3>3, <3>4 DEF pc
  <2>4. Counted'
    <3>1. faults' \in 0..MaxFaults
      BY <2>1 DEF KInv, Counted
    <3>2. QED
      BY <2>2, <3>1 DEF KInv, Counted
  <2>5. call'[s].pc # "threw"
    BY <2>3, HomeOf
  <2>6. s \in Remote => Aware(s)'
    <3>1. SUFFICES ASSUME s \in Remote PROVE Aware(s)'
      OBVIOUS
    <3>2. Aware(s) /\ Tbl(s)' = Tbl(s) /\ call[s].made <= made[Home[s]]
      BY <2>2, <3>1 DEF KInv, Tbl, Aware, Busy
    <3>3. call'[s].pc = IF ready[s] THEN "request" ELSE "check"
      BY <2>3, <3>1, HomeOf
    <3>4. QED
      BY <2>2, <2>3, <3>2, <3>3 DEF Aware
  <2>7. QED
    BY <2>2, <2>3, <2>4, <2>5, <2>6, ServersRest, OneMoves
<1>4. QED
  BY <1>1, <1>2, <1>3 DEF Prepare

\* A vector of another size than that of the collection is a reason to throw.
LEMMA LocalExplained ==
    ASSUME IInv, KInv, NEW s \in Local, LocalStep(s) PROVE Explained
<1>1. /\ s \in Stores /\ At(s, "local")
      /\ UNCHANGED <<ready, connected, table, made, calls, faults, drops>>
  BY HomeOf DEF LocalStep, AddInMemory, AddFaiss, SearchLocal, server
<1>2. Counted' /\ \A b \in Servers : ServerMoves(b)
  BY <1>1, ServersRest DEF KInv, Counted
<1>3. \/ \E d : Answer(s, "returned", d)
      \/ Throw(s) /\ Mismatch(s)
  <2>1. CASE AddInMemory(s)
    BY <2>1 DEF AddInMemory, Return
  <2>2. CASE AddFaiss(s)
    <3> DEFINE d == IF dimension[s] = 0 THEN call[s].vectors[1].size ELSE dimension[s]
    <3>1. s \in Faiss /\ IF OneSize(s, d) THEN Return(s) ELSE Throw(s)
      BY <2>2 DEF AddFaiss
    <3>2. CASE OneSize(s, d)
      BY <3>1, <3>2 DEF Return
    <3>3. CASE ~OneSize(s, d)
      <4>1. PICK i \in DOMAIN call[s].vectors : call[s].vectors[i].size # d
        BY <3>3 DEF OneSize
      <4>2. 1 \in DOMAIN call[s].vectors
        <5>1. call[s].vectors \in Seq(Vectors)
          BY <1>1, CallSeen DEF Calls
        <5>2. QED
          BY <4>1, <5>1
      <4>3. CASE dimension[s] = 0
        BY <3>1, <3>3, <4>1, <4>2, <4>3 DEF Mismatch
      <4>4. CASE dimension[s] # 0
        BY <3>1, <3>3, <4>4 DEF Mismatch, OneSize
      <4>5. QED
        BY <4>3, <4>4
    <3>4. QED
      BY <3>2, <3>3
  <2>3. CASE SearchLocal(s)
    BY <2>3 DEF SearchLocal, Return, Mismatch
  <2>4. QED
    BY <2>1, <2>2, <2>3 DEF LocalStep
<1>4. CASE Throw(s) /\ Mismatch(s)
  BY <1>1, <1>2, <1>4, OneEnds DEF Throw, Cause
<1>5. ASSUME NEW d, Answer(s, "returned", d) PROVE Explained
  BY <1>1, <1>2, <1>5, OneEnds
<1>6. QED
  BY <1>3, <1>4, <1>5

\* A call that goes on keeps all but its place.
LEMMA GotoIs ==
    ASSUME IInv, NEW s \in Stores, NEW pc, Goto(s, pc)
    PROVE  /\ call'[s].pc = pc /\ call'[s].made = call[s].made
           /\ \A t \in Stores : t # s => call'[t] = call[t]
<1>1. call \in [Stores -> Calls] /\ call[s] \in Calls
  BY DEF IInv, Typed
<1> DEFINE c == [call[s] EXCEPT !.pc = pc]
<1>2. call' = [call EXCEPT ![s] = c]
  BY <1>1 DEF Goto
<1>3. c.pc = pc /\ c.made = call[s].made
  BY <1>1 DEF Calls
<1> HIDE DEF c
<1>4. QED
  BY <1>1, <1>2, <1>3

LEMMA CheckExplained ==
    ASSUME IInv, KInv, NEW s \in Remote, Check(s) PROVE Explained
<1>1. /\ s \in Stores /\ call[s].pc = "check" /\ ready' = [ready EXCEPT ![s] = Tbl(s).size # 0]
      /\ IF Tbl(s).size # 0 THEN Goto(s, "request") ELSE IF Adds(s) THEN Goto(s, "create") ELSE Return(s)
      /\ UNCHANGED <<connected, table, made, calls, faults, drops>>
  BY HomeOf DEF Check, At, server
<1>2. Counted' /\ \A b \in Servers : ServerMoves(b)
  <2>1. ready' \in [Remote -> BOOLEAN]
    BY <1>1 DEF KInv, Counted
  <2>2. QED
    BY <1>1, <2>1, ServersRest DEF KInv, Counted
<1>3. /\ \A t \in Stores : t # s => call'[t] = call[t]
      /\ call'[s].pc = IF Tbl(s).size # 0 THEN "request" ELSE IF Adds(s) THEN "create" ELSE "returned"
      /\ call'[s].pc # "returned" => call'[s].made = call[s].made
  <2>1. CASE Tbl(s).size # 0
    BY <1>1, <2>1, GotoIs
  <2>2. CASE Tbl(s).size = 0 /\ Adds(s)
    BY <1>1, <2>2, GotoIs
  <2>3. CASE Tbl(s).size = 0 /\ ~Adds(s)
    <3>1. call' = [call EXCEPT ![s] = Ended("returned", NoDocument)]
      BY <1>1, <2>3 DEF Return, Answer
    <3>2. Ended("returned", NoDocument).pc = "returned"
      BY DEF Ended, Call
    <3>3. call \in [Stores -> Calls]
      BY DEF IInv, Typed
    <3>4. call'[s].pc = "returned" /\ \A t \in Stores : t # s => call'[t] = call[t]
      BY <1>1, <3>1, <3>2, <3>3
    <3>5. QED
      BY <2>3, <3>4
  <2>4. QED
    BY <2>1, <2>2, <2>3
<1>4. (ready'[s] <=> Tbl(s).size # 0) /\ \A t \in Remote : t # s => ready'[t] = ready[t]
  BY <1>1 DEF KInv, Counted
<1>5. Aware(s)'
  <2>1. Tbl(s)' = Tbl(s) /\ call[s].made <= made[Home[s]]
    BY <1>1 DEF KInv, Tbl, Aware, Busy
  <2>2. ready'[s] => Tbl(s)'.size # 0
    BY <1>4, <2>1
  <2>3. call'[s].pc \in Busy => call'[s].made <= made'[Home[s]]
    BY <1>1, <1>3, <2>1 DEF Busy
  <2>4. call'[s].pc = "create" => Tbl(s)'.size = 0
    BY <1>3, <2>1
  <2>5. (call'[s].pc \in {"check", "create"} => ~ready'[s]) /\ (call'[s].pc = "request" => ready'[s])
    BY <1>3, <1>4
  <2>6. QED
    BY <2>2, <2>3, <2>4, <2>5 DEF Aware
<1>6. call'[s].pc # "threw"
  BY <1>3
<1>7. QED
  BY <1>1, <1>2, <1>3, <1>4, <1>5, <1>6, OneMoves

LEMMA CheckFailsExplained ==
    ASSUME IInv, KInv, NEW s \in Remote, CheckFails(s) PROVE Explained
<1>1. /\ s \in Stores /\ call[s].pc = "check" /\ Fault /\ Breaks(s)
      /\ UNCHANGED <<ready, table, made, calls, drops>>
      /\ \/ Answer(s, "threw", NoDocument) \/ Answer(s, "returned", NoDocument)
         \/ call' = [call EXCEPT ![s] = [@ EXCEPT !.pc = "create", !.hurt = TRUE]]
  BY HomeOf DEF CheckFails, At, server, Throw, Return
<1>2. Counted' /\ faults' > faults /\ \A b \in Servers : ServerMoves(b)
  BY <1>1, BreaksOne, OnlyFaults, ServersRest
<1>3. CASE call' = [call EXCEPT ![s] = [@ EXCEPT !.pc = "create", !.hurt = TRUE]]
  <2>1. /\ \A t \in Stores : t # s => call'[t] = call[t]
        /\ call'[s].pc = "create" /\ call'[s].hurt = TRUE /\ call'[s].made = call[s].made
    BY <1>1, <1>3, CallSeen DEF IInv, Typed, Calls
  <2>2. Aware(s) /\ Tbl(s)' = Tbl(s)
    BY <1>1 DEF KInv, Tbl
  <2>3. Aware(s)'
    <3>1. ~ready'[s] /\ call'[s].made <= made'[Home[s]]
      BY <1>1, <2>1, <2>2 DEF Aware, Busy
    <3>2. QED
      BY <2>1, <3>1 DEF Aware
  <2>4. QED
    BY <1>1, <1>2, <2>1, <2>3, OneMoves
<1>4. CASE Answer(s, "threw", NoDocument) \/ Answer(s, "returned", NoDocument)
  BY <1>1, <1>2, <1>4, OneEnds
<1>5. QED
  BY <1>1, <1>3, <1>4

\* A collection is made, or was there.
LEMMA MadeOrNot ==
    ASSUME IInv, KInv, NEW s \in Remote, call[s].pc = "create", drops' = drops,
           UNCHANGED <<table, made>> \/ (Tbl(s).size = 0 /\ MakeTable(s))
    PROVE  /\ \A b \in Servers : ServerMoves(b)
           /\ Tbl(s).size = 0 /\ MakeTable(s) => Tbl(s)'.size # 0
<1>1. CASE UNCHANGED <<table, made>> /\ ~(Tbl(s).size = 0 /\ MakeTable(s))
  BY <1>1, ServersRest
<1>2. CASE Tbl(s).size = 0 /\ MakeTable(s)
  <2>1. /\ Home[s] \in Servers /\ table \in [Servers -> Table] /\ made \in [Servers -> Nat]
        /\ table[Home[s]].size = 0 /\ call[s] \in Calls /\ InPlace(call[s], s) /\ s \notin InMemory
    BY <1>2, HomeOf, CallSeen DEF IInv, Typed, Tbl, Local
  <2>2. call[s].vectors[1].size \in Sizes
    <3>1. /\ call[s].vectors \in Seq(Vectors) /\ call[s].docs \in Seq(Documents) /\ call[s].docs # <<>>
          /\ DOMAIN call[s].vectors = DOMAIN call[s].docs
      BY <2>1 DEF Calls, InPlace
    <3>2. 1 \in DOMAIN call[s].docs
      BY <3>1
    <3>3. call[s].vectors[1] \in Vectors
      BY <3>1, <3>2
    <3>4. QED
      BY <3>3 DEF Vectors
  <2>3. table'[Home[s]].size = call[s].vectors[1].size /\ made'[Home[s]] = made[Home[s]] + 1
    BY <1>2, <2>1 DEF MakeTable, Table
  <2>4. \A b \in Servers : b # Home[s] => table'[b] = table[b] /\ made'[b] = made[b]
    BY <1>2, <2>1 DEF MakeTable
  <2>5. table'[Home[s]].size # 0
    BY <2>2, <2>3
  <2>6. QED
    BY <2>1, <2>3, <2>4, <2>5 DEF ServerMoves, Tbl
<1>3. QED
  BY <1>1, <1>2

LEMMA CreateExplained ==
    ASSUME IInv, KInv, NEW s \in Remote, Create(s) PROVE Explained
<1>1. /\ s \in Stores /\ call[s].pc = "create"
      /\ UNCHANGED <<connected, calls, faults, drops>>
      /\ UNCHANGED <<table, made>> \/ (Tbl(s).size = 0 /\ MakeTable(s))
      /\ Tbl(s).size = 0 => MakeTable(s)
      /\ IF Tbl(s).size = 0 \/ s \in PgVector
         THEN ready' = [ready EXCEPT ![s] = TRUE] /\ Goto(s, "request")
         ELSE UNCHANGED ready /\ Throw(s)
  BY HomeOf DEF Create, At, server
<1>2. /\ \A b \in Servers : ServerMoves(b)
      /\ Tbl(s).size = 0 /\ MakeTable(s) => Tbl(s)'.size # 0
  BY <1>1, MadeOrNot
<1>3. Counted'
  <2>1. ready' \in [Remote -> BOOLEAN]
    BY <1>1 DEF KInv, Counted
  <2>2. QED
    BY <1>1, <2>1 DEF KInv, Counted
<1>4. CASE Tbl(s).size = 0 \/ s \in PgVector
  <2>1. ready' = [ready EXCEPT ![s] = TRUE] /\ Goto(s, "request")
    BY <1>1, <1>4
  <2>2. /\ \A t \in Stores : t # s => call'[t] = call[t]
        /\ call'[s].pc = "request" /\ call'[s].made = call[s].made
    BY <1>1, <2>1, CallSeen DEF Goto, IInv, Typed, Calls
  <2>3. ready'[s] /\ \A t \in Remote : t # s => ready'[t] = ready[t]
    BY <2>1 DEF KInv, Counted
  <2>4. Tbl(s)'.size # 0
    <3>1. CASE Tbl(s).size = 0
      BY <1>1, <1>2, <3>1
    <3>2. CASE Tbl(s).size # 0
      BY <1>1, <3>2 DEF Tbl
    <3>3. QED
      BY <3>1, <3>2
  <2>5. call'[s].made <= made'[Home[s]]
    <3>1. call[s].made <= made[Home[s]] /\ made[Home[s]] <= made'[Home[s]]
          /\ call[s].made \in Nat /\ made[Home[s]] \in Nat /\ made'[Home[s]] \in Nat
      BY <1>1, <1>2, Numbers DEF KInv, Aware, Busy, ServerMoves
    <3>2. QED
      BY <2>2, <3>1
  <2>6. Aware(s)'
    BY <2>2, <2>3, <2>4, <2>5 DEF Aware
  <2>7. QED
    BY <1>1, <1>2, <1>3, <2>2, <2>3, <2>6, OneMoves
<1>5. CASE ~(Tbl(s).size = 0 \/ s \in PgVector)
  <2>1. ready' = ready /\ Answer(s, "threw", NoDocument)
    BY <1>1, <1>5 DEF Throw
  <2>2. call[s].hurt \/ call[s].made < made[Home[s]]
    BY <1>1, <1>5 DEF KInv, Aware
  <2>3. s \in Qdrant /\ ~ready[s]
    BY <1>1, <1>5 DEF KInv, Aware, Remote
  <2>4. Cause(s)
    <3>1. call[s].made < made[Home[s]] => made[Home[s]] > call[s].made
      BY <1>1, Numbers
    <3>2. QED
      BY <2>2, <2>3, <3>1 DEF Cause
  <2>5. QED
    BY <1>1, <1>2, <1>3, <2>1, <2>4, OneEnds
<1>6. QED
  BY <1>4, <1>5

LEMMA CreateFailsExplained ==
    ASSUME IInv, KInv, NEW s \in Remote, CreateFails(s) PROVE Explained
<1>1. /\ s \in Stores /\ call[s].pc = "create" /\ Fault /\ Breaks(s) /\ Answer(s, "threw", NoDocument)
      /\ UNCHANGED <<ready, calls, drops>>
      /\ UNCHANGED <<table, made>> \/ (Tbl(s).size = 0 /\ MakeTable(s))
  BY HomeOf DEF CreateFails, At, server, Throw
<1>2. Counted' /\ faults' > faults /\ \A b \in Servers : ServerMoves(b)
  BY <1>1, BreaksOne, OnlyFaults, MadeOrNot
<1>3. QED
  BY <1>1, <1>2, OneEnds

LEMMA SizesKept ==
    ASSUME IInv, NEW b \in Servers, NEW rows,
           table' = table \/ table' = [table EXCEPT ![b].rows = @ \o rows]
    PROVE  \A x \in Servers : table'[x].size = table[x].size
<1>1. table \in [Servers -> Table] /\ table[b] \in Table
  BY DEF IInv, Typed
<1>2. CASE table' = [table EXCEPT ![b].rows = @ \o rows]
  <2> DEFINE t == [table[b] EXCEPT !.rows = table[b].rows \o rows]
  <2>1. t.size = table[b].size
    BY <1>1 DEF Table
  <2>2. table' = [table EXCEPT ![b] = t]
    BY <1>2
  <2> HIDE DEF t
  <2>3. QED
    BY <1>1, <2>1, <2>2
<1>3. QED
  BY <1>2

\* Whoever makes a request had seen the collection: it is there, or was deleted.
LEMMA RequestExplained ==
    ASSUME IInv, KInv, NEW s \in Remote, Upsert(s) \/ SearchServer(s) PROVE Explained
<1>1. /\ s \in Stores /\ Home[s] \in Servers /\ call[s].pc = "request"
      /\ UNCHANGED <<ready, connected, made, calls, faults, drops>>
  BY HomeOf DEF Upsert, SearchServer, At, server
<1>2. Counted'
  BY <1>1 DEF KInv, Counted
<1>3. \A b \in Servers : table'[b].size = table[b].size
  <2>1. \/ table' = table
        \/ table' = [table EXCEPT ![Home[s]].rows = @ \o Rows(call[s])]
    BY DEF Upsert, SearchServer, server
  <2>2. QED
    BY <1>1, <2>1, SizesKept
<1>4. \A b \in Servers : ServerMoves(b)
  BY <1>1, <1>3 DEF ServerMoves
<1>5. \/ \E d : Answer(s, "answered", d)
      \/ /\ Answer(s, "threw", NoDocument)
         /\ Tbl(s).size # 0 => ~OneSize(s, Tbl(s).size)
  <2>1. CASE Upsert(s)
    <3>1. CASE Fits(Tbl(s), Rows(call[s]))
      BY <2>1, <3>1 DEF Upsert
    <3>2. CASE ~Fits(Tbl(s), Rows(call[s]))
      <4>1. DOMAIN call[s].vectors = DOMAIN call[s].docs
        BY <1>1, CallSeen DEF InPlace
      <4>2. Tbl(s).size # 0 => ~OneSize(s, Tbl(s).size)
        BY <3>2, <4>1 DEF Fits, Rows, OneSize
      <4>3. QED
        BY <2>1, <3>2, <4>2 DEF Upsert, Throw
    <3>3. QED
      BY <3>1, <3>2
  <2>2. CASE SearchServer(s)
    BY <2>2 DEF SearchServer, Throw
  <2>3. QED
    BY <2>1, <2>2
<1>6. CASE Answer(s, "threw", NoDocument) /\ (Tbl(s).size # 0 => ~OneSize(s, Tbl(s).size))
  <2>1. ready[s] /\ (Tbl(s).size = 0 => drops > 0)
    BY <1>1 DEF KInv, Aware
  <2>2. Cause(s)
    BY <1>6, <2>1 DEF Cause, Mismatch
  <2>3. QED
    BY <1>1, <1>2, <1>4, <1>6, <2>2, OneEnds
<1>7. ASSUME NEW d, Answer(s, "answered", d) PROVE Explained
  BY <1>1, <1>2, <1>4, <1>7, OneEnds
<1>8. QED
  BY <1>5, <1>6, <1>7

LEMMA RemoteExplained ==
    ASSUME IInv, KInv, NEW s \in Remote, RemoteStep(s) PROVE Explained
<1>1. CASE Unusable(s)
  <2>1. /\ s \in Stores /\ Answer(s, "threw", NoDocument) /\ ~Usable(s)
        /\ UNCHANGED <<ready, connected, table, made, calls, faults, drops>>
    BY <1>1, HomeOf DEF Unusable, Throw, server
  <2>2. Counted' /\ Cause(s)
    BY <2>1 DEF KInv, Counted, Cause, Usable
  <2>3. QED
    BY <2>1, <2>2, ServersRest, OneEnds
<1>2. CASE Receive(s)
  <2>1. /\ s \in Stores /\ Goto(s, "returned")
        /\ UNCHANGED <<ready, connected, table, made, calls, faults, drops>>
    BY <1>2, HomeOf DEF Receive, server
  <2>2. call'[s].pc = "returned" /\ \A t \in Stores : t # s => call'[t] = call[t]
    BY <2>1, CallSeen DEF Goto, IInv, Typed, Calls
  <2>3. Counted' /\ \A b \in Servers : ServerMoves(b)
    BY <2>1, ServersRest DEF KInv, Counted
  <2>4. Aware(s)'
    BY <2>1, <2>2, <2>3, HomeOf, AwareKept DEF Busy
  <2>5. QED
    BY <2>1, <2>2, <2>3, <2>4, OneMoves
<1>3. CASE RequestFails(s)
  <2>1. /\ s \in Stores /\ Fault /\ Breaks(s) /\ Answer(s, "threw", NoDocument)
        /\ UNCHANGED <<ready, table, made, calls, drops>>
    BY <1>3, HomeOf DEF RequestFails, Throw, server
  <2>2. Counted' /\ faults' > faults
    BY <2>1, BreaksOne, OnlyFaults
  <2>3. QED
    BY <2>1, <2>2, ServersRest, OneEnds
<1>4. CASE RenderThrows(s)
  <2>1. /\ s \in Stores /\ Fault /\ Answer(s, "threw", NoDocument)
        /\ UNCHANGED <<ready, connected, table, made, calls, drops>>
    BY <1>4, HomeOf DEF RenderThrows, Throw, server
  <2>2. Counted' /\ faults' > faults
    BY <2>1, OnlyFaults DEF KInv, Counted
  <2>3. QED
    BY <2>1, <2>2, ServersRest, OneEnds
<1>5. QED
  BY <1>1, <1>2, <1>3, <1>4, CheckExplained, CheckFailsExplained, CreateExplained,
     CreateFailsExplained, RequestExplained DEF RemoteStep

\* A step of nobody's call.
LEMMA NobodyMoves ==
    ASSUME IInv, KInv, Counted', UNCHANGED <<ready, call>>, \A b \in Servers : ServerMoves(b)
    PROVE  Explained
<1>1. \A t \in Remote : Aware(t)'
  BY HomeOf, AwareKept
<1>2. \A t \in Stores : Running(t) => call'[t].pc # "threw"
  BY DEF Running
<1>3. QED
  BY <1>1, <1>2 DEF Explained, KInv

LEMMA LateExplained ==
    ASSUME IInv, KInv, NEW batch \in late, UpsertLate(batch) PROVE Explained
<1>1. UNCHANGED <<ready, connected, made, call, calls, faults, drops>>
  BY DEF UpsertLate
<1>2. Counted'
  BY <1>1 DEF KInv, Counted
<1>3. \A b \in Servers : table'[b].size = table[b].size
  <2>1. \/ table' = table
        \/ table' = [table EXCEPT ![batch.home].rows = @ \o batch.rows]
    BY DEF UpsertLate
  <2>2. batch.home \in Servers
    BY DEF IInv, Typed
  <2>3. QED
    BY <2>1, <2>2, SizesKept
<1>4. QED
  BY <1>1, <1>2, <1>3, NobodyMoves DEF ServerMoves

LEMMA DropExplained ==
    ASSUME IInv, KInv, NEW b \in Servers, Drop(b) PROVE Explained
<1>1. /\ table' = [table EXCEPT ![b] = NoTable] /\ drops' = drops + 1 /\ drops < MaxDrops
      /\ UNCHANGED <<ready, connected, made, call, calls, faults>>
  BY DEF Drop
<1>2. Counted'
  <2>1. drops' \in 0..MaxDrops
    BY <1>1 DEF KInv, Counted
  <2>2. QED
    BY <1>1, <2>1 DEF KInv, Counted
<1>3. \A x \in Servers : table'[x] = IF x = b THEN NoTable ELSE table[x]
  BY <1>1 DEF IInv, Typed
<1>4. \A x \in Servers : ServerMoves(x)
  BY <1>1, <1>3 DEF ServerMoves, NoTable
<1>5. QED
  BY <1>1, <1>2, <1>4, NobodyMoves

LEMMA StepExplained ==
    ASSUME IInv, KInv, [Next]_vars PROVE Explained
<1>1. CASE UNCHANGED vars
  <2>1. UNCHANGED <<ready, connected, table, made, call, calls, faults, drops>>
    BY <1>1 DEF vars, server
  <2>2. Counted'
    BY <2>1 DEF KInv, Counted
  <2>3. QED
    BY <2>1, <2>2, ServersRest, NobodyMoves
<1>2. ASSUME NEW s \in Stores, AddDocuments(s) \/ SimilaritySearch(s) \/ Prepare(s) PROVE Explained
  <2>1. CASE AddDocuments(s)
    BY <2>1, StartExplained DEF AddDocuments
  <2>2. CASE SimilaritySearch(s)
    <3>1. PICK d \in Documents : Start(s, "search", <<d>>)
      BY <2>2 DEF SimilaritySearch
    <3>2. QED
      BY <3>1, StartExplained
  <2>3. QED
    BY <1>2, <2>1, <2>2, PrepareExplained
<1>3. QED
  BY <1>1, <1>2, LocalExplained, RemoteExplained, LateExplained, DropExplained DEF Next

LEMMA InitKInv == Init => KInv
<1> SUFFICES ASSUME Init PROVE KInv
  OBVIOUS
<1>1. \A s \in Remote : call[s].pc = "returned" /\ ready[s] = FALSE
  BY HomeOf DEF Init, Ended, Call
<1>2. QED
  BY <1>1 DEF Init, KInv, Counted, Aware, Busy

\* However many stores, servers' failures and deletions: a call throws only because
\* embeddings or network failed in it, vectors do not fit, the collection was
\* deleted, another store won the race to create it, or the connection was lost
\* before (the exceptions of *_vector_store.cpp).
THEOREM ThrowsOnlyForCause == Spec => ThrowsForCause
<1>1. Init => IInv /\ KInv
  BY InitIInv, InitKInv
<1>2. IInv /\ KInv /\ [Next]_vars => IInv' /\ KInv'
  BY StepSimulates, StepExplained DEF Simulates, Explained
<1>3. IInv /\ KInv /\ [Next]_vars
      => [\A s \in Stores : Running(s) /\ call'[s].pc = "threw" => Cause(s) \/ faults' > faults]_vars
  BY StepExplained DEF Explained
<1>4. QED
  BY <1>1, <1>2, <1>3, PTL DEF Spec, ThrowsForCause

LEMMA JoinedSplit ==
    ASSUME NEW S, NEW old \in Seq(S), NEW new \in Seq(S), NEW i \in DOMAIN (old \o new)
    PROVE  \/ i \in DOMAIN old /\ (old \o new)[i] = old[i]
           \/ \E j \in DOMAIN new : (old \o new)[i] = new[j]
<1>1. i \in 1..(Len(old) + Len(new)) /\ Len(old) \in Nat /\ Len(new) \in Nat
  BY Joined
<1>2. CASE i <= Len(old)
  BY <1>1, <1>2, Joined
<1>3. CASE ~(i <= Len(old))
  <2>1. i - Len(old) \in DOMAIN new /\ (old \o new)[i] = new[i - Len(old)]
    BY <1>1, <1>3, Joined
  <2>2. QED
    BY <2>1
<1>4. QED
  BY <1>2, <1>3

\* Vectors are added to those of the same size.
LEMMA AddFaissSized ==
    ASSUME IInv, Sized, NEW s \in Faiss, AddFaiss(s) PROVE Sized'
<1> DEFINE d == IF dimension[s] = 0 THEN call[s].vectors[1].size ELSE dimension[s]
<1>1. /\ s \in Local /\ s \in Stores /\ dimension' = [dimension EXCEPT ![s] = d] /\ table' = table
      /\ IF OneSize(s, d) THEN Keep(s) ELSE vectors' = vectors
  BY HomeOf DEF AddFaiss, server, Local
<1>2. /\ dimension \in [Faiss -> Sizes \cup {0}] /\ vectors \in [Local -> Seq(Vectors)]
      /\ vectors[s] \in Seq(Vectors) /\ call[s].vectors \in Seq(Vectors) /\ Faiss \subseteq Local
  BY <1>1, CallSeen DEF IInv, Typed, Calls, Local
<1>3. \A i \in DOMAIN vectors[s] : vectors[s][i].size = dimension[s] /\ dimension[s] # 0
  <2>1. SUFFICES ASSUME NEW i \in DOMAIN vectors[s] PROVE vectors[s][i].size = dimension[s] /\ dimension[s] # 0
    OBVIOUS
  <2>2. vectors[s][i] \in Vectors
    BY <1>2
  <2>3. vectors[s][i].size \in Sizes
    BY <2>2 DEF Vectors
  <2>4. QED
    BY <2>3 DEF Sized
<1>4. \A i \in DOMAIN vectors[s] : vectors[s][i].size = d
  BY <1>3
<1>5. dimension'[s] = d /\ \A t \in Faiss : t # s => dimension'[t] = dimension[t]
  BY <1>1, <1>2
<1>6. CASE OneSize(s, d)
  <2>1. vectors' = [vectors EXCEPT ![s] = vectors[s] \o call[s].vectors]
    BY <1>1, <1>6 DEF Keep
  <2>2. vectors'[s] = vectors[s] \o call[s].vectors /\ \A t \in Faiss : t # s => vectors'[t] = vectors[t]
    BY <1>2, <2>1
  <2>3. \A i \in DOMAIN call[s].vectors : call[s].vectors[i].size = d
    BY <1>6 DEF OneSize
  <2> HIDE DEF d
  <2>4. \A i \in DOMAIN (vectors[s] \o call[s].vectors) : (vectors[s] \o call[s].vectors)[i].size = d
    <3> DEFINE old == vectors[s]
               new == call[s].vectors
    <3>1. /\ old \in Seq(Vectors) /\ \A i \in DOMAIN old : old[i].size = d
          /\ new \in Seq(Vectors) /\ \A i \in DOMAIN new : new[i].size = d
      BY <1>2, <1>4, <2>3
    <3> HIDE DEF old, new
    <3>2. \A i \in DOMAIN (old \o new) : (old \o new)[i].size = d
      BY <3>1, JoinedSplit
    <3>3. QED
      BY <3>2 DEF old, new
  <2>5. ASSUME NEW t \in Faiss, NEW i \in DOMAIN vectors'[t]
        PROVE  vectors'[t][i].size = dimension'[t]
    <3>1. CASE t = s
      <4>1. vectors'[t] = vectors[s] \o call[s].vectors /\ dimension'[t] = d
        BY <1>5, <2>2, <3>1
      <4>2. QED
        BY <2>4, <4>1
    <3>2. CASE t # s
      <4>1. vectors'[t] = vectors[t] /\ dimension'[t] = dimension[t]
        BY <1>5, <2>2, <3>2
      <4>2. QED
        BY <4>1 DEF Sized
    <3>3. QED
      BY <3>1, <3>2
  <2>6. QED
    BY <1>1, <2>5 DEF Sized
<1>7. CASE ~OneSize(s, d)
  <2>1. vectors' = vectors /\ table' = table
    BY <1>1, <1>7
  <2> HIDE DEF d
  <2>2. \A t \in Faiss : \A i \in DOMAIN vectors[t] : vectors[t][i].size = dimension'[t]
    BY <1>4, <1>5 DEF Sized
  <2>3. QED
    BY <2>1, <2>2 DEF Sized
<1>8. QED
  BY <1>6, <1>7

\* A batch that fits is added to a table.
LEMMA BatchSized ==
    ASSUME IInv, Sized, NEW b \in Servers, NEW rows \in Seq(Row), Fits(table[b], rows),
           table' = [table EXCEPT ![b].rows = @ \o rows], UNCHANGED <<vectors, dimension>>
    PROVE  Sized'
<1> DEFINE old == table[b].rows
           t == [table[b] EXCEPT !.rows = old \o rows]
<1>1. table \in [Servers -> Table] /\ table[b] \in Table /\ old \in Seq(Row)
  BY DEF IInv, Typed, Table
<1>2. t.rows = old \o rows /\ t.size = table[b].size
  BY <1>1 DEF Table
<1>3. table' = [table EXCEPT ![b] = t]
  OBVIOUS
<1>4. /\ \A i \in DOMAIN old : old[i].vector.size = table[b].size
      /\ \A i \in DOMAIN rows : rows[i].vector.size = table[b].size
  BY DEF Sized, Fits
<1> HIDE DEF old, t
<1>5. \A i \in DOMAIN (old \o rows) : (old \o rows)[i].vector.size = table[b].size
  <2>1. SUFFICES ASSUME NEW i \in DOMAIN (old \o rows)
                 PROVE  (old \o rows)[i].vector.size = table[b].size
    OBVIOUS
  <2>2. \/ i \in DOMAIN old /\ (old \o rows)[i] = old[i]
        \/ \E j \in DOMAIN rows : (old \o rows)[i] = rows[j]
    BY <1>1, JoinedSplit
  <2>3. QED
    BY <1>4, <2>2
<1>6. \A x \in Servers : table'[x] = IF x = b THEN t ELSE table[x]
  BY <1>1, <1>3
<1>7. ASSUME NEW x \in Servers, NEW i \in DOMAIN table'[x].rows
      PROVE  table'[x].rows[i].vector.size = table'[x].size
  <2>1. CASE x = b
    BY <1>2, <1>5, <1>6, <1>7, <2>1
  <2>2. CASE x # b
    BY <1>6, <1>7, <2>2 DEF Sized
  <2>3. QED
    BY <2>1, <2>2
<1>8. QED
  BY <1>7 DEF Sized

\* A table that is made, or deleted, has no rows.
LEMMA TablesSized ==
    ASSUME IInv, Sized, UNCHANGED <<vectors, dimension>>,
           \A b \in Servers : table'[b] = table[b] \/ table'[b].rows = <<>>
    PROVE  Sized'
<1>1. ASSUME NEW b \in Servers, NEW i \in DOMAIN table'[b].rows
      PROVE  table'[b].rows[i].vector.size = table'[b].size
  <2>1. CASE table'[b] = table[b]
    BY <1>1, <2>1 DEF Sized
  <2>2. CASE table'[b].rows = <<>>
    BY <1>1, <2>2
  <2>3. QED
    BY <2>1, <2>2
<1>2. QED
  BY <1>1 DEF Sized

LEMMA MakeTableSized ==
    ASSUME IInv, Sized, NEW s \in Remote, UNCHANGED <<vectors, dimension>>,
           table' = table \/ (Tbl(s).size = 0 /\ MakeTable(s))
    PROVE  Sized'
<1>1. Home[s] \in Servers /\ table \in [Servers -> Table] /\ table[Home[s]] \in Table
  BY HomeOf DEF IInv, Typed
<1>2. CASE Tbl(s).size = 0 /\ MakeTable(s)
  <2>1. table[Home[s]].rows = <<>>
    BY <1>1, <1>2 DEF IInv, NoneNoRows, Tbl
  <2> DEFINE t == [table[Home[s]] EXCEPT !.size = call[s].vectors[1].size]
  <2>2. t.rows = <<>>
    BY <1>1, <2>1 DEF Table
  <2>3. table' = [table EXCEPT ![Home[s]] = t]
    BY <1>2 DEF MakeTable
  <2> HIDE DEF t
  <2>4. \A b \in Servers : table'[b] = table[b] \/ table'[b].rows = <<>>
    BY <1>1, <2>2, <2>3
  <2>5. QED
    BY <2>4, TablesSized
<1>3. QED
  BY <1>2, TablesSized

LEMMA StepSized ==
    ASSUME IInv, Sized, [Next]_vars PROVE Sized'
<1>1. CASE UNCHANGED <<vectors, dimension, table>>
  BY <1>1 DEF Sized
<1>2. ASSUME NEW s \in Stores, AddDocuments(s) \/ SimilaritySearch(s) \/ Prepare(s) PROVE Sized'
  <2>1. UNCHANGED <<vectors, dimension, table>>
    BY <1>2 DEF AddDocuments, SimilaritySearch, Start, Prepare, Embed, EmbedThrows, ReturnAtOnce, object, server
  <2>2. QED
    BY <1>1, <2>1
<1>3. ASSUME NEW s \in Local, LocalStep(s) PROVE Sized'
  <2>1. CASE AddInMemory(s)
    <3>1. s \notin Faiss /\ UNCHANGED <<dimension, table>>
          /\ vectors' = [vectors EXCEPT ![s] = @ \o call[s].vectors]
      BY <2>1 DEF AddInMemory, Keep, server
    <3>2. \A t \in Faiss : vectors'[t] = vectors[t]
      BY <3>1 DEF IInv, Typed, Local
    <3>3. QED
      BY <3>1, <3>2 DEF Sized
  <2>2. CASE AddFaiss(s)
    BY <2>2, AddFaissSized DEF AddFaiss
  <2>3. CASE SearchLocal(s)
    BY <1>1, <2>3 DEF SearchLocal, object, server
  <2>4. QED
    BY <1>3, <2>1, <2>2, <2>3 DEF LocalStep
<1>4. ASSUME NEW s \in Remote, RemoteStep(s) PROVE Sized'
  <2>1. CASE Create(s) \/ CreateFails(s)
    <3>1. UNCHANGED <<vectors, dimension>> /\ (table' = table \/ (Tbl(s).size = 0 /\ MakeTable(s)))
      BY <2>1 DEF Create, CreateFails, object, server
    <3>2. QED
      BY <3>1, MakeTableSized
  <2>2. CASE Upsert(s)
    <3>1. UNCHANGED <<vectors, dimension>> /\ call[s].pc = "request" /\ Home[s] \in Servers
      BY <2>2, HomeOf DEF Upsert, At, object
    <3>2. CASE Fits(Tbl(s), Rows(call[s]))
      <4>1. table' = [table EXCEPT ![Home[s]].rows = @ \o Rows(call[s])]
            /\ Fits(table[Home[s]], Rows(call[s]))
        BY <2>2, <3>2 DEF Upsert, Tbl
      <4>2. QED
        BY <3>1, <4>1, RowsSent, BatchSized
    <3>3. CASE ~Fits(Tbl(s), Rows(call[s]))
      BY <1>1, <2>2, <3>1, <3>3 DEF Upsert
    <3>4. QED
      BY <3>2, <3>3
  <2>3. CASE \/ Unusable(s) \/ Check(s) \/ CheckFails(s) \/ RenderThrows(s) \/ SearchServer(s)
             \/ Receive(s) \/ RequestFails(s)
    <3>1. UNCHANGED <<vectors, dimension, table>>
      BY <2>3 DEF Unusable, Check, CheckFails, RenderThrows, SearchServer, Receive, RequestFails, object, server
    <3>2. QED
      BY <1>1, <3>1
  <2>4. QED
    BY <1>4, <2>1, <2>2, <2>3 DEF RemoteStep
<1>5. ASSUME NEW batch \in late, UpsertLate(batch) PROVE Sized'
  <2>1. batch.home \in Servers /\ batch.rows \in Seq(Row) /\ UNCHANGED <<vectors, dimension>>
    BY <1>5 DEF UpsertLate, IInv, Typed, object
  <2>2. CASE Fits(table[batch.home], batch.rows)
    BY <1>5, <2>1, <2>2, BatchSized DEF UpsertLate
  <2>3. CASE ~Fits(table[batch.home], batch.rows)
    BY <1>1, <1>5, <2>1, <2>3 DEF UpsertLate
  <2>4. QED
    BY <2>2, <2>3
<1>6. ASSUME NEW b \in Servers, Drop(b) PROVE Sized'
  <2>1. UNCHANGED <<vectors, dimension>> /\ table' = [table EXCEPT ![b] = NoTable] /\ NoTable.rows = <<>>
    BY <1>6 DEF Drop, object, NoTable
  <2>2. \A x \in Servers : table'[x] = table[x] \/ table'[x].rows = <<>>
    BY <2>1 DEF IInv, Typed
  <2>3. QED
    BY <2>1, <2>2, TablesSized
<1>7. CASE UNCHANGED vars
  BY <1>1, <1>7 DEF vars, object, server
<1>8. QED
  BY <1>2, <1>3, <1>4, <1>5, <1>6, <1>7 DEF Next

\* The fields of the stores and what is at the servers have the types the code gives
\* them; in particular an index and a table hold vectors of one size.
THEOREM TypeCorrect == Spec => []TypeOK
<1>1. Init => IInv /\ KInv /\ Sized
  <2>1. Init => Sized
    BY HomeOf DEF Init, Sized, NoTable, Local
  <2>2. QED
    BY <2>1, InitIInv, InitKInv
<1>2. IInv /\ KInv /\ Sized /\ [Next]_vars => IInv' /\ KInv' /\ Sized'
  BY StepSimulates, StepExplained, StepSized DEF Simulates, Explained
<1>3. ASSUME IInv, KInv, Sized PROVE TypeOK
  <2>1. \A s \in Local : Len(documents[s]) = Len(vectors[s])
    <3>1. SUFFICES ASSUME NEW s \in Local PROVE Len(documents[s]) = Len(vectors[s])
      OBVIOUS
    <3>2. documents[s] \in Seq(Entered) /\ vectors[s] \in Seq(Vectors) /\ DOMAIN documents[s] = DOMAIN vectors[s]
      BY <1>3 DEF IInv, Typed, Together
    <3>3. \A m, n \in Nat : 1..m = 1..n => m = n
      OBVIOUS
    <3>4. QED
      BY <3>2, <3>3
  <2>2. \A b \in Servers : /\ table[b].size \in Sizes \cup {0}
                           /\ Fits([table[b] EXCEPT !.size = IF @ = 0 THEN Usual ELSE @], table[b].rows)
    <3>1. SUFFICES ASSUME NEW b \in Servers
                   PROVE  /\ table[b].size \in Sizes \cup {0}
                          /\ Fits([table[b] EXCEPT !.size = IF @ = 0 THEN Usual ELSE @], table[b].rows)
      OBVIOUS
    <3> DEFINE size == IF table[b].size = 0 THEN Usual ELSE table[b].size
               t == [table[b] EXCEPT !.size = size]
    <3>2. table[b] \in Table
      BY <1>3 DEF IInv, Typed
    <3>3. t.size = size /\ table[b].size \in Sizes \cup {0} /\ size # 0
      BY <3>2 DEF Table
    <3>4. \A i \in DOMAIN table[b].rows : table[b].rows[i].vector.size = size
      <4>1. CASE table[b].size = 0
        <5>1. table[b].rows = <<>>
          BY <1>3, <4>1 DEF IInv, NoneNoRows
        <5>2. QED
          BY <5>1
      <4>2. CASE table[b].size # 0
        BY <1>3, <4>2 DEF Sized
      <4>3. QED
        BY <4>1, <4>2
    <3>5. Fits(t, table[b].rows)
      BY <3>3, <3>4 DEF Fits
    <3>6. QED
      BY <3>3, <3>5
  <2>3. \A s \in Stores : call[s].pc \in {"started", "local", "check", "create", "request", "answered", "returned", "threw"}
    <3>1. \A s \in Stores : call[s] \in Calls
      BY <1>3 DEF IInv, Typed
    <3>2. QED
      BY <3>1 DEF Calls, Busy
  <2>4. \A s \in Remote : ready[s] /\ drops = 0 => Tbl(s).size # 0
    <3>1. drops = 0 => ~(drops > 0)
      OBVIOUS
    <3>2. QED
      BY <1>3, <3>1 DEF KInv, Aware
  <2>5. \A s \in Faiss : dimension[s] \in Sizes \cup {0} /\ \A i \in DOMAIN vectors[s] : vectors[s][i].size = dimension[s]
    BY <1>3 DEF IInv, Typed, Sized
  <2>6. /\ ready \in [Remote -> BOOLEAN] /\ connected \in [PgVector -> BOOLEAN]
        /\ calls <= MaxCalls /\ faults <= MaxFaults /\ drops <= MaxDrops
    BY <1>3 DEF KInv, Counted
  <2>7. QED
    BY <2>1, <2>2, <2>3, <2>4, <2>5, <2>6 DEF TypeOK
<1>4. QED
  BY <1>1, <1>2, <1>3, PTL DEF Spec
=============================================================================
