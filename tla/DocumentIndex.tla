---------------------------- MODULE DocumentIndex ----------------------------
(***************************************************************************)
(* What a vector store promises, whatever it keeps its entries in: a call  *)
(* of add_documents() puts all of its documents in the index or none, once,*)
(* and it has done so when it returns; a call that throws may have done so *)
(* or do so later; a search that returns saw the index at one moment of    *)
(* the call and names the document that was indexed under the query, if    *)
(* there is one; or, in the step in which something failed and in a store  *)
(* that is lenient, it found nothing although there was something.         *)
(***************************************************************************)
EXTENDS Naturals, Sequences

CONSTANTS Stores,     \* the objects of the program
          Backends,   \* what they keep their entries in
          Home,       \* the backend of each store
          Lenient,    \* the stores that take a backend they cannot see for an empty one
          Documents, Batches,   \* what is indexed, and what may be added at once
          NoDocument  \* the answer of a search in an empty index

VARIABLES index,      \* the entries of each backend, in the order they came
          call,       \* the last call made on each store
          late,       \* batches of calls that threw while they were under way
          calls,      \* how many calls were made
          faults      \* how many failures of the embeddings, the network or a text there were

shown == <<index, call, late, calls>>
vars == <<shown, faults>>

Call(op, id, docs, state, answer) ==
    [op |-> op, id |-> id, docs |-> docs, state |-> state, answer |-> answer]
Ended(state, answer) == Call("none", 0, <<>>, state, answer)

Entry(document, id) == [document |-> document, call |-> id]
Entries(c) == [i \in DOMAIN c.docs |-> Entry(c.docs[i], c.id)]

\* The documents a search for `query` may put first.
Nearest(entries, query) ==
    LET found == {entries[i].document : i \in DOMAIN entries}
    IN  IF found = {} THEN {NoDocument} ELSE IF query \in found THEN {query} ELSE found

Init ==
    /\ index = [b \in Backends |-> <<>>]
    /\ call = [s \in Stores |-> Ended("done", NoDocument)]
    /\ late = {}
    /\ calls = 0 /\ faults = 0

-----------------------------------------------------------------------------
Pending(s) == call[s].state = "pending"

\* A call of add_documents(docs), or of similarity_search(docs[1], 1).
Begin(s, op, docs) ==
    /\ ~Pending(s)
    /\ calls' = calls + 1
    /\ call' = [call EXCEPT ![s] = Call(op, calls + 1, docs, "pending", NoDocument)]
    /\ UNCHANGED <<index, late>>

Add(s) ==
    /\ Pending(s) /\ call[s].op = "add"
    /\ index' = [index EXCEPT ![Home[s]] = @ \o Entries(call[s])]
    /\ call' = [call EXCEPT ![s] = Ended("done", NoDocument)]
    /\ UNCHANGED <<late, calls>>

Search(s) ==
    /\ Pending(s) /\ call[s].op = "search"
    /\ \E d \in Nearest(index[Home[s]], call[s].docs[1]) :
          call' = [call EXCEPT ![s] = Ended("done", d)]
    /\ UNCHANGED <<index, late, calls>>

\* The answer of a store that could not look is that there is nothing.
SearchBlind(s) ==
    /\ Pending(s) /\ call[s].op = "search"
    /\ call' = [call EXCEPT ![s] = Ended("done", NoDocument)]
    /\ faults' = faults + 1
    /\ UNCHANGED <<index, late, calls>>

\* The call throws. What it asked for may still be done, or may be done already.
Throw(s) ==
    /\ call[s].state # "failed"
    /\ call' = [call EXCEPT ![s] = Ended("failed", NoDocument)]
    /\ late' \in {late} \cup (IF Pending(s) /\ call[s].op = "add"
                              THEN {late \cup {[home |-> Home[s], entries |-> Entries(call[s])]}}
                              ELSE {})
    /\ UNCHANGED <<index, calls>>

AddLate(batch) ==
    /\ index' = [index EXCEPT ![batch.home] = @ \o batch.entries]
    /\ late' = late \ {batch}
    /\ UNCHANGED <<call, calls>>

Forget(batch) == late' = late \ {batch} /\ UNCHANGED <<index, call, calls>>

\* Somebody deletes the collection or the table.
Drop(b) == index' = [index EXCEPT ![b] = <<>>] /\ UNCHANGED <<call, late, calls>>

Operation ==
    \/ \E s \in Stores :
          \/ Add(s) \/ Search(s) \/ Throw(s)
          \/ \E docs \in Batches : Begin(s, "add", docs)
          \/ \E d \in Documents : Begin(s, "search", <<d>>)
    \/ \E batch \in late : AddLate(batch) \/ Forget(batch)
    \/ \E b \in Backends : Drop(b)

\* A failure ends a call, or comes with a step of one, or is survived.
Next ==
    /\ faults' \in {faults, faults + 1}
    /\ \/ Operation \/ UNCHANGED shown
       \/ \E s \in Lenient : SearchBlind(s)

Spec == Init /\ [][Next]_vars
=============================================================================
