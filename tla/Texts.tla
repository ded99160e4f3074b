------------------------------- MODULE Texts -------------------------------
(***************************************************************************)
(* Searching, cutting and joining texts, as std::string and the helpers of *)
(* src/src/rag/splitters/recursive_character_text_splitter.cpp do.  A text *)
(* is a sequence of characters, or of words that are never cut.            *)
(***************************************************************************)
EXTENDS Integers, Sequences, SequencesExt

\* Where separator can be found in text.
Places(separator, text) ==
  {i \in 1..(Len(text) - Len(separator) + 1) :
     SubSeq(text, i, i + Len(separator) - 1) = separator}

First(places) == CHOOSE i \in places : \A j \in places : i <= j

\* Cut at the first separator, then at the first one in the rest.
RECURSIVE split_string(_, _)
split_string(text, separator) ==
  IF separator = << >>
  THEN [i \in 1..Len(text) |-> << text[i] >>]
  ELSE LET found == Places(separator, text)
           at    == First(found)
       IN  IF found = {}
           THEN << text >>
           ELSE << SubSeq(text, 1, at - 1) >>
                \o split_string(SubSeq(text, at + Len(separator), Len(text)), separator)

join(pieces, separator) ==
  FlattenSeq([i \in 1..Len(pieces) |->
                IF i = 1 THEN pieces[i] ELSE separator \o pieces[i]])
=============================================================================
