---------------------------- MODULE TextSplitter ----------------------------
(***************************************************************************)
(* RecursiveCharacterTextSplitter (src/src/rag/splitters/                  *)
(* recursive_character_text_splitter.cpp): splitting a text is a function  *)
(* of the text and the Config.                                             *)
(***************************************************************************)
EXTENDS Texts

\* The most pieces from the end that fit in the overlap.
overlap(config, pieces, separator) ==
  LET LastOnes(n) == SubSeq(pieces, Len(pieces) - n + 1, Len(pieces))
      fitting     == {n \in 0..Len(pieces) :
                        Len(join(LastOnes(n), separator)) <= config.chunk_overlap}
  IN  LastOnes(CHOOSE n \in fitting : \A m \in fitting : m <= n)

-----------------------------------------------------------------------------
(* Ways this code could be wrong, for the mutation checks.                 *)

\* A piece that does not fit is left out of the chunk it starts.
MergedWithoutPiece(config, so_far, piece, separator) ==
  LET grown == Append(so_far.current, piece)
  IN  IF so_far.current = << >> \/ Len(join(grown, separator)) <= config.chunk_size
      THEN [so_far EXCEPT !.current = grown]
      ELSE [chunks  |-> Append(so_far.chunks, join(so_far.current, separator)),
            current |-> overlap(config, so_far.current, separator)]

-----------------------------------------------------------------------------
\* A piece goes to the current chunk, or, when it does not fit, to a new one
\* after the overlap, whether it fits there or not.  current_len is the length
\* of the joined pieces.
Merged(config, so_far, piece, separator) ==
  LET grown == Append(so_far.current, piece)
  IN  IF so_far.current = << >> \/ Len(join(grown, separator)) <= config.chunk_size
      THEN [so_far EXCEPT !.current = grown]
      ELSE [chunks  |-> Append(so_far.chunks, join(so_far.current, separator)),
            current |-> Append(overlap(config, so_far.current, separator), piece)]

merge_splits(config, pieces, separator) ==
  LET Push(so_far, piece) == Merged(config, so_far, piece, separator)
      end == FoldLeft(Push, [chunks |-> << >>, current |-> << >>], pieces)
  IN  IF end.current = << >> THEN end.chunks
      ELSE Append(end.chunks, join(end.current, separator))

\* Pieces that are too long are split by the next separator first; their chunks
\* are then merged like any other pieces.
RECURSIVE split(_, _, _)
split(config, text, separator_index) ==
  LET separator == config.separators[separator_index]
      pieces    == split_string(text, separator)
      Fits(p)   == Len(p) <= config.chunk_size \/ separator_index = Len(config.separators)
  IN  merge_splits(config,
                   FlattenSeq([i \in 1..Len(pieces) |->
                                 IF Fits(pieces[i]) THEN << pieces[i] >>
                                 ELSE split(config, pieces[i], separator_index + 1)]),
                   separator)

split_text(config, text) == IF text = << >> THEN << >> ELSE split(config, text, 1)

\* A plausible bug, for the mutation checks: only the first chunk is given metadata.
split_documentsOnce(config, documents) ==
  LET Pieces(document) ==
        LET chunks == split_text(config, document.content)
        IN  [i \in DOMAIN chunks |-> [document EXCEPT !.content = chunks[i],
                                                      !.metadata = IF i = 1 THEN @ ELSE << >>]]
  IN  FlattenSeq([i \in DOMAIN documents |-> Pieces(documents[i])])

split_documents(config, documents) ==
  LET Pieces(document) ==
        LET chunks == split_text(config, document.content)
        IN  [i \in DOMAIN chunks |-> [document EXCEPT !.content = chunks[i]]]
  IN  FlattenSeq([i \in DOMAIN documents |-> Pieces(documents[i])])
=============================================================================
