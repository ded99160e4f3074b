------------------------------ MODULE CsvLoader ------------------------------
(***************************************************************************)
(* parse_csv (src/src/rag/loaders/csv_parser.cpp) and the documents that   *)
(* CsvLoader::load (csv_loader.cpp) makes of its rows.  A text, a field    *)
(* and a name are sequences of characters, a row is a sequence of fields.  *)
(* The names "source" and "row", under which the metadata also has the     *)
(* file and the row, are left out.                                         *)
(***************************************************************************)
EXTENDS Integers, Sequences, SequencesExt

Quote == "\""

Parsing == [rows |-> << >>, row |-> << >>, field |-> << >>,
            in_quotes |-> FALSE, started_with_quote |-> FALSE,
            skip |-> FALSE]   \* the next character has been read already

Keep(p, c) == [p EXCEPT !.field = Append(p.field, c)]
EndField(p) == [p EXCEPT !.row = Append(p.row, p.field), !.field = << >>,
                         !.started_with_quote = FALSE]
EndRow(p) ==
  LET q == EndField(p)
  IN  [q EXCEPT !.rows = Append(q.rows, q.row), !.row = << >>]

-----------------------------------------------------------------------------
(* Ways this code could be wrong, for the mutation checks.                 *)

\* Every quote ends a quoted field.
QuotedUnescaped(p, c, next) ==
  IF c = Quote THEN [p EXCEPT !.in_quotes = FALSE] ELSE Keep(p, c)

\* Cells are named by their place among those that are not empty.
MetadataShifted(header, row) ==
  LET filled == SelectSeq(row, LAMBDA cell : cell # << >>)
  IN  [n \in {header[i] : i \in DOMAIN filled \cap DOMAIN header} |->
         filled[CHOOSE i \in DOMAIN filled : header[i] = n]]

-----------------------------------------------------------------------------
\* In quotes everything is text but a quote, and that is too if it is doubled.
Quoted(p, c, next) ==
  IF c # Quote THEN Keep(p, c)
  ELSE IF next = Quote THEN [Keep(p, Quote) EXCEPT !.skip = TRUE]
  ELSE [p EXCEPT !.in_quotes = FALSE]

Unquoted(p, c, delimiter) ==
  CASE c = Quote /\ p.field = << >> /\ ~p.started_with_quote ->
         [p EXCEPT !.in_quotes = TRUE, !.started_with_quote = TRUE]
    [] c = delimiter -> EndField(p)
    [] c = "\r" -> p
    [] c = "\n" -> EndRow(p)
    [] OTHER -> Keep(p, c)

\* The last row needs no newline.
parse_csv(content, delimiter) ==
  LET Peek(i)    == IF i < Len(content) THEN content[i + 1] ELSE "\n"
      Read(p, i) == IF p.skip THEN [p EXCEPT !.skip = FALSE]
                    ELSE IF p.in_quotes THEN Quoted(p, content[i], Peek(i))
                    ELSE Unquoted(p, content[i], delimiter)
      end        == FoldLeftDomain(Read, Parsing, content)
  IN  IF end.field # << >> \/ end.row # << >> THEN EndRow(end).rows ELSE end.rows

-----------------------------------------------------------------------------
\* Of two columns with the same name the first is the content column ...
Column(header, content_column) ==
  CHOOSE i \in DOMAIN header :
    header[i] = content_column /\ \A j \in 1..(i - 1) : header[j] # content_column

\* ... and the last is in the metadata.  A cell without a name is left out.
Metadata(header, row) ==
  LET named == DOMAIN header \cap DOMAIN row
      LastNamed(n) == CHOOSE i \in named : /\ header[i] = n
                                           /\ \A j \in named : j > i => header[j] # n
  IN  [n \in {header[i] : i \in named} |-> row[LastNamed(n)]]

\* The content is the cell of the content column, or else all other cells with
\* their names, also of a row that does not reach the content column.
Content(header, row, chosen) ==
  LET others == SelectSeq([i \in 1..Len(header) |-> i], LAMBDA i : i <= Len(row) /\ i # chosen)
  IN  IF chosen \in DOMAIN row
      THEN << << row[chosen] >> >>
      ELSE [k \in 1..Len(others) |-> << header[others[k]], row[others[k]] >>]

\* A document for each row after the header; content_column is << >> if none is
\* configured, and one that the header does not name is an error.
load(content, delimiter, content_column) ==
  LET rows   == parse_csv(content, delimiter)
      header == rows[1]
      throws == rows # << >> /\ content_column # << >> /\ ~Contains(header, content_column)
      chosen == IF content_column = << >> THEN 0 ELSE Column(header, content_column)
  IN  [throws    |-> throws,
       documents |-> IF rows = << >> \/ throws THEN << >>
                     ELSE [i \in 1..(Len(rows) - 1) |->
                             [row |-> i - 1, metadata |-> Metadata(header, rows[i + 1]),
                              content |-> Content(header, rows[i + 1], chosen)]]]
=============================================================================
