------------------------------ MODULE MCReaders ------------------------------
(***************************************************************************)
(* What the library reads, for TLC: a stream of chat chunks, cut and lost  *)
(* anywhere, or a text of another kind, of which every one up to a length  *)
(* is tried.                                                               *)
(***************************************************************************)
EXTENDS ChatStream, MCInputs

CONSTANT Longest   \* a record: the length of the texts of each kind

Documents == INSTANCE TextSplitter
Csv       == INSTANCE CsvLoader
Load      == INSTANCE Loaders
Json      == INSTANCE JsonReplies

-----------------------------------------------------------------------------
\* A reply without calls, one whose call has its arguments in two parts, one
\* with two calls and no text.
MCReplies ==
  LET call(id, name, arguments) == [id |-> id, tool_name |-> name, arguments |-> arguments]
  IN  {[content |-> << "t1", "t2" >>, tool_calls |-> << >>],
       [content |-> << "t1" >>, tool_calls |-> << call("c1", "f", << "{", "}" >>) >>],
       [content |-> << >>,
        tool_calls |-> << call("c1", "f", << "{", "}" >>), call("c2", "g", << "[]" >>) >>]}

MCLongest == [stream |-> 0, document |-> 7, table |-> 6, page |-> 5, reply |-> 5,
              events |-> 3, settings |-> 4, prompt |-> 6, examples |-> 3, image |-> 4]

\* Letters are told apart by their places.
Letters == << "x1", "x2", "x3", "x4", "x5", "x6", "x7", "x8" >>
IsLetter(c) == \E i \in DOMAIN Letters : c = Letters[i]

Opening == {"b", "script", "style"}
Closing == [p |-> "</p>", script |-> "</script>", style |-> "</style>"]
Tags == Opening \cup {Closing[name] : name \in DOMAIN Closing}

\* What may come next in a text.
Alphabet ==
  LET letter == Letters[Len(text) + 1]
  IN  CASE kind = "stream"   -> {}
        [] kind = "document" -> {letter, " ", "/"}
        [] kind = "table"    -> {"a", "b", ",", "\"", "\n"}
        [] kind = "page"     -> {letter, " ", "&nbsp;"} \cup Tags
        [] kind = "reply"    -> {"a", "{", "}", "fence", "\n"}
        [] kind = "events"   -> {"comment", "blank", "progress"}
        [] kind = "settings" -> {"a", " ", "=", "#", "'", "\""}
        [] kind = "prompt"   -> {"a", "{", "}", "{k}", "{u}"}
        [] kind = "examples" -> DOMAIN VectorOf
        [] kind = "image"    -> {0, 1, 63, 128, 255}

Init ==
  /\ kind \in DOMAIN Longest
  /\ text = << >>
  /\ StreamInit
  /\ kind # "stream" => reply = CHOOSE r \in Replies : TRUE

Stream ==
  /\ kind = "stream"
  /\ StreamNext
  /\ UNCHANGED << kind, text >>

Grow ==
  /\ Len(text) < Longest[kind]
  /\ \E c \in Alphabet : text' = Append(text, c)
  /\ UNCHANGED << kind, streamVars >>

Next == Stream \/ Grow

Spec == Init /\ [][Next]_<< kind, text, streamVars >>

-----------------------------------------------------------------------------
(* RecursiveCharacterTextSplitter *)

Splitters ==
  LET config(size, overlap) ==
        [chunk_size |-> size, chunk_overlap |-> overlap,
         separators |-> << << "/", "/" >>, << "/" >>, << " " >>, << >> >>]
  IN  {config(3, 0), config(2, 2), config(3, 1), config(4, 2)}

Chunks(config) == Documents!split_text(config, text)
OnlyLetters(s) == SelectSeq(s, IsLetter)
Repeated(s) == {i \in 1..Len(s) : \E j \in 1..(i - 1) : s[i] = s[j]}
WithoutRepeats(s) ==
  LET once == SelectSeq([i \in 1..Len(s) |-> i], LAMBDA i : i \notin Repeated(s))
  IN  [k \in 1..Len(once) |-> s[once[k]]]

\* Neither at its ends nor in a row does the text have separators.
Plain ==
  /\ text # << >> => IsLetter(text[1]) /\ IsLetter(text[Len(text)])
  /\ \A i \in 1..(Len(text) - 1) : IsLetter(text[i]) \/ IsLetter(text[i + 1])

\* A PDF file of which the second page cannot be read, and what its chunks name.
Pages == [readable |-> TRUE, path |-> "p",
          pages |-> << [readable |-> TRUE, content |-> text], [readable |-> FALSE, content |-> << >>],
                       [readable |-> TRUE, content |-> text] >>]
FromPage(n, chunks) == [i \in DOMAIN chunks |-> Load!Document(chunks[i], [source |-> "p", page |-> n])]

\* The chunks hold every letter of the text, in order, and more than once only
\* in an overlap.  Without overlap the chunks of a plain text are parts of it
\* that are no longer than chunk_size; those of other texts may be longer
\* (recursive_character_text_splitter.cpp:88).  Each chunk names the page, or the
\* file, it is from.
ChunksMakeUpText ==
  kind = "document" =>
    \A config \in Splitters :
      LET chunks == Chunks(config)
          kept   == OnlyLetters(FlattenSeq(chunks))
      IN  /\ WithoutRepeats(kept) = OnlyLetters(text)
          /\ config.chunk_overlap = 0 =>
               /\ Repeated(kept) = {}
               /\ Plain => \A i \in 1..Len(chunks) :
                             /\ Len(chunks[i]) <= config.chunk_size
                             /\ Documents!Places(chunks[i], text) # {}
          /\ Documents!split_documents(config, Load!PdfLoader(Pages).documents)
               = FromPage(0, chunks) \o FromPage(2, chunks)
          /\ LET file   == [readable |-> TRUE, path |-> "p", content |-> text]
                 pieces == Documents!split_documents(config, Load!MarkdownLoader(file).documents)
             IN  pieces = [i \in DOMAIN chunks |-> Load!Document(chunks[i], [source |-> "p", type |-> "markdown"])]

-----------------------------------------------------------------------------
(* CsvLoader *)

\* A table as RFC 4180 has it written, with every cell in quotes.
InQuotes(cell) ==
  LET Escaped(c) == IF c = Csv!Quote THEN << c, c >> ELSE << c >>
  IN  << Csv!Quote >> \o FlattenSeq([i \in 1..Len(cell) |-> Escaped(cell[i])]) \o << Csv!Quote >>
Record(row) == Documents!join([i \in 1..Len(row) |-> InQuotes(row[i])], << "," >>) \o << "\n" >>
Written(rows) == FlattenSeq([i \in 1..Len(rows) |-> Record(rows[i])])

\* A table that is written in quotes is read as it was, whatever its cells
\* hold, and, if its columns have different names, each cell that has one is in
\* the metadata of its document under it; the content is the cell of the
\* content column, or, where there is none, every cell with its name.
TableSurvives ==
  kind = "table" =>
    LET rows   == Csv!parse_csv(text, ",")
        header == rows[1]
        Names  == {header[i] : i \in DOMAIN header}
        Holds(document, row, content_column) ==
          LET named  == DOMAIN header \cap DOMAIN row
              chosen == {i \in named : content_column # << >> /\ header[i] = content_column}
          IN  /\ \A i \in named : /\ header[i] \in DOMAIN document.metadata
                                  /\ document.metadata[header[i]] = row[i]
              /\ \A i \in chosen : document.content = << << row[i] >> >>
              /\ chosen = {} => \A i \in named : Contains(document.content, << header[i], row[i] >>)
    IN  /\ Csv!parse_csv(Written(rows), ",") = rows
        /\ rows # << >> /\ Cardinality(Names) = Len(header) =>
             \A content_column \in Names \cup {<< >>} :
               LET loaded == Csv!load(text, ",", content_column)
               IN  /\ ~loaded.throws /\ Len(loaded.documents) = Len(rows) - 1
                   /\ \A i \in DOMAIN loaded.documents :
                        /\ Holds(loaded.documents[i], rows[i + 1], content_column)
                        /\ loaded.documents[i].row = i - 1

-----------------------------------------------------------------------------
(* html_to_text *)

\* A page, word by word.
Words(c) ==
  CASE c \in Opening -> << "<", c, ">" >>
    [] \E name \in DOMAIN Closing : c = Closing[name] ->
         << "<", "/", CHOOSE name \in DOMAIN Closing : c = Closing[name], ">" >>
    [] c = "&nbsp;" -> << "&", "nbsp;" >>
    [] OTHER -> << c >>
Page == FlattenSeq([i \in 1..Len(text) |-> Words(text[i])])

\* For each place in the page, the tag that would end the script or style it is
\* in, or "visible".
Mode ==
  LET mode[i \in 1..Len(text)] ==
        IF i = 1 THEN "visible"
        ELSE CASE mode[i - 1] = "visible" /\ text[i - 1] \in DOMAIN Closing -> Closing[text[i - 1]]
               [] mode[i - 1] = text[i - 1] -> "visible"
               [] OTHER -> mode[i - 1]
  IN  mode
Seen(i)  == Mode[i] = "visible"
Inked(i) == Seen(i) /\ IsLetter(text[i])

\* What a reader sees of the page is in the text, in order, and nothing of its
\* scripts and styles; letters between which the page has a space or a tag that
\* does not open a block, a script or a style stay apart; white space is neither
\* doubled nor at the ends.  A style sheet that holds a script is left out: the script is removed
\* first, with whatever is before its end.
PageReadable ==
  kind = "page" /\ (\A i \in DOMAIN text : text[i] = "script" => Mode[i] # Closing.style) =>
    LET loaded == Load!WebLoader("u", [status |-> 200, body |-> Page])
        result == loaded.documents[1].content
        next   == {<< result[k], result[k + 1] >> : k \in 1..(Len(result) - 1)}
    IN  /\ Load!WebLoader("u", [status |-> 404, body |-> Page]).throws
        /\ loaded.documents[1].metadata.source = "u"
        /\ OnlyLetters(result) =
             OnlyLetters([i \in 1..Len(text) |-> IF Seen(i) THEN text[i] ELSE " "])
        /\ \A i, j \in DOMAIN text :
             /\ i < j /\ Inked(i) /\ Inked(j)
             /\ \E k \in i..j : Seen(k) /\ ~IsLetter(text[k]) /\ text[k] \notin DOMAIN Closing
             => << text[i], text[j] >> \notin next
        /\ << " ", " " >> \notin next
        /\ result # << >> => IsLetter(result[1]) /\ IsLetter(result[Len(result)])

-----------------------------------------------------------------------------
(* extract_json *)

\* A JSON object is found in prose that has no braces and in a fenced block,
\* whatever is around it, unless the object itself looks fenced: then what is
\* found is a part of it, or nothing.
JsonFound ==
  kind = "reply" =>
    LET json   == << "{" >> \o text \o << "}" >>
        Fences == {i \in DOMAIN text : text[i] = "fence"}
        LooksFenced == \E i, j \in Fences, n \in DOMAIN text : i < n /\ n < j /\ text[n] = "\n"
        Prose  == {<< >>, << "a" >>, << "a", "\n" >>}
        Block  == << "fence", "a", "\n" >> \o json \o << "\n", "fence" >>
    IN  \A before, after \in Prose :
          /\ ~LooksFenced => Json!extract_json(before \o json \o after) = Json!Found(json)
          /\ Fences = {} =>
               Json!extract_json(before \o Block \o << "{" >> \o after) = Json!Found(json)

=============================================================================
