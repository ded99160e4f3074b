------------------------------- MODULE Loaders -------------------------------
(***************************************************************************)
(* The document loaders of src/src/rag/loaders that read one file or page: *)
(* what there is to read becomes documents that name their source.  The    *)
(* one for tables is CsvLoader.                                            *)
(***************************************************************************)
EXTENDS HtmlToText

Document(content, metadata) == [content |-> content, metadata |-> metadata]
Throws            == [throws |-> TRUE, documents |-> << >>]
Loaded(documents) == [throws |-> FALSE, documents |-> documents]

TextLoader(file) ==
  IF ~file.readable THEN Throws
  ELSE Loaded(<< Document(file.content, [source |-> file.path]) >>)

MarkdownLoader(file) ==
  LET loaded == TextLoader(file)
  IN  [loaded EXCEPT !.documents =
         [i \in DOMAIN @ |-> Document(@[i].content, [source |-> @[i].metadata.source, type |-> "markdown"])]]

\* A plausible bug, for the mutation checks: pages are numbered as they are read.
PdfLoaderCounting(file) ==
  LET pages == SelectSeq(file.pages, LAMBDA page : page.readable)
  IN  IF ~file.readable THEN Throws
      ELSE Loaded([i \in DOMAIN pages |->
                     Document(pages[i].content, [source |-> file.path, page |-> i - 1])])

\* A page that cannot be read is passed over; the others keep their numbers.
PdfLoader(file) ==
  LET numbered == [i \in DOMAIN file.pages |->
                     [readable |-> file.pages[i].readable,
                      document |-> Document(file.pages[i].content, [source |-> file.path, page |-> i - 1])]]
      pages    == SelectSeq(numbered, LAMBDA page : page.readable)
  IN  IF ~file.readable THEN Throws ELSE Loaded([i \in DOMAIN pages |-> pages[i].document])

WebLoader(url, response) ==
  IF response.status # 200 THEN Throws
  ELSE Loaded(<< Document(html_to_text(response.body), [source |-> url]) >>)
=============================================================================
