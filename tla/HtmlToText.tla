----------------------------- MODULE HtmlToText -----------------------------
(***************************************************************************)
(* html_to_text (src/src/rag/loaders/html_to_text.cpp).  A page is a       *)
(* sequence of words: "<", ">", "/", the names of tags, "&", the names of  *)
(* entities, white space, and the text between them.  The code compares    *)
(* the beginnings of tags, in lower case, so a name stands for every tag   *)
(* that begins with it: "p" is also <pre>, whatever attributes it has.     *)
(***************************************************************************)
EXTENDS Texts

Entities == << << "nbsp;", " " >>, << "amp;", "&" >>, << "lt;", "<" >>, << "gt;", ">" >>,
               << "quot;", "\"" >>, << "apos;", "'" >>, << "#39;", "'" >> >>

Blocks == {"p", "div", "li", "h1", "h2", "h3", "h4", "h5", "h6", "tr"}

White == {" ", "\t", "\r"}

\* Everything from an opening tag to the end of the next closing tag; without
\* one, everything.
RECURSIVE remove_elements_entirely(_, _)
remove_elements_entirely(html, tag_name) ==
  LET opened == Places(<< "<", tag_name >>, html)
      open   == First(opened)
      closed == {c \in Places(<< "<", "/", tag_name >>, html) : c > open}
      ends   == {e \in Places(<< ">" >>, html) : e > First(closed)}
  IN  IF opened = {} THEN html
      ELSE SubSeq(html, 1, open - 1) \o
           IF closed = {} \/ ends = {} THEN << >>
           ELSE remove_elements_entirely(SubSeq(html, First(ends) + 1, Len(html)), tag_name)

is_closing_block_boundary(tag) ==
  tag # << >> /\ (tag[1] = "br" \/ (Len(tag) > 1 /\ tag[1] = "/" /\ tag[2] \in Blocks))

is_opening_block_tag(tag) == tag # << >> /\ tag[1] \in Blocks

\* What a ">" leaves of the tag it ends, and, outside of one, of the last tag.
Break(tag) ==
  IF is_closing_block_boundary(tag) THEN << "\n" >>
  ELSE IF is_opening_block_tag(tag) THEN << >>
  ELSE << " " >>

StripTags(html) ==
  LET Read(s, c) ==
        CASE c = "<" -> [s EXCEPT !.in_tag = TRUE, !.tag = << >>]
          [] c = ">" -> [s EXCEPT !.in_tag = FALSE, !.text = s.text \o Break(s.tag)]
          [] c \notin {"<", ">"} /\ s.in_tag  -> [s EXCEPT !.tag = Append(s.tag, c)]
          [] c \notin {"<", ">"} /\ ~s.in_tag -> [s EXCEPT !.text = Append(s.text, c)]
  IN  FoldLeft(Read, [text |-> << >>, in_tag |-> FALSE, tag |-> << >>], html).text

\* One entity after the other, so that an "&amp;" may make another entity.
decode_entities(text) ==
  FoldLeft(LAMBDA t, entity : join(split_string(t, << "&", entity[1] >>), << entity[2] >>),
           text, Entities)

\* Runs of white space become one space, runs of newlines one or two newlines.
Collapse(text) ==
  LET Pending(s) == IF s.newlines = 0 THEN << >>
                    ELSE IF s.newlines = 1 THEN << "\n" >>
                    ELSE << "\n", "\n" >>
      Read(s, c) ==
        IF c = "\n" THEN [s EXCEPT !.newlines = s.newlines + 1, !.space = FALSE]
        ELSE [text     |-> s.text \o Pending(s) \o
                           (IF c \notin White THEN << c >>
                            ELSE IF s.space THEN << >> ELSE << " " >>),
              newlines |-> 0,
              space    |-> c \in White]
      end == FoldLeft(Read, [text |-> << >>, newlines |-> 0, space |-> FALSE], text)
  IN  end.text \o Pending(end)

Trim(text) ==
  LET inked == {i \in 1..Len(text) : text[i] \notin {" ", "\t", "\n"}}
  IN  IF inked = {} THEN << >>
      ELSE SubSeq(text, First(inked), CHOOSE i \in inked : \A j \in inked : j <= i)

-----------------------------------------------------------------------------
(* Ways this code could be wrong, for the mutation checks.                 *)

\* Entities are decoded when the white space has been collapsed.
DecodedLate(html) ==
  Trim(decode_entities(Collapse(StripTags(
    remove_elements_entirely(remove_elements_entirely(html, "script"), "style")))))

-----------------------------------------------------------------------------
html_to_text(html) ==
  Trim(Collapse(decode_entities(StripTags(
    remove_elements_entirely(remove_elements_entirely(html, "script"), "style")))))
=============================================================================
