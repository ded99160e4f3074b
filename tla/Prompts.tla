------------------------------- MODULE Prompts -------------------------------
(***************************************************************************)
(* The templates of src/src/prompts: a template is a sequence of           *)
(* characters, PromptValues a function from names (which are sequences) to *)
(* sequences.                                                              *)
(***************************************************************************)
EXTENDS Texts

After(place, places) == {i \in places : i > place}

\* A plausible bug, for the mutation checks: what has no value is removed.
FilledOrEmpty(placeholder, values) ==
  LET name == SubSeq(placeholder, 2, Len(placeholder) - 1)
  IN  IF name \in DOMAIN values THEN values[name] ELSE << >>

Filled(placeholder, values) ==
  LET name == SubSeq(placeholder, 2, Len(placeholder) - 1)
  IN  IF name \in DOMAIN values THEN values[name] ELSE placeholder

\* From each "{" to the next "}" is a placeholder, also over another "{".
RECURSIVE render_template(_, _)
render_template(template, values) ==
  LET opening == Places(<< "{" >>, template)
      closing == After(First(opening), Places(<< "}" >>, template))
  IN  IF opening = {} \/ closing = {} THEN template
      ELSE SubSeq(template, 1, First(opening) - 1)
           \o Filled(SubSeq(template, First(opening), First(closing)), values)
           \o render_template(SubSeq(template, First(closing) + 1, Len(template)), values)

\* ChatPromptTemplate: one message for each pair of a role and a template.
format_messages(templates, values) ==
  [i \in DOMAIN templates |-> [role    |-> templates[i].role,
                               content |-> render_template(templates[i].template, values)]]

\* FewShotPromptTemplate: the prefix is not a template.
format_few_shot(config, examples, values) ==
  LET prefix == IF config.prefix = << >> THEN << >> ELSE << config.prefix >>
      shown  == [i \in DOMAIN examples |-> render_template(config.example_template, examples[i])]
  IN  join(prefix \o shown \o << render_template(config.suffix, values) >>, config.example_separator)
=============================================================================
