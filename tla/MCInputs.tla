------------------------------ MODULE MCInputs ------------------------------
(***************************************************************************)
(* What else is read, for MCReaders: answers over HTTP, .env files,        *)
(* templates, examples and images; each is made of `text`, by `kind`.      *)
(***************************************************************************)
EXTENDS Integers, Sequences, FiniteSets, SequencesExt

VARIABLES kind, text

Http      == INSTANCE HttpReplies
Env       == INSTANCE Settings
Prompt    == INSTANCE Prompts
Embed     == INSTANCE Embeddings
Image     == INSTANCE Images

-----------------------------------------------------------------------------
(* HttpClientTransport *)

\* A body that was cut at the nth place, of a response that came after `text`, and
\* whose object is in one line or in two.
Event(lines, end) == FlattenSeq([i \in 1..Len(lines) |-> << "data:", " " >> \o lines[i] \o end])
Interim(end) ==
  [comment |-> << ":" >> \o end, blank |-> end, progress |-> Event(<< Http!Object("notification") >>, end) \o end]
Before(end) == FlattenSeq([i \in 1..Len(text) |-> Interim(end)[text[i]]])
InLines(of) == {<< Http!Object(of) >>, << << "{" >>, << of, "}" >> >>}
Answer(status, session, content_type, body) ==
  [status |-> status, session |-> session, content_type |-> content_type, body |-> body]

\* The answer to a request over HTTP, in a JSON body or as the last event of a
\* stream, after comments, blank lines and progress: what is there whole is
\* returned if it is a result, and throws if it is an error or its status is not
\* 200; what is cut short throws.  Not so, though, if it is cut between an event
\* of progress and the answer: {} is the result (http_client_transport.cpp:90-104).
\* The session an answer names is kept also if the request failed.
ResponseRead ==
  kind = "events" =>
    \A of \in {"result", "error"}, status \in {200, 404} :
      LET Outcome(content_type, body) == Http!Received(Answer(status, "s1", content_type, body))
          Expected == IF of = "result" /\ status = 200 THEN Http!Returns("result") ELSE Http!Throws
          object   == Http!Object(of)
      IN  /\ Outcome("application/json", object) = Expected
          /\ \A n \in 0..(Len(object) - 1) :
               Outcome("application/json", SubSeq(object, 1, n)) = Http!Throws
          /\ \A end \in {<< "\n" >>, << "\r", "\n" >>}, lines \in InLines(of) :
               LET body  == Before(end) \o Event(lines, end)
                   begun == Len(Before(end)) + 1
                   whole == Len(body) - Len(end)
               IN  /\ Outcome("text/event-stream", body \o end) = Expected
                   /\ \A n \in 0..Len(body) :
                        LET outcome == Outcome("text/event-stream", SubSeq(body, 1, n))
                        IN  CASE n >= whole -> outcome = Expected
                              [] n >= begun -> outcome = Http!Throws
                              [] OTHER ->
                                   \/ outcome = Http!Throws
                                   \/ status = 200 /\ outcome = Http!Returns("{}")
                                      /\ \E i \in DOMAIN text : text[i] = "progress"
          /\ \A kept \in {"", "s0"} :
               /\ Http!session_id(kept, Answer(status, "s1", "", << >>)) = "s1"
               /\ Http!session_id(kept, Answer(status, "", "", << >>)) = kept

-----------------------------------------------------------------------------
(* load_dotenv, resolve_api_key *)

\* The key is in the file in quotes, or as it is if it has none around it.
Assigned(name, key) ==
  LET quoted(q) == << " ", name, " ", "=", " ", q >> \o key \o << q, "\r" >>
  IN  {quoted("'"), quoted("\"")}
      \cup (IF Env!strip_quotes(Env!trim(key)) = key THEN {<< name, "=" >> \o key} ELSE {})
EnvFile(before, line, name) == before \o << "\n" >> \o line \o << "\n", name, "=", "b" >>

\* The variable of each class, and the key it is constructed with.
Variable ==
  [OpenAIChat |-> "OPENAI_API_KEY", OpenAIEmbeddings |-> "OPENAI_API_KEY",
   AnthropicChat |-> "ANTHROPIC_API_KEY",
   GeminiChat |-> "GOOGLE_API_KEY", GeminiEmbeddings |-> "GOOGLE_API_KEY",
   GroqChat |-> "GROQ_API_KEY", MistralChat |-> "MISTRAL_API_KEY", DeepSeekChat |-> "DEEPSEEK_API_KEY",
   AzureOpenAIChat |-> "AZURE_OPENAI_API_KEY", AzureOpenAIEmbeddings |-> "AZURE_OPENAI_API_KEY"]
Presets == {"GroqChat", "MistralChat", "DeepSeekChat"}
Azures  == {"AzureOpenAIChat", "AzureOpenAIEmbeddings"}
AzureConfig(key) == [key |-> key, endpoint |-> << >>, deployment |-> << "d" >>]
Constructed(class, key, env) ==
  CASE class = "OpenAIChat"       -> Env!OpenAIChat(key, env)
    [] class = "OpenAIEmbeddings" -> Env!OpenAIEmbeddings(key, env)
    [] class = "AnthropicChat"    -> Env!AnthropicChat(key, env)
    [] class = "GeminiChat"       -> Env!GeminiChat(key, env)
    [] class = "GeminiEmbeddings" -> Env!GeminiEmbeddings(key, env)
    [] class = "GroqChat"         -> Env!GroqChat(key, env)
    [] class = "MistralChat"      -> Env!MistralChat(key, env)
    [] class = "DeepSeekChat"     -> Env!DeepSeekChat(key, env)
    [] class = "AzureOpenAIChat"  -> Env!AzureOpenAIChat(AzureConfig(key), env)
    [] OTHER                      -> Env!AzureOpenAIEmbeddings(AzureConfig(key), env)

\* A key that is written in a .env file, after any other line and before another
\* value for it, reaches the classes that look for its variable, character by
\* character, and no other class; a variable that is set already, or a key given in the
\* config, comes first.  A class that finds no variable throws, also a preset when
\* OPENAI_API_KEY is set (openai_compatible_presets.cpp:10-13).  Azure needs its
\* endpoint too.  Nothing is said of a preset whose variable is set to the empty text:
\* the code then falls back to OPENAI_API_KEY, which that comment rules out.
KeyFromFile ==
  kind = "settings" =>
    \A name \in {"OPENAI_API_KEY", "GROQ_API_KEY", "AZURE_OPENAI_API_KEY"}, line \in {1, 2, 3} :
      LET junk == << << "AZURE_OPENAI_ENDPOINT", "=", "u", "/" >>, << "#", name, "=", "c" >>, text >>[line]
      IN  \A assigned \in Assigned(name, text), before \in SUBSET {"OPENAI_API_KEY", name} :
            LET given == [n \in {<< v >> : v \in before} |-> << "d" >>]
                env   == Env!load_dotenv(given, EnvFile(junk, assigned, name))
                key   == IF name \in before THEN << "d" >> ELSE text
                Expected(class) ==
                  CASE class \in Azures /\ line # 1 -> Env!Throws
                    [] Variable[class] = name -> Env!Value(key)
                    [] Variable[class] \in before -> Env!Value(<< "d" >>)
                    [] OTHER -> Env!Throws
                EmptyPreset(class) == class \in Presets /\ Variable[class] = name /\ key = << >>
            IN  \A class \in DOMAIN Variable :
                  LET made  == Constructed(class, << >>, env)
                      given_key == Constructed(class, << "e" >>, env)
                  IN  /\ ~EmptyPreset(class) =>
                           /\ made.throws = Expected(class).throws
                           /\ ~made.throws => made.key = Expected(class).key
                      /\ class \in Azures /\ ~made.throws => made.endpoint = << "u" >>
                      /\ given_key.throws = (class \in Azures /\ line # 1)
                      /\ ~given_key.throws => given_key.key = << "e" >>

-----------------------------------------------------------------------------
(* render_template, FewShotPromptTemplate, ChatPromptTemplate *)

Known   == << "{", "k", "}" >>
Unknown == << "{", "u", "}" >>
Template ==
  LET Piece(c) == CASE c = "{k}" -> Known [] c = "{u}" -> Unknown [] OTHER -> << c >>
  IN  [i \in 1..Len(text) |-> Piece(text[i])]

\* A "{" before a placeholder, with no "}" between, makes it a part of a longer one.
Shadowed(i) ==
  \E j \in 1..(i - 1) : text[j] = "{" /\ \A m \in (j + 1)..(i - 1) : text[m] \notin {"}", "{k}", "{u}"}
FilledWith(value) ==
  FlattenSeq([i \in 1..Len(text) |-> IF text[i] = "{k}" /\ ~Shadowed(i) THEN value ELSE Template[i]])

\* A template is filled in at its placeholders and nowhere else, once: a value is
\* not read as a template, what has no value stays as it is, a brace that stands
\* alone too.  Each example of a few-shot prompt is filled with its own values, the
\* suffix with the input's, and the prefix is left alone; each message of a chat
\* prompt keeps its role and its place (src/src/prompts).
PromptFilled ==
  kind = "prompt" =>
    LET template  == FlattenSeq(Template)
        ValuesOf(value) == [n \in {<< "k" >>} |-> value]
        Example1  == << "{", "u", "}" >>
        Example2  == << "v" >>
        Input     == << "}", "{", "k", "}" >>
        Between   == << "-" >>
        Config(prefix) == [prefix |-> prefix, example_template |-> template, suffix |-> template,
                           example_separator |-> Between]
        Few(prefix) == Prompt!format_few_shot(Config(prefix), << ValuesOf(Example1), ValuesOf(Example2) >>,
                                              ValuesOf(Input))
        rest      == FilledWith(Example1) \o Between \o FilledWith(Example2) \o Between \o FilledWith(Input)
    IN  /\ Few(<< >>) = rest
        /\ Few(Known) = Known \o Between \o rest
        /\ Prompt!format_messages(<< [role |-> "system", template |-> Known],
                                     [role |-> "user", template |-> template] >>, ValuesOf(Input))
             = << [role |-> "system", content |-> Input], [role |-> "user", content |-> FilledWith(Input)] >>

-----------------------------------------------------------------------------
(* embed_documents, SemanticSimilarityExampleSelector, InMemoryVectorStore *)

Query    == << 2, 0 >>
VectorOf == [same |-> << 1, 0 >>, near |-> << 3, 1 >>, far |-> << -1, 3 >>, across |-> << 0, 2 >>,
             zero |-> << 0, 0 >>, opposite |-> << -3, 0 >>]
Nearness == [same |-> 4, near |-> 3, across |-> 2, zero |-> 2, far |-> 1, opposite |-> 0]

\* Each text gets its own vector, in whatever order an OpenAI server answers, and
\* those that are selected are the nearest ones, as many as were asked for or there
\* are, the nearest first; vectors of any length count by their direction, and one
\* of zeros is as far as one across.
SelectsNearest ==
  kind = "examples" =>
    LET vectors == [i \in DOMAIN text |-> VectorOf[text[i]]]
        entries == [i \in DOMAIN text |-> [index |-> i - 1, embedding |-> vectors[i]]]
        Orders  == {o \in [DOMAIN text -> DOMAIN text] : \A i, j \in DOMAIN text : i # j => o[i] # o[j]}
        Sent(class) == IF class = "GeminiEmbeddings" THEN {entries}
                       ELSE {[i \in DOMAIN text |-> entries[order[i]]] : order \in Orders}
        Embedded(class, answer) ==
          CASE class = "OpenAIEmbeddings"      -> Embed!OpenAIEmbeddings(answer)
            [] class = "AzureOpenAIEmbeddings" -> Embed!AzureOpenAIEmbeddings(answer)
            [] class = "GeminiEmbeddings"      -> Embed!GeminiEmbeddings(answer)
        asked == Embed!Answer(200, << [index |-> 0, embedding |-> Query] >>)
    IN  \A class \in {"OpenAIEmbeddings", "AzureOpenAIEmbeddings", "GeminiEmbeddings"} :
          \A data \in Sent(class) :
            LET embedded == Embedded(class, Embed!Answer(200, data))
                Asked(answer) == IF class = "GeminiEmbeddings" THEN Embed!GeminiQuery(answer) ELSE Embed!OpenAIQuery(answer)
                query    == Asked(asked).vectors[1]
            IN  /\ Embedded(class, Embed!Answer(429, data)) = Embed!Throws
                /\ Asked([asked EXCEPT !.status = 429]) = Embed!Throws
                /\ embedded = Embed!Vectors(vectors)
                /\ \A k \in 0..(Len(text) + 1) :
                     \A chosen \in Embed!select_examples(query, embedded.vectors, k) :
                       LET Near(i) == Nearness[text[i]]
                           picked  == {chosen[i] : i \in DOMAIN chosen}
                       IN  /\ Len(chosen) = (IF k <= Len(text) THEN k ELSE Len(text))
                           /\ Cardinality(picked) = Len(chosen)
                           /\ \A i, j \in DOMAIN chosen : i < j => Near(chosen[i]) >= Near(chosen[j])
                           /\ \A i \in picked, j \in DOMAIN text \ picked : Near(i) >= Near(j)

-----------------------------------------------------------------------------
(* ImageContent, image_to_openai_json *)

\* Bit by bit, what base64 stands for.
Bit(n, shift) == (n \div 2^shift) % 2
Bits(numbers, width) ==
  [b \in 1..(Len(numbers) * width) |->
     Bit(numbers[(b - 1) \div width + 1], width - 1 - ((b - 1) % width))]
IsData(data, bytes) ==
  LET padding == {i \in DOMAIN data : data[i] = Image!Padding}
      inked   == SubSeq(data, 1, Len(data) - Cardinality(padding))
  IN  /\ Len(data) % 4 = 0 /\ Cardinality(padding) <= 2
      /\ \A i \in padding : i > Len(inked)
      /\ SubSeq(Bits(inked, 6), 1, 8 * Len(bytes)) = Bits(bytes, 8)
      /\ 6 * Len(inked) - 8 * Len(bytes) \in 0..5

\* The bytes of a file, whatever they are, are in the request that is sent with the
\* image, after the text and in the place of the image, under the type that was
\* given or that the name of the file says; and where images cannot be sent the
\* call throws: except that Anthropic's drops those of a system message, in spite of
\* message.hpp:35-38.
ImageIntact ==
  kind = "image" =>
    LET file    == [readable |-> TRUE, bytes |-> text]
        read    == Image!from_file(file, << "d", ".", "d", "/", "f", ".", "PNG" >>, "")
        url     == << "https:", "u" >>
        images  == << Image!from_url(url), read.is >>
        Request(role, content) == Image!message_to_openai_json(role, content, images)
    IN  /\ ~read.throws /\ read.is.media_type = "image/png" /\ IsData(read.is.data, text)
        /\ Image!from_file(file, << "d", ".", "jpg", "/", "f" >>, "").throws
        /\ Image!from_file(file, << "f", ".", "png" >>, "image/x").is.media_type = "image/x"
        /\ Image!from_file([file EXCEPT !.readable = FALSE], << "f", ".", "png" >>, "").throws
        /\ \A content \in {<< >>, << "a" >>} :
             LET parts == Request("user", content).is
                 from  == Len(content)
             IN  /\ Len(parts) = from + 2
                 /\ content # << >> => parts[1] = content
                 /\ parts[from + 1] = url
                 /\ SubSeq(parts[from + 2], 1, 3) = << "data:", "image/png", ";base64," >>
                 /\ IsData(SubSeq(parts[from + 2], 4, Len(parts[from + 2])), text)
        /\ \A role \in {"user", "assistant", "system"} :
             /\ Image!gemini_content(role, << "a" >>, images).throws
             /\ role # "system" => Image!anthropic_content(role, << "a" >>, images).throws
=============================================================================
