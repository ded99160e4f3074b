------------------------------ MODULE Settings ------------------------------
(***************************************************************************)
(* How a provider gets its key: core::load_dotenv (src/src/core/dotenv.cpp)*)
(* puts the assignments of a .env file into the environment, and the       *)
(* constructors of src/src/providers look there for what their config does *)
(* not have.  Texts are sequences; the name of a variable is one character.*)
(***************************************************************************)
EXTENDS Texts

White == {" ", "\t", "\r", "\n"}

trim(s) ==
  LET inked == {i \in DOMAIN s : s[i] \notin White}
  IN  IF inked = {} THEN << >>
      ELSE SubSeq(s, First(inked), CHOOSE i \in inked : \A j \in inked : j <= i)

\* A plausible bug, for the mutation checks: quotes are removed wherever they are.
strip_quotesAll(s) == SelectSeq(s, LAMBDA c : c \notin {"\"", "'"})

strip_quotes(s) ==
  IF Len(s) >= 2 /\ s[1] = s[Len(s)] /\ s[1] \in {"\"", "'"} THEN SubSeq(s, 2, Len(s) - 1) ELSE s

\* setenv() without overwriting.
SetEnv(env, name, value) ==
  IF name \in DOMAIN env THEN env ELSE [n \in DOMAIN env \cup {name} |-> IF n = name THEN value ELSE env[n]]

\* A line is an assignment unless it is empty, a comment, or has no "=" or
\* nothing before it.
ReadLine(env, line) ==
  LET trimmed == trim(line)
      equals  == Places(<< "=" >>, trimmed)
      name    == trim(SubSeq(trimmed, 1, First(equals) - 1))
      value   == strip_quotes(trim(SubSeq(trimmed, First(equals) + 1, Len(trimmed))))
  IN  IF trimmed = << >> THEN env
      ELSE IF trimmed[1] = "#" \/ equals = {} THEN env
      ELSE IF name = << >> THEN env
      ELSE SetEnv(env, name, value)

load_dotenv(env, file) == FoldLeft(ReadLine, env, split_string(file, << "\n" >>))

-----------------------------------------------------------------------------
Throws     == [throws |-> TRUE, key |-> << >>]
Value(key) == [throws |-> FALSE, key |-> key]

\* resolve, resolve_api_key: a variable that is set is taken, also if it is empty.
resolve(configured, env, variable) ==
  IF configured # << >> THEN Value(configured)
  ELSE IF << variable >> \in DOMAIN env THEN Value(env[<< variable >>])
  ELSE Throws

\* The key each class is constructed with.
OpenAIChat(key, env)       == resolve(key, env, "OPENAI_API_KEY")
OpenAIEmbeddings(key, env) == resolve(key, env, "OPENAI_API_KEY")
AnthropicChat(key, env)    == resolve(key, env, "ANTHROPIC_API_KEY")
GeminiChat(key, env)       == resolve(key, env, "GOOGLE_API_KEY")
GeminiEmbeddings(key, env) == resolve(key, env, "GOOGLE_API_KEY")

\* A plausible bug, for the mutation checks: a preset leaves its key to OpenAIChat.
PresetOfOpenAI(key, env, variable) == OpenAIChat(key, env)

\* A preset resolves its own variable, and makes an OpenAIChat of what it got.
Preset(key, env, variable) ==
  LET own == resolve(key, env, variable)
  IN  IF own.throws THEN Throws ELSE OpenAIChat(own.key, env)
GroqChat(key, env)     == Preset(key, env, "GROQ_API_KEY")
MistralChat(key, env)  == Preset(key, env, "MISTRAL_API_KEY")
DeepSeekChat(key, env) == Preset(key, env, "DEEPSEEK_API_KEY")

strip_trailing_slash(url) ==
  IF url # << >> /\ url[Len(url)] = "/" THEN SubSeq(url, 1, Len(url) - 1) ELSE url

\* Azure needs a deployment, a key and an endpoint.
Azure(config, env) ==
  LET key      == resolve(config.key, env, "AZURE_OPENAI_API_KEY")
      endpoint == resolve(config.endpoint, env, "AZURE_OPENAI_ENDPOINT")
  IN  [throws   |-> config.deployment = << >> \/ key.throws \/ endpoint.throws,
       key      |-> key.key,
       endpoint |-> strip_trailing_slash(endpoint.key)]
AzureOpenAIChat(config, env)       == Azure(config, env)
AzureOpenAIEmbeddings(config, env) == Azure(config, env)
=============================================================================
