------------------------------- MODULE Images -------------------------------
(***************************************************************************)
(* Images from the file to the request: ImageContent (core/message.hpp and *)
(* src/src/core/message.cpp) and what the providers make of the images of  *)
(* a message.  A character of the base64 table is its index, and 64 is     *)
(* "="; a path is a sequence of dots, slashes and words.                   *)
(***************************************************************************)
EXTENDS Texts

Padding == 64
Throws       == [throws |-> TRUE, is |-> << >>]
Returns(is)  == [throws |-> FALSE, is |-> is]

Sextet(chunk, shift) == (chunk \div 2^shift) % 64

\* A plausible bug, for the mutation checks: one byte that is left is not shifted.
RemainderUnshifted(rest) ==
  CASE Len(rest) = 0 -> << >>
    [] Len(rest) = 1 -> << Sextet(rest[1], 6), Sextet(rest[1], 0), Padding, Padding >>
    [] Len(rest) = 2 -> LET chunk == rest[1] * 2^16 + rest[2] * 2^8
                        IN  << Sextet(chunk, 18), Sextet(chunk, 12), Sextet(chunk, 6), Padding >>

\* The one or two bytes that are left over.
Remainder(rest) ==
  CASE Len(rest) = 0 -> << >>
    [] Len(rest) = 1 -> LET chunk == rest[1] * 2^16
                        IN  << Sextet(chunk, 18), Sextet(chunk, 12), Padding, Padding >>
    [] Len(rest) = 2 -> LET chunk == rest[1] * 2^16 + rest[2] * 2^8
                        IN  << Sextet(chunk, 18), Sextet(chunk, 12), Sextet(chunk, 6), Padding >>

\* Three bytes become four characters.
base64_encode(bytes) ==
  LET Triple(n) == LET chunk == bytes[3 * n - 2] * 2^16 + bytes[3 * n - 1] * 2^8 + bytes[3 * n]
                   IN  << Sextet(chunk, 18), Sextet(chunk, 12), Sextet(chunk, 6), Sextet(chunk, 0) >>
      triples == Len(bytes) \div 3
  IN  FlattenSeq([n \in 1..triples |-> Triple(n)])
      \o Remainder(SubSeq(bytes, 3 * triples + 1, Len(bytes)))

\* What comes after the last dot; "PNG" stands for the other spellings.
Types ==
  << << "png", "image/png" >>, << "PNG", "image/png" >>, << "jpg", "image/jpeg" >>,
     << "jpeg", "image/jpeg" >>, << "gif", "image/gif" >>, << "webp", "image/webp" >> >>
guess_media_type(path) ==
  LET dots  == Places(<< "." >>, path)
      last  == CHOOSE i \in dots : \A j \in dots : j <= i
      known == {i \in DOMAIN Types : SubSeq(path, last + 1, Len(path)) = << Types[i][1] >>}
  IN  IF dots = {} \/ known = {} THEN "" ELSE Types[First(known)][2]

Image(source_type, data, media_type) ==
  [source_type |-> source_type, data |-> data, media_type |-> media_type]
from_url(url) == Image("Url", url, "")

from_file(file, path, media_type) ==
  LET guessed == IF media_type = "" THEN guess_media_type(path) ELSE media_type
  IN  IF ~file.readable \/ guessed = "" THEN Throws
      ELSE Returns(Image("Base64", base64_encode(file.bytes), guessed))

-----------------------------------------------------------------------------
image_to_openai_json(image) ==
  IF image.source_type = "Base64" THEN << "data:", image.media_type, ";base64," >> \o image.data
  ELSE image.data

\* The content of a message with images: its text, if it has one, and a URL for
\* each image.  A tool result has only its text.
message_to_openai_json(role, content, images) ==
  IF role = "tool" \/ images = << >> THEN Returns(<< content >>)
  ELSE Returns((IF content = << >> THEN << >> ELSE << content >>)
               \o [i \in DOMAIN images |-> image_to_openai_json(images[i])])

\* System messages are joined before any message is rendered.
anthropic_content(role, content, images) ==
  IF role # "system" /\ images # << >> THEN Throws ELSE Returns(<< content >>)

gemini_content(role, content, images) ==
  IF images # << >> THEN Throws ELSE Returns(<< content >>)
=============================================================================
