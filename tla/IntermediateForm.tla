-------------------------- MODULE IntermediateForm --------------------------
(***************************************************************************)
(* protocol/types.go and the helpers at the end of request_codec.go: the   *)
(* form between the dialects.  A text is the sequence of the pieces it was *)
(* put together from, <<>> the empty string; a tool call with its name and *)
(* arguments is its id, an image or file its number.  A part is             *)
(* [type, text, id]; the form between also keeps the type the part had on  *)
(* the wire in raw, Absent when it was not taken from a wire part.  On the  *)
(* wire a content is a string, that is one text part, or a list of parts.   *)
(* Bodies that no client of the dialect writes, such as a message without   *)
(* role, are left out.                                                      *)
(***************************************************************************)
EXTENDS Integers, Sequences, SequencesExt

None == 0
Absent == ""   \* a field the body does not have
Part(type, text, id) == [type |-> type, text |-> text, id |-> id]
IRPart(type, text, id, raw) ==
  [type |-> type, text |-> text, id |-> id, raw |-> raw]
IRMessage(role, content, callId) ==
  [role |-> role, content |-> content, callId |-> callId]

String(text) == [list |-> FALSE, parts |-> <<Part("text", text, None)>>]
List(parts) == [list |-> TRUE, parts |-> parts]

\* A sequence's elements through an operator, and their results joined.
each(s, Op(_)) == [i \in DOMAIN s |-> Op(s[i])]
joined(s, Op(_)) == FlattenSeq(each(s, Op))

\* SelectSeq as a join, which the proofs can unfold.
chosen(s, Test(_)) == joined(s, LAMBDA e : IF Test(e) THEN <<e>> ELSE <<>>)

TextTypes == {"text", "input_text", "output_text"}
ImageTypes == {"image", "image_url", "input_image"}
FileTypes == {"file", "input_file", "document"}

normalizeIRPartType(type) ==
  CASE type \in ImageTypes -> "image"
    [] type \in FileTypes -> "file"
    [] OTHER -> type

\* A part of a content, and a tool call, in the form between.
fromRaw(part) ==
  IRPart(normalizeIRPartType(part.type), part.text, part.id, part.type)
toolCall(id) == IRPart("tool_call", <<>>, id, Absent)
toolResult(text) == IRPart("tool_result", text, None, Absent)
reasoningPart(text) == IRPart("reasoning", text, None, Absent)

decodeGenericContent(content) == each(content.parts, fromRaw)

\* The texts of the parts in one; a tool result is not a text.
encodeTextContent(parts) ==
  joined(parts, LAMBDA p : IF p.type \in TextTypes THEN p.text ELSE <<>>)

\* An image or file goes out as it came in, in the form of its own dialect.
encodeRawOrFallbackPart(part, fallback) ==
  IF part.raw # Absent THEN Part(part.raw, part.text, part.id)
  ELSE Part(fallback, <<>>, None)

encodeContent(parts, textType, imageType, fileType) ==
  joined(parts, LAMBDA p :
    CASE p.type \in TextTypes -> <<Part(textType, p.text, None)>>
      [] p.type = "image" -> <<encodeRawOrFallbackPart(p, imageType)>>
      [] p.type = "file" -> <<encodeRawOrFallbackPart(p, fileType)>>
      [] OTHER -> <<>>)

encodeResponsesContent(parts) ==
  encodeContent(parts, "input_text", "input_image", "input_file")
encodeAnthropicContentParts(parts) ==
  encodeContent(parts, "text", "image", "document")

hasNonTextParts(parts) == \E i \in DOMAIN parts : parts[i].type \in {"image", "file"}

\* One string, unless there are other parts.
encodeOpenAIContent(parts) ==
  IF hasNonTextParts(parts)
  THEN List(encodeContent(parts, "text", "image_url", "input_file"))
  ELSE String(encodeTextContent(parts))

\* The first output of the parts' tool results that is not empty.
extractOutput(parts) ==
  LET outputs == chosen(parts, LAMBDA p : p.type = "tool_result"
                                          /\ p.text # <<>>)
  IN IF outputs = <<>> THEN <<>> ELSE outputs[1].text

encodeToolCalls(parts) ==
  joined(parts, LAMBDA p : IF p.type = "tool_call" THEN <<p.id>> ELSE <<>>)

firstNonEmpty(a, b) == IF a # <<>> THEN a ELSE b

\* What a message of role tool tells its provider.
toolOutputOfTexts(message) == encodeTextContent(message.content)
toolOutput(message) ==
  firstNonEmpty(extractOutput(message.content),
                encodeTextContent(message.content))
-----------------------------------------------------------------------------
(* The fields beside the messages.  A tool choice is an object of the      *)
(* client's dialect, form, with Anthropic's disable_parallel_tool_use in   *)
(* parallel ("off" when it is true); it is handed on as it is.  So are     *)
(* reasoning and schema.                                                   *)

NoChoice == [form |-> Absent, parallel |-> "absent"]

\* Tools of a type other than function are not handed on; when none is left,
\* neither are the choice among them and parallel calls.
normalizeIRToolConfig(ir, hadTools) ==
  IF ~hadTools \/ ir.tools # {} THEN ir
  ELSE [ir EXCEPT !.choice = NoChoice, !.parallel = "absent"]

inferFinishReasonFromMessages(items) ==
  IF \E i \in DOMAIN items : encodeToolCalls(items[i].content) # <<>>
  THEN "tool_calls" ELSE "stop"

\* The first reasoning.
encodeReasoningContent(parts) ==
  LET reasoning == chosen(parts, LAMBDA p : p.type = "reasoning")
  IN IF reasoning = <<>> THEN <<>> ELSE reasoning[1].text
=============================================================================
