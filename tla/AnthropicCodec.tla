--------------------------- MODULE AnthropicCodec ---------------------------
(***************************************************************************)
(* The Anthropic half of request_codec.go and response_codec.go.  The      *)
(* blocks of a message are parts: text, thinking, image, document,         *)
(* tool_use with the call's id, tool_result with its id and its output,    *)
(* which is taken to be a string.                                           *)
(***************************************************************************)
EXTENDS IntermediateForm

Events == INSTANCE StreamEvents

AnthropicMessage(role, content) == [role |-> role, content |-> content]
Result(id, text) == Part("tool_result", text, id)
ToolUse(id) == Part("tool_use", <<>>, id)
Thinking(text) == Part("thinking", text, None)

\* A list of system blocks is not taken over.
decodeAnthropicSystem(system) ==
  IF system.list THEN <<>> ELSE encodeTextContent(system.parts)

decodeAnthropicBlock(part) ==
  CASE part.type \in {"text", "image", "document"} -> <<fromRaw(part)>>
    [] part.type = "tool_use" -> <<toolCall(part.id)>>
    [] part.type = "tool_result" -> <<toolResult(part.text)>>
    [] OTHER -> <<>>

\* A content that is a string is not taken over.  With tool results in it the
\* whole message becomes the message of a tool, under the last result's id.
decodeAnthropicMessage(m) ==
  LET blocks == IF m.content.list THEN m.content.parts ELSE <<>>
      results == chosen(blocks, LAMBDA p : p.type = "tool_result")
      content == joined(blocks, decodeAnthropicBlock)
  IN IF results = <<>> THEN IRMessage(m.role, content, None)
     ELSE IRMessage("tool", content, Last(results).id)

decodeAnthropicMessages(messages) == each(messages, decodeAnthropicMessage)

encodeAnthropicAssistant(parts) ==
  joined(parts, LAMBDA p :
    CASE p.type = "text" -> <<Part("text", p.text, None)>>
      [] p.type = "image" -> <<encodeRawOrFallbackPart(p, "image")>>
      [] p.type = "file" -> <<encodeRawOrFallbackPart(p, "document")>>
      [] p.type = "tool_call" -> <<ToolUse(p.id)>>
      [] OTHER -> <<>>)

encodeAnthropicMessage(m) ==
  CASE m.role = "tool" ->
         AnthropicMessage("user", List(<<Result(m.callId, toolOutput(m))>>))
    [] m.role = "assistant" ->
         AnthropicMessage("assistant", List(encodeAnthropicAssistant(m.content)))
    [] OTHER ->
         AnthropicMessage(m.role, List(encodeAnthropicContentParts(m.content)))

encodeAnthropicMessages(messages) == each(messages, encodeAnthropicMessage)

\* A tool of any kind becomes a function.
decodeAnthropicTools(tools) == {[t EXCEPT !.kind = "function"] : t \in tools}

DecodeAnthropicRequest(request) ==
  [request EXCEPT !.system = decodeAnthropicSystem(@),
                  !.messages = decodeAnthropicMessages(@),
                  !.tools = decodeAnthropicTools(@)]

DefaultMaxTokens == 1024

\* There is no field for a schema or for parallel calls.
EncodeAnthropicRequest(ir) ==
  [ir EXCEPT !.system = String(@), !.messages = encodeAnthropicMessages(@),
             !.parallel = "absent", !.schema = Absent,
             !.maxTokens = IF @ = 0 THEN DefaultMaxTokens ELSE @]
-----------------------------------------------------------------------------
(* Answers: blocks and a stop reason.  A usage has the names of its        *)
(* dialect's fields; unknown names read as 0.                              *)

Usage(names, in, out) == [names |-> names, in |-> in, out |-> out]
ChatNames == "prompt_tokens"
TokenNames == "input_tokens"

renamedUsage(usage, from, to) ==
  IF usage.names = from THEN Usage(to, usage.in, usage.out) ELSE Usage(to, 0, 0)
normalizeAnthropicUsage(usage) == renamedUsage(usage, TokenNames, ChatNames)
denormalizeAnthropicUsage(usage) == renamedUsage(usage, ChatNames, TokenNames)

\* One message of all the blocks, none without blocks.
decodeAnthropicContent(blocks) ==
  LET parts == joined(blocks, LAMBDA p :
                 IF p.type = "thinking" THEN <<reasoningPart(p.text)>>
                 ELSE decodeAnthropicBlock(p))
  IN IF parts = <<>> THEN <<>> ELSE <<IRMessage("assistant", parts, None)>>

encodeAnthropicContent(items) ==
  joined(items, LAMBDA m : joined(m.content, LAMBDA p :
    CASE p.type \in {"text", "output_text"} /\ p.text # <<>> ->
           <<Part("text", p.text, None)>>
      [] p.type = "image" -> <<encodeRawOrFallbackPart(p, "image")>>
      [] p.type = "file" -> <<encodeRawOrFallbackPart(p, "document")>>
      [] p.type = "tool_call" -> <<ToolUse(p.id)>>
      [] p.type = "reasoning" -> <<Thinking(p.text)>>
      [] OTHER -> <<>>))

DecodeAnthropicResponse(answer) ==
  [items |-> decodeAnthropicContent(answer.content),
   finish |-> Events!anthropicStopReasonToChatFinish(answer.stop),
   usage |-> normalizeAnthropicUsage(answer.usage)]

EncodeAnthropicResponse(ir) ==
  [content |-> encodeAnthropicContent(ir.items),
   stop |-> Events!anthropicStopReasonFromChatFinish(ir.finish),
   usage |-> denormalizeAnthropicUsage(ir.usage)]
=============================================================================
