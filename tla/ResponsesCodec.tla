--------------------------- MODULE ResponsesCodec ---------------------------
(***************************************************************************)
(* The OpenAI responses half of request_codec.go and response_codec.go.    *)
(* An item of the input or the output is [type, role, content, id, text];  *)
(* an input that is one string is the single item of type "string", and an *)
(* item may come without type.                                              *)
(***************************************************************************)
EXTENDS IntermediateForm

Item(type, role, content, id, text) ==
  [type |-> type, role |-> role, content |-> content, id |-> id, text |-> text]
MessageItem(role, content) == Item("message", role, content, None, <<>>)
CallItem(id) == Item("function_call", "assistant", List(<<>>), id, <<>>)
OutputItem(id, text) == Item("function_call_output", "user", List(<<>>), id, text)
ReasoningItem(text) == Item("reasoning", "assistant", List(<<>>), None, text)

\* A content that is a string is not taken over.
listContent(content) ==
  IF content.list THEN decodeGenericContent(content) ELSE <<>>

decodeResponsesItem(item) ==
  CASE item.type = "string" ->
         <<IRMessage("user", decodeGenericContent(item.content), None)>>
    [] item.type = "message" ->
         <<IRMessage(item.role, listContent(item.content), None)>>
    [] item.type = "function_call" ->
         <<IRMessage("assistant", <<toolCall(item.id)>>, None)>>
    [] item.type = "function_call_output" ->
         <<IRMessage("tool", <<toolResult(item.text)>>, item.id)>>
    [] OTHER -> <<>>

decodeResponsesInput(items) == joined(items, decodeResponsesItem)

\* An assistant's calls come before its message, which may be missing.
encodeResponsesCallsOnly(m) ==
  LET content == encodeResponsesContent(m.content)
      calls == encodeToolCalls(m.content)
  IN IF m.role = "tool" THEN <<OutputItem(m.callId, toolOutput(m))>>
     ELSE IF calls # <<>> THEN each(calls, CallItem)
     ELSE <<MessageItem(m.role, List(content))>>
encodeResponsesMessage(m) ==
  LET content == encodeResponsesContent(m.content)
      calls == IF m.role = "assistant" THEN encodeToolCalls(m.content) ELSE <<>>
  IN IF m.role = "tool" THEN <<OutputItem(m.callId, toolOutput(m))>>
     ELSE each(calls, CallItem)
            \o (IF content = <<>> /\ m.role = "assistant" THEN <<>>
                ELSE <<MessageItem(m.role, List(content))>>)

encodeResponsesInput(messages) == joined(messages, encodeResponsesMessage)

decodeResponsesTools(tools) == {t \in tools : t.kind = "function"}

DecodeResponsesRequest(request) ==
  normalizeIRToolConfig(
    [request EXCEPT !.system = encodeTextContent(@.parts),
                    !.messages = decodeResponsesInput(@),
                    !.tools = decodeResponsesTools(@)],
    request.tools # {})

EncodeResponsesRequest(ir) ==
  [ir EXCEPT !.system = String(@), !.messages = encodeResponsesInput(@)]
-----------------------------------------------------------------------------
(* Answers: output items.                                                  *)

decodeResponsesOutputItem(item) ==
  CASE item.type = "message" ->
         <<IRMessage("assistant", listContent(item.content), None)>>
    [] item.type = "function_call" ->
         <<IRMessage("assistant", <<toolCall(item.id)>>, None)>>
    [] item.type = "reasoning" ->
         <<IRMessage("assistant", <<reasoningPart(item.text)>>, None)>>
    [] OTHER -> <<>>

decodeResponsesOutput(items) == joined(items, decodeResponsesOutputItem)

\* A finish reason is made up: the status of the answer is not read.
DecodeResponsesResponse(answer) ==
  LET items == decodeResponsesOutput(answer.output)
  IN [items |-> items, finish |-> inferFinishReasonFromMessages(items),
      usage |-> answer.usage]

encodeResponsesOutputContent(parts) ==
  joined(parts, LAMBDA p :
    CASE p.type \in {"text", "output_text"} /\ p.text # <<>> ->
           <<Part("output_text", p.text, None)>>
      [] p.type \in {"image", "file"} -> <<encodeRawOrFallbackPart(p, p.type)>>
      [] OTHER -> <<>>)

\* A message's text, if any, then its calls and its reasoning in their order.
encodeResponsesOutputMessage(m) ==
  (IF encodeTextContent(m.content) # <<>> \/ hasNonTextParts(m.content)
   THEN <<MessageItem("assistant", List(encodeResponsesOutputContent(m.content)))>>
   ELSE <<>>)
    \o joined(m.content, LAMBDA p :
         CASE p.type = "tool_call" -> <<CallItem(p.id)>>
           [] p.type = "reasoning" -> <<ReasoningItem(p.text)>>
           [] OTHER -> <<>>)

encodeResponsesOutput(messages) == joined(messages, encodeResponsesOutputMessage)

EncodeResponsesResponse(ir) ==
  [status |-> "completed", output |-> encodeResponsesOutput(ir.items),
   usage |-> ir.usage]
=============================================================================
