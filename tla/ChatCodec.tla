------------------------------ MODULE ChatCodec ------------------------------
(***************************************************************************)
(* The OpenAI chat half of request_codec.go and response_codec.go.  A      *)
(* request of any dialect is a record [system, messages, tools, choice,    *)
(* parallel, schema, reasoning, maxTokens]; what a dialect has no field    *)
(* for is empty.  Model names, temperature and stop strings, which are     *)
(* copied, are left out.                                                    *)
(***************************************************************************)
EXTENDS IntermediateForm

ChatMessage(role, content, calls, callId) ==
  [role |-> role, content |-> content, calls |-> calls, callId |-> callId]

decodeOpenAIChatMessages(messages) ==
  each(messages, LAMBDA m :
    IRMessage(m.role, decodeGenericContent(m.content) \o each(m.calls, toolCall),
              m.callId))

encodeOpenAIChatMessage(m) ==
  IF m.role = "tool"
  THEN ChatMessage("tool", encodeOpenAIContent(m.content), <<>>, m.callId)
  ELSE ChatMessage(m.role, encodeOpenAIContent(m.content),
                   encodeToolCalls(m.content), None)

encodeOpenAIChatMessages(ir) ==
  (IF ir.system = <<>> THEN <<>>
   ELSE <<ChatMessage("system", String(ir.system), <<>>, None)>>)
    \o each(ir.messages, encodeOpenAIChatMessage)

SystemRoles == {"system", "developer"}
splitSystemInstruction(messages) ==
  [system |-> joined(messages, LAMBDA m : IF m.role \in SystemRoles
                                          THEN encodeTextContent(m.content)
                                          ELSE <<>>),
   others |-> joined(messages, LAMBDA m : IF m.role \in SystemRoles THEN <<>>
                                          ELSE <<m>>)]

decodeOpenAIChatTools(tools) == {t \in tools : t.kind = "function"}

DecodeOpenAIChatRequest(request) ==
  LET split == splitSystemInstruction(decodeOpenAIChatMessages(request.messages))
  IN normalizeIRToolConfig(
       [request EXCEPT !.system = split.system, !.messages = split.others,
                       !.tools = decodeOpenAIChatTools(@)],
       request.tools # {})

EncodeOpenAIChatRequest(ir) ==
  [ir EXCEPT !.system = String(<<>>), !.messages = encodeOpenAIChatMessages(ir)]
-----------------------------------------------------------------------------
(* Answers: choices of a message with text, reasoning and calls.  A piece  *)
(* the model put between <think> and </think> is a negative number.        *)

Choice(text, reasoning, calls, finish) ==
  [text |-> text, reasoning |-> reasoning, calls |-> calls, finish |-> finish]
IRAnswer(items, finish, usage) ==
  [items |-> items, finish |-> finish, usage |-> usage]

stripThinkTaggedText(text) ==
  [text |-> joined(text, LAMBDA p : IF p > 0 THEN <<p>> ELSE <<>>),
   reasoning |-> joined(text, LAMBDA p : IF p < 0 THEN <<-p>> ELSE <<>>)]

decodeOpenAIChatMessageContentTagged(text) ==
  IF text = <<>> THEN <<>> ELSE <<IRPart("text", text, None, Absent)>>

decodeOpenAIChatMessageContent(text) ==
  LET stripped == stripThinkTaggedText(text).text
  IN IF stripped = <<>> THEN <<>> ELSE <<IRPart("text", stripped, None, Absent)>>

decodeOpenAIChatChoice(choice) ==
  LET reasoning == firstNonEmpty(choice.reasoning,
                                 stripThinkTaggedText(choice.text).reasoning)
  IN IRMessage("assistant",
       decodeOpenAIChatMessageContent(choice.text)
         \o (IF reasoning = <<>> THEN <<>> ELSE <<reasoningPart(reasoning)>>)
         \o each(choice.calls, toolCall),
       None)

DecodeOpenAIChatResponse(answer) ==
  IRAnswer(each(answer.choices, decodeOpenAIChatChoice),
           Last(answer.choices).finish, answer.usage)

\* Only the first message becomes the choice.
encodeOpenAIChatChoices(ir) ==
  LET content == IF ir.items = <<>> THEN <<>> ELSE ir.items[1].content
      finish == IF ir.finish # Absent THEN ir.finish
                ELSE inferFinishReasonFromMessages(ir.items)
  IN <<Choice(encodeTextContent(content), encodeReasoningContent(content),
              encodeToolCalls(content), finish)>>

EncodeOpenAIChatResponse(ir) ==
  [choices |-> encodeOpenAIChatChoices(ir), usage |-> ir.usage]
=============================================================================
