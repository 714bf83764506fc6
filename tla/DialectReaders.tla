--------------------------- MODULE DialectReaders ---------------------------
(***************************************************************************)
(* How a provider reads a request, and a client an answer, by the rules of *)
(* its dialect, whatever the gateway's codecs make of it: an observer for  *)
(* the properties.  A request is read as the sequence of what it says,     *)
(* shows, calls and returns; an answer as its thinking, text and calls.    *)
(***************************************************************************)
EXTENDS IntermediateForm

Entry(kind, side, id, text) ==
  [kind |-> kind, side |-> side, id |-> id, text |-> text]
said(side, text) == each(text, LAMBDA p : Entry("said", side, p, <<>>))

readPart(side, p) ==
  CASE p.type \in TextTypes -> said(side, p.text)
    [] p.type \in ImageTypes \union FileTypes ->
         <<Entry("shown", side, p.id, <<>>)>>
    [] p.type = "tool_use" -> <<Entry("call", side, p.id, <<>>)>>
    [] p.type = "tool_result" -> <<Entry("result", side, p.id, p.text)>>
    [] OTHER -> <<>>

readContent(side, content) ==
  joined(content.parts, LAMBDA p : readPart(side, p))
readCalls(ids) == each(ids, LAMBDA id : Entry("call", "assistant", id, <<>>))

readChatMessage(m) ==
  IF m.role = "tool"
  THEN <<Entry("result", "user", m.callId, encodeTextContent(m.content.parts))>>
  ELSE readContent(IF m.role = "developer" THEN "system" ELSE m.role, m.content)
         \o readCalls(m.calls)

readItem(item) ==
  CASE item.type = "function_call" -> readCalls(<<item.id>>)
    [] item.type = "function_call_output" ->
         <<Entry("result", "user", item.id, item.text)>>
    [] item.type = "reasoning" -> <<>>
    [] OTHER -> readContent(item.role, item.content)

readMessage(dialect, m) ==
  CASE dialect = "chat" -> readChatMessage(m)
    [] dialect = "responses" -> readItem(m)
    [] dialect = "anthropic" -> readContent(m.role, m.content)

readRequest(dialect, request) ==
  readContent("system", request.system)
    \o joined(request.messages, LAMBDA m : readMessage(dialect, m))

\* The entries of some kinds, in their order.
ofKinds(entries, kinds) == chosen(entries, LAMBDA e : e.kind \in kinds)
-----------------------------------------------------------------------------
Answer(thinking, text, calls) ==
  [thinking |-> thinking, text |-> text, calls |-> calls]

readOutput(items) ==
  Answer(joined(items, LAMBDA i : IF i.type = "reasoning" THEN i.text ELSE <<>>),
         joined(items, LAMBDA i : encodeTextContent(i.content.parts)),
         joined(items, LAMBDA i : IF i.type = "function_call" THEN <<i.id>> ELSE <<>>))

readBlocks(blocks) ==
  Answer(joined(blocks, LAMBDA p : IF p.type = "thinking" THEN p.text ELSE <<>>),
         encodeTextContent(blocks),
         joined(blocks, LAMBDA p : IF p.type = "tool_use" THEN <<p.id>> ELSE <<>>))

readAnswer(dialect, answer) ==
  CASE dialect = "chat" -> Answer(answer.choices[1].reasoning,
                                  answer.choices[1].text, answer.choices[1].calls)
    [] dialect = "responses" -> readOutput(answer.output)
    [] dialect = "anthropic" -> readBlocks(answer.content)

\* The responses dialect has no finish reason but the calls and the status.
finishOf(dialect, answer) ==
  CASE dialect = "chat" -> answer.choices[1].finish
    [] dialect = "responses" ->
         IF readOutput(answer.output).calls # <<>> THEN "tool_calls"
         ELSE IF answer.status = "incomplete" THEN "length" ELSE "stop"
    [] dialect = "anthropic" -> answer.stop
=============================================================================
