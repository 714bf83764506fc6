------------------------- MODULE ToResponsesStream --------------------------
(***************************************************************************)
(* protocol/stream_codec.go and the half of stream_anthropic_codec.go that *)
(* writes OpenAI Responses events.  The message is the item with output    *)
(* index 0, its one content part is the text; tool calls get an index of   *)
(* 100 or more.                                                            *)
(***************************************************************************)
EXTENDS StreamEvents

\* The output index of a tool call is made from the index of the choice.
ToolBase == 100

ChatToResponsesStreamState ==
  [ResponseCreated |-> FALSE, MessageText |-> <<>>, ToolCalls |-> <<>>,
   ToolArgs |-> <<>>, seqNum |-> 0, out |-> <<>>]

\* The message item's key in the maps, and its text if it has any.
choiceIndex == 0
hasText(s) == choiceIndex \in DOMAIN s.MessageText
messageText(s) == textAt(s.MessageText, choiceIndex)

created(s) ==
  IF s.ResponseCreated THEN s
  ELSE emit(emit([s EXCEPT !.ResponseCreated = TRUE],
                 Lifecycle("response.created", s.seqNum)),
            Lifecycle("response.in_progress", s.seqNum))

fromRole(s, role) ==
  emitIf(role, s, Response("response.output_item.added", choiceIndex,
                           "message", None, None, s.seqNum))

\* A slip: the piece that opens the content part is not told.
textAfterPart(s, piece) ==
  IF piece = None THEN s
  ELSE emit([s EXCEPT !.MessageText =
               put(@, choiceIndex, Append(messageText(s), piece))],
            IF hasText(s)
            THEN Response("response.output_text.delta", choiceIndex, "text",
                          None, piece, s.seqNum)
            ELSE Response("response.content_part.added", choiceIndex, "text",
                          None, None, s.seqNum))

fromText(s, piece) ==
  IF piece = None THEN s
  ELSE LET part == emitIf(~hasText(s), s,
                          Response("response.content_part.added", choiceIndex,
                                   "text", None, None, s.seqNum))
       IN emit([part EXCEPT !.MessageText =
                  put(@, choiceIndex, Append(messageText(s), piece))],
               Response("response.output_text.delta", choiceIndex, "text",
                        None, piece, s.seqNum))

\* Every call of a choice gets the same output index, and the arguments of
\* that index accumulate over all of them.
fromTool(s, call) ==
  LET index == choiceIndex + ToolBase
      item == [emitIf(call.id # None, s,
                 Response("response.output_item.added", index, "function_call",
                          call.id, None, s.seqNum)) EXCEPT
                 !.ToolCalls = IF call.id = None THEN @
                               ELSE put(@, index, call.id)]
  IN IF call.args = None THEN item
     ELSE emit([item EXCEPT !.ToolArgs =
                  put(@, index, Append(textAt(@, index), call.args))],
               Response("response.function_call_arguments.delta", index,
                        "function_call", call.id, call.args, s.seqNum))

fromTools(s, calls) == FoldLeft(fromTool, s, calls)

toolDone(s, index) ==
  LET id == s.ToolCalls[index]
      args == textAt(s.ToolArgs, index)
      doneEvent(event) ==
        Full(Response(event, index, "function_call", id, None, s.seqNum), args)
  IN emit(emit(s, doneEvent("response.function_call_arguments.done")),
          doneEvent("response.output_item.done"))

toolsDone(s, indexes) == FoldLeft(toolDone, s, indexes)

\* The finish reason closes the text, the calls if they are the reason, and
\* the message item.
fromFinish(s, reason) ==
  IF reason = "" THEN s
  ELSE LET messageEvent(event) ==
             Full(Response(event, choiceIndex, "message", None, None,
                           s.seqNum), messageText(s))
           text == IF ~hasText(s) THEN s
                   ELSE emit(emit(s, messageEvent("response.output_text.done")),
                             messageEvent("response.content_part.done"))
           calls == IF reason # "tool_calls" THEN text
                    ELSE toolsDone(text, SetToSeq(DOMAIN s.ToolCalls))
       IN emit(calls, messageEvent("response.output_item.done"))

ConvertChatChunkToResponsesEventsStateful(s, chunk) ==
  LET text == fromText(fromRole(created(s), chunk.role), chunk.content)
  IN fromFinish(fromTools(text, chunk.tools), chunk.finish)
-----------------------------------------------------------------------------
(* The events that end a response.                                         *)

BuildResponsesCompletedEvent(usage, text, seq) ==
  WithUsage(Full(Lifecycle("response.completed", seq), text), usage)
BuildResponsesDoneEvent(text, seq) ==
  Full(Lifecycle("response.completed", seq), text)
BuildResponsesTerminalDoneEvent(seq) == Lifecycle("response.done", seq)
-----------------------------------------------------------------------------
(* From an Anthropic stream: numbered one by one.  A block's stop is not   *)
(* translated, so an item of a tool call is never done.                    *)

AnthropicToResponsesState ==
  [LastUsage |-> NoUsage, seqNum |-> 0, done |-> FALSE, out |-> <<>>]

\* nextSeq and the event that takes it.
number(s, e) ==
  emit([s EXCEPT !.seqNum = @ + 1], [e EXCEPT !.seq = s.seqNum + 1])

fromMessageDelta(s, f) ==
  LET item == number(s, Response("response.output_item.done", choiceIndex,
                                 "message", None, None, None))
  IN IF f.usage = NoUsage THEN item
     ELSE number([item EXCEPT !.LastUsage = f.usage],
                 WithUsage(Lifecycle("response.completed", None), f.usage))

ResponsesEventsFromAnthropicFrame(s, f) ==
  CASE f.event = "message_start" ->
         number([s EXCEPT !.LastUsage = f.usage],
                Response("response.output_item.added", choiceIndex, "message",
                         None, None, None))
    [] f.event = "content_block_start" /\ f.kind = "tool_use" ->
         number(s, Response("response.output_item.added", f.index + ToolBase,
                            "function_call", f.id, None, None))
    [] f.event = "content_block_delta" /\ f.kind = "text" ->
         number(s, Response("response.output_text.delta", choiceIndex, "text",
                            None, f.piece, None))
    [] f.event = "content_block_delta" /\ f.kind = "tool_use" ->
         number(s, Response("response.function_call_arguments.delta",
                            f.index + ToolBase, "function_call", None, f.piece,
                            None))
    [] f.event = "message_delta" -> fromMessageDelta(s, f)
    [] f.event = "message_stop" -> [s EXCEPT !.done = TRUE]
    [] OTHER -> s
=============================================================================
