------------------------- MODULE ToAnthropicStream --------------------------
(***************************************************************************)
(* protocol/stream_stateful_codec.go, the outbound half for Anthropic      *)
(* clients: block 0 is text, block 1 thinking, block i + 2 the tool call   *)
(* with index i.  Each operator takes the translator's state to the next   *)
(* one, the frames it writes appended to out.                              *)
(***************************************************************************)
EXTENDS StreamEvents

AnthropicOutboundState ==
  [MessageStarted |-> FALSE, TextStarted |-> FALSE, ReasoningStarted |-> FALSE,
   ToolBlocks |-> {}, PendingFinish |-> "", PendingUsage |-> NoUsage,
   out |-> <<>>]

ensureStart(s) ==
  [emitIf(~s.MessageStarted, s, MessageStart(NoUsage)) EXCEPT
     !.MessageStarted = TRUE]

startText(s) ==
  [emitIf(~s.TextStarted, s, BlockStart(0, "text", None)) EXCEPT
     !.TextStarted = TRUE]

stopText(s) ==
  [emitIf(s.TextStarted, s, BlockStop(0)) EXCEPT !.TextStarted = FALSE]

stopThinking(s) ==
  [emitIf(s.ReasoningStarted, s, BlockStop(1)) EXCEPT
     !.ReasoningStarted = FALSE]

stopTool(s, index) == emit(s, BlockStop(index + 2))
stopTools(s, order) == FoldLeft(stopTool, s, order)

\* What ends a message: every block the state knows to be open is stopped,
\* the tool blocks in the map's order, the pending finish reason and usage
\* are told once, and the message stops.
flushAnthropicFinish(s, order) ==
  LET blocks == stopThinking(stopText(s))
      tools == [stopTools(blocks, order) EXCEPT !.ToolBlocks = {}]
      pending == s.PendingFinish # "" \/ s.PendingUsage # NoUsage
      delta == MessageDelta(anthropicStopReasonFromChatFinish(s.PendingFinish),
                            s.PendingUsage)
  IN emit([emitIf(pending, tools, delta) EXCEPT
             !.PendingFinish = "", !.PendingUsage = NoUsage], MessageStop)

\* The orders in which a range over the map may visit the tool blocks.
ToolOrders(s) == SetToSeqs(s.ToolBlocks)
-----------------------------------------------------------------------------
(* From a chat chunk.  Nothing ends the message here: the handler flushes  *)
(* at [DONE].                                                              *)

fromReasoning(s, piece) ==
  IF piece = None THEN s
  ELSE LET started == [emitIf(~s.ReasoningStarted, s,
                              BlockStart(1, "thinking", None)) EXCEPT
                         !.ReasoningStarted = TRUE]
       IN emit(started, BlockDelta(1, "thinking", piece))

\* A slip to check the rules against: a running thinking block left open.
contentInsideThinking(s, piece) ==
  IF piece = None THEN s
  ELSE emit(startText(s), BlockDelta(0, "text", piece))

\* Text stops a running thinking block before its own block starts.
fromContent(s, piece) ==
  IF piece = None THEN s
  ELSE emit(startText(stopThinking(s)), BlockDelta(0, "text", piece))

\* The first chunk of a tool call starts its block.
fromToolCall(s, call) ==
  LET started == [emitIf(call.index \notin s.ToolBlocks, s,
                         BlockStart(call.index + 2, "tool_use", call.id)) EXCEPT
                    !.ToolBlocks = @ \union {call.index}]
  IN emitIf(call.args # None, started,
            BlockDelta(call.index + 2, "tool_use", call.args))

fromToolCalls(s, calls) == FoldLeft(fromToolCall, s, calls)

AnthropicFramesFromChatChunk(s, chunk) ==
  LET content == fromContent(fromReasoning(ensureStart(s), chunk.reasoning),
                             chunk.content)
      tools == fromToolCalls(content, chunk.tools)
      finish == IF chunk.finish = "" THEN tools
                ELSE [tools EXCEPT !.PendingFinish = chunk.finish]
  IN IF chunk.usage = NoUsage THEN finish
     ELSE [finish EXCEPT !.PendingUsage = chunk.usage]
-----------------------------------------------------------------------------
(* From a frame of a Responses stream, with images and files in a message  *)
(* item left out.                                                          *)

itemAdded(s, f) ==
  LET started == ensureStart(s)
  IN CASE f.kind = "message" -> startText(started)
       [] f.kind = "function_call" ->
            [emit(started, BlockStart(f.index + 2, "tool_use", f.id)) EXCEPT
               !.ToolBlocks = @ \union {f.index}]
       [] OTHER -> started

\* The message ends with response.completed; a [DONE] after it flushes again.
AnthropicEventsFromResponsesFrame(s, f, order) ==
  CASE f.event = "[DONE]" -> flushAnthropicFinish(s, order)
    [] f.event = "response.output_item.added" -> itemAdded(s, f)
    [] f.event = "response.output_text.delta" ->
         emit(startText(ensureStart(s)), BlockDelta(0, "text", f.piece))
    [] f.event = "response.function_call_arguments.delta" ->
         emit(ensureStart(s), BlockDelta(f.index + 2, "tool_use", f.piece))
    [] \/ f.event = "response.function_call_arguments.done"
       \/ f.event = "response.output_item.done" /\ f.kind = "function_call" ->
         [s EXCEPT !.PendingFinish = "tool_calls"]
    [] f.event = "response.completed" ->
         flushAnthropicFinish(
           [s EXCEPT !.PendingFinish = IF @ = "" THEN "stop" ELSE @,
                     !.PendingUsage = f.usage], order)
    [] OTHER -> s
=============================================================================
