---------------------------- MODULE ToChatStream ----------------------------
(***************************************************************************)
(* protocol/stream_anthropic_codec.go and stream_stateful_codec.go, the    *)
(* halves that write OpenAI chat chunks.  done tells the handler to write  *)
(* [DONE] and stop reading.                                                *)
(***************************************************************************)
EXTENDS StreamEvents

AnthropicInboundState ==
  [LastUsage |-> NoUsage, ToolIndexes |-> <<>>, done |-> FALSE, out |-> <<>>]

\* A slip: the usage stays that of the message_start.
firstUsage(s, f) == s.LastUsage

\* The usage of a message_delta replaces that of the message_start as a whole.
latestUsage(s, f) == IF f.usage = NoUsage THEN s.LastUsage ELSE f.usage

\* Every event of an Anthropic stream that is not named here is skipped.
ChatChunksFromAnthropicFrame(s, f) ==
  CASE f.event = "message_start" ->
         emit([s EXCEPT !.LastUsage = f.usage], RoleChunk)
    [] f.event = "content_block_start" /\ f.kind = "tool_use" ->
         emit([s EXCEPT !.ToolIndexes = put(@, f.index, f.id)],
              ToolChunk(f.index, f.id, None))
    [] f.event = "content_block_delta" ->
         emit(s, CASE f.kind = "text" -> ContentChunk(f.piece)
                   [] f.kind = "thinking" -> ReasoningChunk(f.piece)
                   [] OTHER -> ToolChunk(f.index,
                                         lookup(s.ToolIndexes, f.index),
                                         f.piece))
    [] f.event = "message_delta" ->
         LET usage == latestUsage(s, f)
         IN emit([s EXCEPT !.LastUsage = usage],
                 FinishChunk(anthropicStopReasonToChatFinish(f.reason), usage))
    [] f.event = "message_stop" -> [s EXCEPT !.done = TRUE]
    [] OTHER -> s
-----------------------------------------------------------------------------
ResponsesStreamState ==
  [RoleSent |-> FALSE, Tools |-> <<>>, SawToolCall |-> FALSE, done |-> FALSE,
   out |-> <<>>]

sendRole(s) == [emitIf(~s.RoleSent, s, RoleChunk) EXCEPT !.RoleSent = TRUE]

\* A slip: a call kept but not announced.
toolNoted(s, f) == [s EXCEPT !.Tools = put(@, f.index, f.id)]

toolAdded(s, f) ==
  emit([s EXCEPT !.Tools = put(@, f.index, f.id), !.SawToolCall = TRUE],
       ToolChunk(f.index, f.id, None))

\* The finish reason of a Responses stream is not in response.completed: a
\* tool call seen on the way makes it tool_calls.
ChatChunksFromResponsesFrame(s, f) ==
  CASE f.event = "[DONE]" -> [s EXCEPT !.done = TRUE]
    [] f.event = "response.output_item.added" /\ f.kind = "message" ->
         sendRole(s)
    [] f.event = "response.output_item.added" /\ f.kind = "function_call" ->
         toolAdded(s, f)
    [] f.event = "response.output_text.delta" ->
         emit(sendRole(s), ContentChunk(f.piece))
    [] f.event = "response.function_call_arguments.delta" ->
         emit([s EXCEPT !.SawToolCall = TRUE],
              ToolChunk(f.index, lookup(s.Tools, f.index), f.piece))
    [] f.event = "response.function_call_arguments.done" ->
         [s EXCEPT !.SawToolCall = TRUE]
    [] f.event = "response.completed" ->
         emit(s, FinishChunk(IF s.SawToolCall THEN "tool_calls" ELSE "stop",
                             f.usage))
    [] OTHER -> s
=============================================================================
