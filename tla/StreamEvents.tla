---------------------------- MODULE StreamEvents ----------------------------
(***************************************************************************)
(* The server-sent events of the three dialects the gateway translates     *)
(* between, reduced to what a translation can get wrong: which event, for  *)
(* which block or item, with which piece of text, thinking or arguments.   *)
(* A piece is a number, 0 stands for a missing or empty string; a tool     *)
(* call is named by the number of its id.  Ids and names of responses,     *)
(* created times and the JSON around them are left out.                    *)
(***************************************************************************)
EXTENDS Integers, Sequences, FiniteSets, TLC, Folds, SequencesExt

None == 0
NoUsage == [in |-> 0, out |-> 0]

\* A translator's state carries the events it has produced in the field out.
emit(s, e) == [s EXCEPT !.out = Append(@, e)]
emitIf(cond, s, e) == IF cond THEN emit(s, e) ELSE s

\* A Go map read: a missing key gives the zero value.
lookup(map, key) == IF key \in DOMAIN map THEN map[key] ELSE None
textAt(map, key) == IF key \in DOMAIN map THEN map[key] ELSE <<>>

\* A Go map write.
put(map, key, value) ==
  [k \in DOMAIN map \union {key} |-> IF k = key THEN value ELSE map[k]]
-----------------------------------------------------------------------------
(* OpenAI chat: chunks with one choice, or none in a usage chunk.          *)

Chunk == [event |-> "chunk", choices |-> 1, role |-> FALSE, reasoning |-> None,
          content |-> None, tools |-> <<>>, finish |-> "", usage |-> NoUsage]
RoleChunk == [Chunk EXCEPT !.role = TRUE]
ContentChunk(piece) == [Chunk EXCEPT !.content = piece]
ReasoningChunk(piece) == [Chunk EXCEPT !.reasoning = piece]
ToolChunk(index, id, piece) ==
  [Chunk EXCEPT !.tools = <<[index |-> index, id |-> id, args |-> piece]>>]
FinishChunk(reason, usage) ==
  [Chunk EXCEPT !.finish = reason, !.usage = usage]
UsageChunk(usage) == [Chunk EXCEPT !.choices = 0, !.usage = usage]

\* The terminator both OpenAI dialects may end with.
Done == [event |-> "[DONE]"]

\* Anthropic messages: blocks named by their index.
MessageStart(usage) == [event |-> "message_start", usage |-> usage]
BlockStart(index, kind, id) ==
  [event |-> "content_block_start", index |-> index, kind |-> kind, id |-> id]
BlockDelta(index, kind, piece) ==
  [event |-> "content_block_delta", index |-> index, kind |-> kind,
   piece |-> piece]
BlockStop(index) == [event |-> "content_block_stop", index |-> index]
MessageDelta(reason, usage) ==
  [event |-> "message_delta", reason |-> reason, usage |-> usage]
MessageStop == [event |-> "message_stop"]

\* OpenAI responses: items named by their output index.  What a frame does
\* not carry is None, an absent sequence number too.
Response(event, index, kind, id, piece, seq) ==
  [event |-> event, index |-> index, kind |-> kind, id |-> id,
   piece |-> piece, seq |-> seq, full |-> <<>>, usage |-> NoUsage]
Full(e, pieces) == [e EXCEPT !.full = pieces]
WithUsage(e, usage) == [e EXCEPT !.usage = usage]
Lifecycle(event, seq) == Response(event, None, "", None, None, seq)
-----------------------------------------------------------------------------
(* Finish reasons.                                                         *)

anthropicStopReasonToChatFinish(reason) ==
  CASE reason = "tool_use" -> "tool_calls"
    [] reason = "max_tokens" -> "length"
    [] OTHER -> "stop"

anthropicStopReasonFromChatFinish(reason) ==
  CASE reason = "tool_calls" -> "tool_use"
    [] reason = "length" -> "max_tokens"
    [] OTHER -> "end_turn"
=============================================================================
