--------------------------- MODULE StreamUpstream ---------------------------
(***************************************************************************)
(* Not the gateway's code: the providers' streams, as the codecs and their *)
(* tests use them.  A provider composes an answer of text, thinking and    *)
(* tool calls piece by piece; what it says is put into the frames of its   *)
(* dialect.  up remembers the whole answer, to compare what arrives.       *)
(* An operator gives the new up and the frames: [up, frames].              *)
(***************************************************************************)
EXTENDS StreamEvents

CONSTANTS
  MaxPieces,   \* bound: pieces of text, thinking and arguments in an answer
  MaxTools     \* bound: tool calls in an answer

ASSUME StreamUpstreamAssumption == MaxPieces \in Nat /\ MaxTools \in Nat

TotalUsage == [in |-> 3, out |-> 2]
NoBlock == [index |-> -1, kind |-> ""]

Silent ==
  [phase |-> "new", pieces |-> 0, text |-> <<>>, thinking |-> <<>>,
   args |-> <<>>, index |-> <<>>, open |-> NoBlock, next |-> 0,
   finish |-> "", usage |-> NoUsage, usageApart |-> FALSE]

says(up, frames) == [up |-> up, frames |-> frames]
toolsOf(up) == DOMAIN up.args
event(name, index, kind, id, piece) ==
  Response(name, index, kind, id, piece, None)

\* The frames that close the open block: a Responses provider keeps the items
\* of its calls open, an Anthropic one has one open block at a time.
closing(protocol, up) ==
  IF up.open = NoBlock THEN <<>>
  ELSE CASE protocol = "anthropic" -> <<BlockStop(up.open.index)>>
         [] protocol = "responses" ->
              <<event("response.output_item.done", up.open.index,
                      up.open.kind, None, None)>>
         [] OTHER -> <<>>

opening(protocol, index, kind, id) ==
  CASE protocol = "anthropic" -> <<BlockStart(index, kind, id)>>
    [] protocol = "responses" ->
         <<event("response.output_item.added", index, kind, id, None)>>
    [] OTHER -> <<>>

\* The block for the next text or thinking piece.
inBlock(protocol, up, kind) ==
  IF up.open.kind = kind THEN says(up, <<>>)
  ELSE says([up EXCEPT !.open = [index |-> up.next, kind |-> kind],
                       !.next = @ + 1],
            closing(protocol, up) \o opening(protocol, up.next, kind, None))

textKind(protocol) == IF protocol = "responses" THEN "message" ELSE "text"

Begins(protocol, up) ==
  says([up EXCEPT !.phase = "talking"],
       CASE protocol = "chat" -> <<RoleChunk>>
         [] protocol = "responses" -> <<Lifecycle("response.created", None)>>
         [] OTHER -> <<MessageStart([in |-> 3, out |-> 1])>>)

SaysText(protocol, up) ==
  LET piece == up.pieces + 1
      block == inBlock(protocol, up, textKind(protocol))
  IN says([block.up EXCEPT !.pieces = piece, !.text = Append(@, piece)],
          block.frames \o
          CASE protocol = "chat" -> <<ContentChunk(piece)>>
            [] protocol = "responses" ->
                 <<event("response.output_text.delta", block.up.open.index,
                         "text", None, piece)>>
            [] OTHER -> <<BlockDelta(block.up.open.index, "text", piece)>>)

\* A Responses provider's reasoning is in events the gateway skips.
Thinks(protocol, up) ==
  LET piece == up.pieces + 1
      block == IF protocol = "anthropic" THEN inBlock(protocol, up, "thinking")
               ELSE says(up, <<>>)
  IN says([block.up EXCEPT !.pieces = piece, !.thinking = Append(@, piece)],
          block.frames \o
          CASE protocol = "chat" -> <<ReasoningChunk(piece)>>
            [] protocol = "responses" ->
                 <<event("response.reasoning_summary_text.delta", 0, "", None,
                         piece)>>
            [] OTHER -> <<BlockDelta(block.up.open.index, "thinking", piece)>>)

\* Chat counts its calls from 0, the others number calls and texts together.
CallsTool(protocol, up) ==
  LET id == Cardinality(toolsOf(up)) + 1
      kind == IF protocol = "responses" THEN "function_call" ELSE "tool_use"
      index == IF protocol = "chat" THEN id - 1 ELSE up.next
  IN says([up EXCEPT !.args = put(@, id, <<>>),
                     !.index = put(@, id, index),
                     !.next = @ + 1,
                     !.open = IF protocol = "anthropic"
                              THEN [index |-> index, kind |-> kind]
                              ELSE NoBlock],
          closing(protocol, up) \o
          IF protocol = "chat" THEN <<ToolChunk(index, id, None)>>
          ELSE opening(protocol, index, kind, id))

\* Arguments of any call so far, or only of the last in an Anthropic stream.
takesArguments(protocol, up) ==
  IF protocol = "anthropic"
  THEN {id \in toolsOf(up) : up.open.index = up.index[id]} ELSE toolsOf(up)

SaysArguments(protocol, up, id) ==
  LET piece == up.pieces + 1
      index == up.index[id]
  IN says([up EXCEPT !.pieces = piece, !.args[id] = Append(@, piece)],
          CASE protocol = "chat" -> <<ToolChunk(index, None, piece)>>
            [] protocol = "responses" ->
                 <<event("response.function_call_arguments.delta", index,
                         "function_call", None, piece)>>
            [] OTHER -> <<BlockDelta(index, "tool_use", piece)>>)

Reasons(up) == {"length", IF toolsOf(up) = {} THEN "stop" ELSE "tool_calls"}

\* How a chat provider tells the usage: not at all, in a chunk of its own or
\* in the last chunk.  An Anthropic one repeats the input tokens or not.
finishFrames(protocol, up, reason) ==
  CASE protocol = "chat" ->
         {<<FinishChunk(reason, NoUsage)>>,
          <<FinishChunk(reason, NoUsage), UsageChunk(TotalUsage)>>,
          <<FinishChunk(reason, TotalUsage)>>}
    [] protocol = "responses" ->
         LET dones == [id \in 1..Cardinality(toolsOf(up)) |->
                         Full(event("response.output_item.done",
                                    up.index[id], "function_call", id, None),
                              up.args[id])]
         IN {dones \o
             <<IF reason = "length" THEN Lifecycle("response.incomplete", None)
               ELSE WithUsage(Lifecycle("response.completed", None),
                              TotalUsage)>>}
    [] OTHER ->
         {<<MessageDelta(anthropicStopReasonFromChatFinish(reason), usage)>> :
            usage \in {TotalUsage, [TotalUsage EXCEPT !.in = None]}}

usageIn(frames) ==
  LET told == {f \in ToSet(frames) : "usage" \in DOMAIN f}
  IN IF \E f \in told : f.usage # NoUsage
     THEN (CHOOSE f \in told : f.usage # NoUsage).usage ELSE NoUsage

finishing(protocol, up, reason, frames) ==
  says([up EXCEPT !.phase = "finished", !.finish = reason, !.open = NoBlock,
                  !.usage = usageIn(frames),
                  !.usageApart = Contains(frames, UsageChunk(TotalUsage))],
       closing(protocol, up) \o frames)

Finishes(protocol, up) ==
  UNION {{finishing(protocol, up, reason, frames) :
            frames \in finishFrames(protocol, up, reason)} :
           reason \in Reasons(up)}

\* The end of the stream.  Some Responses providers add a [DONE] to a
\* completed response.
Terminates(protocol, up) ==
  {says([up EXCEPT !.phase = "ended"], frames) :
     frames \in CASE protocol = "chat" -> {<<Done>>}
                  [] protocol = "anthropic" -> {<<MessageStop>>}
                  [] protocol = "responses" /\ up.finish = "length" -> {<<>>}
                  [] OTHER -> {<<>>, <<Done>>}}
=============================================================================
