--------------------------- MODULE StreamClients ----------------------------
(***************************************************************************)
(* Observers: what a client that reads a stream by the rules of its        *)
(* dialect has put together so far, and the rules it saw broken (faults).  *)
(* They are part of the properties, not of the gateway.                    *)
(***************************************************************************)
EXTENDS StreamEvents

NewClient ==
  [begun |-> FALSE, open |-> <<>>, ids |-> <<>>, text |-> <<>>,
   thinking |-> <<>>, args |-> <<>>, finish |-> <<>>, usage |-> NoUsage,
   completed |-> 0, ended |-> 0, seq |-> 0, faults |-> {}]

blame(c, broken, fault) ==
  IF broken THEN [c EXCEPT !.faults = @ \union {fault}] ELSE c

\* A call is announced under a key, its arguments come under that key.
announce(c, key, id) ==
  [blame(c, id \in DOMAIN c.args, "call announced twice") EXCEPT
     !.ids = put(@, key, id), !.args = put(@, id, <<>>)]

addArguments(c, key, piece) ==
  IF key \notin DOMAIN c.ids THEN blame(c, TRUE, "arguments of no call")
  ELSE [c EXCEPT !.args[c.ids[key]] = Append(@, piece)]

closeKey(map, key) == [k \in DOMAIN map \ {key} |-> map[k]]
isOpen(c, key) == key \in DOMAIN c.open
addPiece(c, kind, key, piece) ==
  CASE kind = "text" -> [c EXCEPT !.text = Append(@, piece)]
    [] kind = "thinking" -> [c EXCEPT !.thinking = Append(@, piece)]
    [] OTHER -> addArguments(c, key, piece)
-----------------------------------------------------------------------------
anthropicBlockStart(c, e) ==
  LET fresh == blame(c, isOpen(c, e.index), "block started twice")
      calls == IF e.kind = "tool_use" THEN announce(fresh, e.index, e.id)
               ELSE fresh
  IN [calls EXCEPT !.open = put(@, e.index, e.kind)]

anthropicBlockDelta(c, e) ==
  LET inside == isOpen(c, e.index) /\ c.open[e.index] = e.kind
      thinks == e.kind = "text" /\ \E key \in DOMAIN c.open :
                                      c.open[key] = "thinking"
  IN addPiece(blame(blame(c, ~inside, "delta outside of its block"),
                    thinks, "text inside thinking"),
              e.kind, e.index, e.piece)

AnthropicClient(client, e) ==
  LET c == blame(client, client.begun <=> e.event = "message_start",
                 "message_start not first")
  IN CASE e.event = "message_start" -> [c EXCEPT !.begun = TRUE]
       [] e.event = "content_block_start" -> anthropicBlockStart(c, e)
       [] e.event = "content_block_delta" -> anthropicBlockDelta(c, e)
       [] e.event = "content_block_stop" ->
            [blame(c, ~isOpen(c, e.index), "stop of no block") EXCEPT
               !.open = closeKey(@, e.index)]
       [] e.event = "message_delta" ->
            [c EXCEPT !.finish = Append(@, e.reason), !.usage = e.usage]
       [] e.event = "message_stop" ->
            [blame(c, DOMAIN c.open # {}, "block never stopped") EXCEPT
               !.ended = @ + 1]
       [] OTHER -> blame(c, TRUE, "foreign event")
-----------------------------------------------------------------------------
chatCall(c, call) ==
  LET known == IF call.id # None /\ call.index \notin DOMAIN c.ids
               THEN announce(c, call.index, call.id) ELSE c
  IN IF call.args = None THEN known
     ELSE addArguments(known, call.index, call.args)

chatCalls(c, calls) == FoldLeft(chatCall, c, calls)

chatChunk(c, e) ==
  LET begun == [blame(c, ~c.begun /\ ~e.role, "no role first") EXCEPT
                  !.begun = TRUE]
      content == IF e.content = None THEN begun
                 ELSE addPiece(begun, "text", 0, e.content)
      thinking == IF e.reasoning = None THEN content
                  ELSE addPiece(content, "thinking", 0, e.reasoning)
      calls == chatCalls(thinking, e.tools)
      finish == IF e.finish = "" THEN calls
                ELSE [calls EXCEPT !.finish = Append(@, e.finish)]
  IN IF e.usage = NoUsage THEN finish ELSE [finish EXCEPT !.usage = e.usage]

ChatClient(client, e) ==
  LET late == blame(client, client.ended > 0, "event after [DONE]")
      c == blame(late, /\ client.finish # <<>>
                       /\ e.event = "chunk"
                       /\ e.choices > 0, "choice after its finish reason")
  IN CASE e.event = "[DONE]" -> [c EXCEPT !.ended = @ + 1]
       [] e.event = "chunk" -> chatChunk(c, e)
       [] OTHER -> blame(c, TRUE, "foreign event")
-----------------------------------------------------------------------------
responsesItemAdded(c, e) ==
  LET fresh == blame(c, isOpen(c, e.index), "item added twice")
      calls == IF e.kind = "function_call" THEN announce(fresh, e.index, e.id)
               ELSE fresh
  IN [calls EXCEPT !.open = put(@, e.index, e.kind)]

\* What an item or a part is said to be when it is done.
assembled(c, e) ==
  IF e.kind = "function_call" THEN textAt(c.args, e.id) ELSE c.text

\* The numbers of the events never go back.  An item that is done, with the
\* content told by then, is closed.
ResponsesClient(client, e) ==
  LET late == blame(client, client.ended > 0, "event after [DONE]")
      c == [blame(late, e.event # "[DONE]" /\ e.seq # None /\ e.seq < client.seq,
                  "sequence number goes back") EXCEPT
              !.begun = TRUE,
              !.seq = IF e.event = "[DONE]" THEN @ ELSE e.seq]
      known == blame(c, e.event # "[DONE]" /\ ~isOpen(c, e.index),
                     "event of no item")
  IN CASE e.event = "[DONE]" -> [c EXCEPT !.ended = @ + 1]
       [] e.event = "response.output_item.added" -> responsesItemAdded(c, e)
       [] e.event \in {"response.output_text.delta",
                       "response.function_call_arguments.delta"} ->
            addPiece(known, e.kind, e.index, e.piece)
       [] e.event \in {"response.output_text.done",
                       "response.content_part.done",
                       "response.function_call_arguments.done"} ->
            blame(known, e.full # assembled(c, e), "done differs from deltas")
       [] e.event = "response.output_item.done" ->
            [known EXCEPT !.open = closeKey(@, e.index)]
       [] e.event = "response.completed" ->
            [c EXCEPT !.completed = @ + 1,
                      !.usage = IF e.usage = NoUsage THEN @ ELSE e.usage]
       [] OTHER -> c
-----------------------------------------------------------------------------
(* Several events, one after the other.                                    *)

AnthropicReads(c, events) == FoldLeft(AnthropicClient, c, events)
ChatReads(c, events) == FoldLeft(ChatClient, c, events)
ResponsesReads(c, events) == FoldLeft(ResponsesClient, c, events)
=============================================================================
