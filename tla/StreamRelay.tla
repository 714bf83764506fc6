---------------------------- MODULE StreamRelay -----------------------------
(***************************************************************************)
(* handlers/chat_response.go and chat_request.go: one streamed answer on   *)
(* its way from a provider to a client.  A handler reads the provider's    *)
(* stream frame by frame, gives each to the translator of its route and    *)
(* writes what comes out at once; the provider may stop, the connection    *)
(* may break and the client may leave at any moment.                       *)
(*                                                                         *)
(* Route <<client, upstream>> names the dialects; the route "aggregate" is *)
(* the chat request with tools that is not streamed to the client but is   *)
(* to the provider.  A frame is taken to arrive whole (ReadSSEFrame), and  *)
(* the next is composed when the last was handled: a handler is a function *)
(* of its input, so the schedule between the two does not matter.          *)
(***************************************************************************)
EXTENDS ToAnthropicStream, ToChatStream, ToResponsesStream, ChatAggregate,
        StreamUpstream, StreamClients

Dialects == {"chat", "responses", "anthropic"}
Routes == Dialects \X Dialects
Aggregated == <<"aggregate", "chat">>

VARIABLES
  route,      \* <<client dialect, upstream dialect>>
  up,         \* the provider: what it has said of its answer
  wire,       \* frames the provider has sent and the handler not yet read
  connection, \* "open", "eof" after a clean close, "error" after a break
  codec,      \* state of the route's translator
  client,     \* what the client has put together
  left,       \* has the client gone?
  reqLog,     \* what the log entry's Response holds, read as a client would
  pc,         \* "reading", "fallback" or "returned"
  requests    \* upstream requests sent for this one

vars == <<route, up, wire, connection, codec, client, left, reqLog, pc, requests>>

clientDialect == route[1]
upstream == route[2]
translated == route # Aggregated /\ clientDialect # upstream

\* Each dialect's reader.
receiveAll(c, events) ==
  CASE clientDialect = "anthropic" -> AnthropicReads(c, events)
    [] clientDialect = "responses" -> ResponsesReads(c, events)
    [] OTHER -> ChatReads(c, events)

newCodec(r) ==
  CASE r[1] = "chat" /\ r[2] = "anthropic" -> AnthropicInboundState
    [] r[1] = "chat" /\ r[2] = "responses" -> ResponsesStreamState
    [] r[1] = "responses" /\ r[2] = "anthropic" -> AnthropicToResponsesState
    [] r[1] = "responses" /\ r[2] = "chat" -> ChatToResponsesStreamState
    [] r[1] = "anthropic" /\ r[2] # "anthropic" -> AnthropicOutboundState
    [] OTHER -> Aggregate

Init ==
  /\ route \in Routes \union {Aggregated}
  /\ up = Silent
  /\ wire = <<>>
  /\ connection = "open"
  /\ codec = newCodec(route)
  /\ client = NewClient
  /\ left = FALSE
  /\ reqLog = NewClient
  /\ pc = "reading"
  /\ requests = 1
-----------------------------------------------------------------------------
(* The provider and the network.                                           *)

listening == connection = "open" /\ pc = "reading" /\ wire = <<>>

sends(said) ==
  /\ up' = said.up
  /\ wire' = said.frames
  /\ UNCHANGED <<route, connection, codec, client, left, reqLog, pc, requests>>

talking == listening /\ up.phase = "talking"
roomForPiece == up.pieces < MaxPieces

UpstreamBegins ==
  listening /\ up.phase = "new" /\ sends(Begins(upstream, up))
UpstreamSaysText ==
  talking /\ roomForPiece /\ sends(SaysText(upstream, up))
UpstreamThinks ==
  talking /\ roomForPiece /\ sends(Thinks(upstream, up))
UpstreamCallsTool ==
  /\ talking
  /\ Cardinality(toolsOf(up)) < MaxTools
  /\ sends(CallsTool(upstream, up))
UpstreamSaysArguments ==
  /\ talking /\ roomForPiece
  /\ \E id \in takesArguments(upstream, up) :
       sends(SaysArguments(upstream, up, id))
UpstreamFinishes ==
  talking /\ \E said \in Finishes(upstream, up) : sends(said)
UpstreamTerminates ==
  /\ listening /\ up.phase = "finished"
  /\ \E said \in Terminates(upstream, up) : sends(said)

\* The provider closes, cleanly or not, at the end or before it; what is
\* underway is lost.
ConnectionCloses ==
  /\ connection = "open" /\ pc = "reading"
  /\ up.phase = "ended" => wire = <<>>
  /\ connection' \in IF up.phase = "ended" THEN {"eof"} ELSE {"eof", "error"}
  /\ wire' = <<>>
  /\ UNCHANGED <<route, up, codec, client, left, reqLog, pc, requests>>

\* The client goes away: what is written to it is lost from now on.  The
\* request context it cancels breaks the upstream connection (above).
ClientLeaves ==
  /\ ~left /\ pc # "returned"
  /\ left' = TRUE
  /\ UNCHANGED <<route, up, wire, connection, codec, client, reqLog, pc,
                 requests>>
-----------------------------------------------------------------------------
(* The handlers.  handled says what one frame does: the translator's next  *)
(* state, with the events to write in out, and whether the handler returns.*)

handled(s, returns) == [codec |-> s, returns |-> returns]

\* [DONE] goes out and the handler stops when the translator is done.
chatDone(s) == handled(emitIf(s.done, s, Done), s.done)

\* writeResponsesStreamDone: a response.completed, a response.done and
\* [DONE], numbered from a copy of the sequence number.
writeResponsesStreamDone(s, text) ==
  emit(emit(emit(s, BuildResponsesDoneEvent(text, s.seqNum + 1)),
            BuildResponsesTerminalDoneEvent(s.seqNum + 2)),
       Done)

handleChatFromAnthropicStreamResponse(f) ==
  chatDone(ChatChunksFromAnthropicFrame(codec, f))

handleChatFromResponsesStreamResponse(f) ==
  chatDone(ChatChunksFromResponsesFrame(codec, f))

handleResponsesFromAnthropicStreamResponse(f) ==
  LET s == ResponsesEventsFromAnthropicFrame(codec, f)
  IN IF s.done THEN handled(writeResponsesStreamDone(s, <<>>), TRUE)
     ELSE handled(s, FALSE)

handleAnthropicFromChatStreamResponse(f, order) ==
  IF f = Done THEN handled(flushAnthropicFinish(codec, order), TRUE)
  ELSE handled(AnthropicFramesFromChatChunk(codec, f), FALSE)

\* This handler reads on after the response is completed.
handleAnthropicFromResponsesStreamResponse(f, order) ==
  handled(AnthropicEventsFromResponsesFrame(codec, f, order), FALSE)

\* Every data line takes a sequence number, which its events share; a chunk
\* without choices tells the usage.  It, too, reads on after [DONE].
handleResponsesStreamResponse(f) ==
  IF f = Done
  THEN handled(writeResponsesStreamDone(codec, messageText(codec)), FALSE)
  ELSE LET s == [codec EXCEPT !.seqNum = @ + 1]
       IN handled(IF f.choices > 0
                  THEN ConvertChatChunkToResponsesEventsStateful(s, f)
                  ELSE emitIf(f.usage # NoUsage, s,
                              BuildResponsesCompletedEvent(
                                f.usage, messageText(s), s.seqNum + 1)), FALSE)

translate(f, order) ==
  CASE route = <<"chat", "anthropic">> ->
         handleChatFromAnthropicStreamResponse(f)
    [] route = <<"chat", "responses">> ->
         handleChatFromResponsesStreamResponse(f)
    [] route = <<"responses", "anthropic">> ->
         handleResponsesFromAnthropicStreamResponse(f)
    [] route = <<"responses", "chat">> -> handleResponsesStreamResponse(f)
    [] route = <<"anthropic", "chat">> ->
         handleAnthropicFromChatStreamResponse(f, order)
    [] OTHER -> handleAnthropicFromResponsesStreamResponse(f, order)

\* The orders a range over a translator's tool map may take.
mapOrders ==
  IF translated /\ clientDialect = "anthropic" THEN ToolOrders(codec)
  ELSE {<<>>}

frameRead == pc = "reading" /\ wire # <<>> /\ wire' = Tail(wire)
written(events) == IF left THEN client ELSE receiveAll(client, events)

\* A slip: the log stops with the client.
loggedForClient(events) == IF left THEN reqLog ELSE receiveAll(reqLog, events)

\* A failed write to the client stops neither the loop nor the log.
logged(events) == receiveAll(reqLog, events)

\* One turn of a translating handler's loop.  What it writes is also kept for
\* the log, by every handler but handleResponsesStreamResponse.
RelayTranslated ==
  /\ translated /\ frameRead
  /\ \E order \in mapOrders :
       LET result == translate(Head(wire), order)
           events == result.codec.out
       IN /\ codec' = [result.codec EXCEPT !.out = <<>>]
          /\ client' = written(events)
          /\ reqLog' = IF route = <<"responses", "chat">> THEN reqLog
                       ELSE logged(events)
          /\ pc' = IF result.returns THEN "returned" ELSE pc
  /\ UNCHANGED <<route, up, connection, left, requests>>

\* handleOpenAIStreamResponse copies the lines and keeps them to build the
\* log's answer at the end; passthroughStreamResponse logs the copied data.
RelayUnchanged ==
  /\ ~translated /\ route # Aggregated /\ frameRead
  /\ client' = written(<<Head(wire)>>)
  /\ IF clientDialect = "chat"
     THEN codec' = aggregateChunk(codec, Head(wire)) /\ UNCHANGED reqLog
     ELSE reqLog' = logged(<<Head(wire)>>) /\ UNCHANGED codec
  /\ UNCHANGED <<route, up, connection, left, pc, requests>>

\* sendOpenAIChatUpstreamRequestAggregated reads all before it writes any.
ReadForAggregate ==
  /\ route = Aggregated /\ frameRead
  /\ codec' = aggregateChunk(codec, Head(wire))
  /\ UNCHANGED <<route, up, connection, client, left, reqLog, pc, requests>>
-----------------------------------------------------------------------------
(* The end of the upstream's stream.                                       *)

exhausted == pc = "reading" /\ wire = <<>> /\ connection # "open"

\* A whole answer in one body, as its reader sees it.
wholeAnswer(a) ==
  [NewClient EXCEPT
     !.text = a.content, !.thinking = a.reasoning,
     !.args = [id \in {a.calls[i].id : i \in DOMAIN a.calls} |->
                 (CHOOSE call \in {a.calls[i] : i \in DOMAIN a.calls} :
                    call.id = id).args],
     !.finish = <<a.finish>>, !.usage = a.usage, !.ended = 1]

\* A slip: [DONE] written whatever ended the loop.
StreamExhaustedDone ==
  /\ exhausted /\ route # Aggregated
  /\ pc' = "returned"
  /\ client' = written(<<Done>>)
  /\ UNCHANGED <<route, up, wire, connection, codec, left, reqLog, requests>>

\* The loop ends at any error of the reader, end of file or not.  Only the
\* chat stream copied as it is still has its log entry to build, and it logs
\* nothing when there was nothing to log.
StreamExhausted ==
  /\ exhausted /\ route # Aggregated
  /\ pc' = "returned"
  /\ IF route = <<"chat", "chat">> /\ codec.loggable
     THEN \E order \in callOrders(DOMAIN codec.calls) :
            reqLog' = wholeAnswer(buildOpenAIStreamLogResponse(codec, order))
     ELSE UNCHANGED reqLog
  /\ UNCHANGED <<route, up, wire, connection, codec, client, left, requests>>

\* The stream read to its clean end becomes the answer's body, whether it was
\* finished or not.
AnswerAggregate ==
  /\ exhausted /\ route = Aggregated
  /\ connection = "eof" /\ codec.loggable
  /\ \E order \in callOrders(DOMAIN codec.calls) :
       LET answer == wholeAnswer(buildOpenAIStreamLogResponse(codec, order))
       IN /\ client' = IF left THEN client ELSE answer
          /\ reqLog' = answer
  /\ pc' = "returned"
  /\ UNCHANGED <<route, up, wire, connection, codec, left, requests>>

\* A slip: trying the stream again instead.
FallBackAgain ==
  /\ exhausted /\ route = Aggregated
  /\ connection = "error" \/ ~codec.loggable
  /\ requests' = requests + 1
  /\ UNCHANGED <<route, up, wire, connection, codec, client, left, reqLog, pc>>

\* A broken or empty stream is thrown away and the request sent again,
\* without stream, under the same lease.
FallBack ==
  /\ exhausted /\ route = Aggregated
  /\ connection = "error" \/ ~codec.loggable
  /\ pc' = "fallback"
  /\ requests' = requests + 1
  /\ UNCHANGED <<route, up, wire, connection, codec, client, left, reqLog>>

\* Its answer, whatever it is, is the client's.
FallbackAnswered ==
  /\ pc = "fallback"
  /\ pc' = "returned"
  /\ client' = IF left THEN client ELSE [client EXCEPT !.ended = 1]
  /\ UNCHANGED <<route, up, wire, connection, codec, left, reqLog, requests>>
-----------------------------------------------------------------------------
Upstream ==
  \/ UpstreamBegins \/ UpstreamSaysText \/ UpstreamThinks
  \/ UpstreamCallsTool \/ UpstreamSaysArguments \/ UpstreamFinishes
  \/ UpstreamTerminates \/ ConnectionCloses
Handler ==
  \/ RelayTranslated \/ RelayUnchanged \/ ReadForAggregate
  \/ StreamExhausted \/ AnswerAggregate \/ FallBack \/ FallbackAnswered

\* The handler has returned; nothing more can happen.
Finished == pc = "returned" /\ UNCHANGED vars

Next == Upstream \/ Handler \/ ClientLeaves \/ Finished

Spec == Init /\ [][Next]_vars
-----------------------------------------------------------------------------
(* Properties.                                                             *)

StreamTypeOK ==
  /\ route \in Routes \union {Aggregated}
  /\ up.phase \in {"new", "talking", "finished", "ended"}
  /\ connection \in {"open", "eof", "error"}
  /\ pc \in {"reading", "fallback", "returned"}
  /\ left \in BOOLEAN
  /\ requests \in 1..2
  /\ wire # <<>> => connection = "open"

\* Everything the provider said has been handled.
delivered == wire = <<>> /\ (connection = "open" \/ up.phase = "ended")
streamed == route # Aggregated
carriesThinking == "responses" \notin {clientDialect, upstream}
hasAnswer == up.text # <<>> \/ toolsOf(up) # {}
parallelCalls == Cardinality(toolsOf(up)) > 1

\* A client has at every moment a prefix of the provider's text and thinking,
\* and all of it when nothing is underway: no route drops, doubles or reorders
\* a piece, whatever else its translator tells in between.
WordsFaithful ==
  streamed =>
    /\ IsPrefix(client.text, up.text)
    /\ IsPrefix(client.thinking, up.thinking)
    /\ delivered /\ ~left =>
         /\ client.text = up.text
         /\ carriesThinking => client.thinking = up.thinking

argPieces(args) == UNION {ToSet(args[id]) : id \in DOMAIN args}

\* It has every call, under its own id, and its arguments.  Only calls in
\* parallel on the way from chat to responses, which share one output index,
\* are mixed: every call is announced and every piece of arguments arrives,
\* but not with its call.
CallsFaithful ==
  streamed /\ delivered /\ ~left =>
    /\ DOMAIN client.args = DOMAIN up.args
    /\ IF route = <<"responses", "chat">> /\ parallelCalls
       THEN argPieces(client.args) = argPieces(up.args)
       ELSE client.args = up.args

\* What a client may see broken of its dialect's rules.
toleratedFaults ==
  CASE route = <<"chat", "responses">> -> {"no role first"}
    [] route = <<"anthropic", "responses">> /\ ~hasAnswer ->
         {"message_start not first"}
    [] route = <<"responses", "chat">> /\ parallelCalls ->
         {"item added twice", "done differs from deltas"}
    [] OTHER -> {}

\* What reaches a client follows the rules of its dialect.  Anthropic: the
\* message starts first, a delta is inside of its open block, text never inside
\* running thinking, no block is left open when the message stops.  Chat: a role
\* first, a call announced before its arguments, nothing of a choice after its
\* finish reason nor after [DONE].  Responses: no event of an item that was not
\* added, done texts and arguments equal to their deltas, sequence numbers that
\* never go back, nothing after [DONE].  The translators break a rule only for
\* a Responses answer that starts with a call, one without any item, and for
\* parallel calls from chat to responses.
DialectRulesKept == client.faults \subseteq toleratedFaults

toldReason(reason) ==
  IF clientDialect = "anthropic"
  THEN anthropicStopReasonFromChatFinish(reason) ELSE reason

\* A streamed answer that was cut short never looks complete: a client told
\* that the stream ended has the whole answer and, where its dialect has one,
\* the provider's finish reason.
CleanEndMeansComplete ==
  streamed /\ client.ended > 0 =>
    /\ up.phase \in {"finished", "ended"}
    /\ client.text = up.text
    /\ clientDialect # "responses" => client.finish = <<toldReason(up.finish)>>

\* A provider's failure is not translated.
reportedFailure == upstream = "responses" /\ up.finish = "length"

endTold ==
  IF clientDialect = "chat" THEN client.finish # <<>> ELSE client.ended > 0

handledInFull ==
  translated /\ pc = "returned" /\ ~left /\ up.phase = "ended" /\ ~reportedFailure

\* Conversely, the client of a handler that returned after a complete stream
\* was told of the end.
CompleteStreamIsEnded == handledInFull => endTold

\* And it was told of the usage, as the provider told it.  A chat provider's
\* usage reaches a responses client from a chunk of its own only.
CompleteStreamEnds ==
  /\ CompleteStreamIsEnded
  /\ handledInFull /\ ~(route = <<"responses", "chat">> /\ ~up.usageApart) =>
       client.usage = up.usage

logWritten == pc = "returned" /\ route # <<"responses", "chat">> /\ requests = 1

\* The log entry of a request holds, when its handler returns, everything the
\* client was sent and, if all was delivered, the whole text, also after the
\* client left half-way.  A responses client's chat stream is excepted: its
\* entry keeps the raw stream only.
LogKeepsWords ==
  logWritten =>
    /\ IsPrefix(client.text, reqLog.text)
    /\ delivered => reqLog.text = up.text
    /\ translated /\ ~left => reqLog = client

\* And the arguments of the calls.
LogKeepsAnswer ==
  LogKeepsWords /\ (logWritten /\ delivered => reqLog.args = up.args)

answerPutTogether == route = Aggregated /\ pc = "returned" /\ requests = 1

\* The words of the answer put together from a forced stream are the
\* provider's; of a stream closed early they are what came.
AggregateKeepsWords ==
  answerPutTogether =>
    /\ IsPrefix(client.text, up.text) /\ IsPrefix(client.thinking, up.thinking)
    /\ delivered /\ ~left => client.text = up.text /\ client.thinking = up.thinking

\* So are its calls, finish reason and usage.  Its calls are listed in the
\* order of their indexes; the scan would list as many as eleven of them so, of
\* twelve it may shuffle the last two.
AggregateFaithful ==
  /\ AggregateKeepsWords
  /\ answerPutTogether /\ ~left =>
       /\ \A id \in DOMAIN client.args : IsPrefix(client.args[id], up.args[id])
       /\ delivered => /\ client.args = up.args
                       /\ client.finish = <<up.finish>> /\ client.usage = up.usage
       /\ \A n \in {Cardinality(DOMAIN codec.calls), 11} :
            callOrders(0..n-1) = {[i \in 1..n |-> i - 1]}

\* The second request for one prompt is sent only before the client was sent
\* anything, and never when the first one was answered in full.
FallbackOnlyUnanswered ==
  requests = 2 =>
    /\ pc = "fallback" => client = NewClient
    /\ up.phase = "ended" => ~hasAnswer /\ up.thinking = <<>>
=============================================================================
