---------------------------- MODULE Conversation ----------------------------
(***************************************************************************)
(* A conversation in whole answers, not streams, over several requests:    *)
(* the client writes its history in its own dialect, the gateway picks a   *)
(* backend that can do what is asked, writes the request anew in the       *)
(* backend's dialect, and the answer back in the client's, which becomes   *)
(* part of the history.  The parts of handleProtocolRequest that have to   *)
(* do with bodies; who is tried when is Dispatch, streams are StreamRelay. *)
(***************************************************************************)
EXTENDS ChatCodec, ResponsesCodec, AnthropicCodec, CapabilityGuard,
        DialectReaders, FiniteSets

CONSTANTS
  Backends,     \* the enabled configs of the requested model
  Pools,        \* what they may be: [Backends -> [upstream, supports]]
  Settings,     \* what a client may ask for beside its messages
  Answers,      \* what a model may answer: [thinking, tagged, text, calls, finish]
  MaxRequests   \* requests in a conversation

Dialects == {"chat", "responses", "anthropic"}

ASSUME ConversationAssumption ==
  /\ MaxRequests \in Nat \ {0}
  /\ \A pool \in Pools : \A b \in Backends :
       pool[b].upstream \in Dialects /\ pool[b].supports \subseteq Features
  /\ \A s \in Settings : /\ s.system \in {"none", "string", "list"}
                         /\ s.reasoning \in BOOLEAN /\ s.maxTokens \in Nat
  /\ \A a \in Answers : a.calls \in Nat /\ a.finish \in {"stop", "length"}

VARIABLES
  dialect,   \* the client's
  pool,      \* the backends' configs
  settings,  \* the client's
  requests,  \* how many it has written
  phase,     \* "writing", "dispatching", "sent", "received", "over"
  written,   \* the request's body as parsed: the envelope
  tried,     \* backends whose attempt failed
  sent,      \* what the backend tried last received
  meant,     \* what its model meant to answer, for the properties
  body,      \* the body it answered with
  got,       \* the body the client received
  log        \* the body in the request's log entry
vars == <<dialect, pool, settings, requests, phase, written, tried, sent, meant,
          body, got, log>>

NotSent == [backend |-> "", upstream |-> "", request |-> ""]
NoAnswer == [thinking |-> <<>>, text |-> <<>>, calls |-> <<>>, finish |-> ""]
Body(form, gzip, ofDialect, answer) ==
  [form |-> form, gzip |-> gzip, dialect |-> ofDialect, answer |-> answer]
NoBody == Body("none", FALSE, "", "")
Empty == Body("empty", FALSE, "", "")
Failed == Body("error", FALSE, "", "")
-----------------------------------------------------------------------------
(* What clients write, by the APIs' documents.  The pieces, ids and media  *)
(* of request r are numbers from 10 * r.                                   *)

piece(r, k) == 10 * r + k
SystemText == <<9>>
Tools(kinds) == {[name |-> kind, kind |-> kind] : kind \in kinds}

systemMessage(form) ==
  CASE form = "none" -> <<>>
    [] form = "string" -> <<ChatMessage("system", String(SystemText), <<>>, None)>>
    [] form = "list" -> <<ChatMessage("developer",
                           List(<<Part("text", SystemText, None)>>), <<>>, None)>>

systemContent(form) ==
  CASE form = "none" -> String(<<>>)
    [] form = "string" -> String(SystemText)
    [] form = "list" -> List(<<Part("text", SystemText, None)>>)

\* The instructions of the responses dialect are a string.
firstWritten(d, s) ==
  [system |-> IF d = "chat" \/ (d = "responses" /\ s.system = "list")
              THEN String(<<>>) ELSE systemContent(s.system),
   messages |-> IF d = "chat" THEN systemMessage(s.system) ELSE <<>>,
   tools |-> Tools(s.tools),
   choice |-> IF ~s.choice THEN NoChoice
              ELSE [form |-> d,
                    parallel |-> IF d # "anthropic" THEN "absent" ELSE s.parallel],
   parallel |-> IF d = "anthropic" THEN "absent" ELSE s.parallel,
   schema |-> IF d = "anthropic" THEN Absent ELSE s.schema,
   reasoning |-> IF s.reasoning THEN d ELSE Absent,
   maxTokens |-> IF d = "anthropic" /\ s.maxTokens = 0 THEN 1 ELSE s.maxTokens]

TextType(d) == IF d = "responses" THEN "input_text" ELSE "text"
MediaType(d, media) ==
  CASE d = "chat" -> IF media = "image" THEN "image_url" ELSE "file"
    [] d = "responses" -> IF media = "image" THEN "input_image" ELSE "input_file"
    [] d = "anthropic" -> IF media = "image" THEN "image" ELSE "document"

AskForms == {"string", "untyped", "list", "image", "file"}
askedContent(form, p) ==
  LET text == Part(TextType(dialect), <<p>>, None)
  IN CASE form \in {"string", "untyped"} -> String(<<p>>)
       [] form = "list" -> List(<<text>>)
       [] form \in {"image", "file"} ->
            List(<<text, Part(MediaType(dialect, form), <<>>, p)>>)

\* In the responses dialect the whole input may be a string, and a message
\* need not say that it is one.
question(form) ==
  LET content == askedContent(form, piece(requests + 1, 1))
  IN CASE dialect = "chat" -> ChatMessage("user", content, <<>>, None)
       [] dialect = "responses" ->
            Item(CASE form = "untyped" -> Absent
                   [] form = "string" /\ phase = "writing" -> "string"
                   [] OTHER -> "message",
                 "user", content, None, <<>>)
       [] dialect = "anthropic" -> AnthropicMessage("user", content)

\* What the answer received adds to the history.
adopted ==
  CASE dialect = "chat" ->
         LET choice == got.answer.choices[1]
         IN <<ChatMessage("assistant", String(choice.text), choice.calls, None)>>
    [] dialect = "responses" -> got.answer.output
    [] dialect = "anthropic" ->
         <<AnthropicMessage("assistant", List(got.answer.content))>>

\* The calls the client has to answer now, and their results.
openCalls == IF phase = "received" THEN readAnswer(dialect, got.answer).calls
             ELSE <<>>
resultText(id) == <<id + 5>>

\* An Anthropic client may send its results in one message, with a comment.
ReplyForms == {"apart", "together", "commented"}
reply(form) ==
  LET results == each(openCalls, LAMBDA id : Result(id, resultText(id)))
      comment == IF form = "commented"
                 THEN <<Part("text", <<piece(requests + 1, 1)>>, None)>> ELSE <<>>
  IN CASE dialect = "chat" ->
            each(openCalls, LAMBDA id :
                   ChatMessage("tool", String(resultText(id)), <<>>, id))
       [] dialect = "responses" ->
            each(openCalls, LAMBDA id : OutputItem(id, resultText(id)))
       [] dialect = "anthropic" /\ form = "apart" ->
            each(results, LAMBDA r : AnthropicMessage("user", List(<<r>>)))
       [] OTHER -> <<AnthropicMessage("user", List(results \o comment))>>
-----------------------------------------------------------------------------
(* What providers answer, in their dialects.                               *)

\* The pieces of request r: 2 thinking, 3 text, from 4 on the calls.
meaning(a) ==
  [thinking |-> IF a.thinking THEN <<piece(requests, 2)>> ELSE <<>>,
   text |-> IF a.text THEN <<piece(requests, 3)>> ELSE <<>>,
   calls |-> [i \in 1..a.calls |-> piece(requests, 3 + i)],
   finish |-> IF a.calls > 0 THEN "tool_calls" ELSE a.finish]

counted(names) == Usage(names, 7, 8)

answered(upstream, a) ==
  LET m == meaning(a)
  IN CASE upstream = "chat" ->
            [choices |-> <<Choice((IF a.tagged THEN each(m.thinking, LAMBDA p : -p)
                                   ELSE <<>>) \o m.text,
                                  IF a.tagged THEN <<>> ELSE m.thinking,
                                  m.calls, m.finish)>>,
             usage |-> counted(ChatNames)]
       [] upstream = "responses" ->
            [status |-> IF m.finish = "length" THEN "incomplete" ELSE "completed",
             output |->
               (IF a.thinking THEN <<ReasoningItem(m.thinking)>> ELSE <<>>)
                 \o (IF a.text THEN <<MessageItem("assistant",
                       List(<<Part("output_text", m.text, None)>>))>> ELSE <<>>)
                 \o each(m.calls, CallItem),
             usage |-> counted(TokenNames)]
       [] upstream = "anthropic" ->
            [content |->
               (IF a.thinking THEN <<Thinking(m.thinking)>> ELSE <<>>)
                 \o (IF a.text THEN <<Part("text", m.text, None)>> ELSE <<>>)
                 \o each(m.calls, ToolUse),
             stop |-> Events!anthropicStopReasonFromChatFinish(m.finish),
             usage |-> counted(TokenNames)]
-----------------------------------------------------------------------------
(* The gateway's conversions.                                              *)

DecodeRequest(d, request) ==
  CASE d = "chat" -> DecodeOpenAIChatRequest(request)
    [] d = "responses" -> DecodeResponsesRequest(request)
    [] d = "anthropic" -> DecodeAnthropicRequest(request)
EncodeRequest(d, ir) ==
  CASE d = "chat" -> EncodeOpenAIChatRequest(ir)
    [] d = "responses" -> EncodeResponsesRequest(ir)
    [] d = "anthropic" -> EncodeAnthropicRequest(ir)
DecodeResponse(d, answer) ==
  CASE d = "chat" -> DecodeOpenAIChatResponse(answer)
    [] d = "responses" -> DecodeResponsesResponse(answer)
    [] d = "anthropic" -> DecodeAnthropicResponse(answer)
EncodeResponse(d, ir) ==
  CASE d = "chat" -> EncodeOpenAIChatResponse(ir)
    [] d = "responses" -> EncodeResponsesResponse(ir)
    [] d = "anthropic" -> EncodeAnthropicResponse(ir)

\* The body goes on as it is, but for the effort of reasoning.
buildProviderRequestBody(request) ==
  [request EXCEPT !.reasoning = IF @ = Absent THEN @ ELSE "none"]

\* Even within the dialect the body is decoded and encoded.
sendAnthropicRequest(request) ==
  EncodeAnthropicRequest(DecodeAnthropicRequest(request))

sendProtocolRequest(d, upstream, request) ==
  CASE d = "chat" /\ upstream = "chat" -> buildProviderRequestBody(request)
    [] d = "responses" /\ upstream = "responses" -> request
    [] d = "anthropic" /\ upstream = "anthropic" -> sendAnthropicRequest(request)
    [] OTHER -> EncodeRequest(upstream, DecodeRequest(d, request))

Plain(b) == Body(b.form, FALSE, b.dialect, b.answer)
delivered(toClient, toLog) == [got |-> toClient, log |-> toLog]

convertResponse(d, upstream, answer) ==
  EncodeResponse(d, DecodeResponse(upstream, answer))

\* An Anthropic client is answered by a responses backend through chat.
convert(d, upstream, answer) ==
  IF d = "anthropic" /\ upstream = "responses"
  THEN convertResponse("anthropic", "chat", convertResponse("chat", upstream, answer))
  ELSE convertResponse(d, upstream, answer)

passthroughNonStreamResponse(b) == delivered(b, b)

\* What cannot be read is handed on as it is.
convertedUpstreamLogged(d, upstream, b) ==
  IF b.form # "json" THEN delivered(b, Plain(b))
  ELSE delivered(Body("json", FALSE, d, convert(d, upstream, b.answer)), Plain(b))
convertedNonStreamResponse(d, upstream, b) ==
  IF b.form # "json" THEN delivered(b, Plain(b))
  ELSE LET answer == Body("json", FALSE, d, convert(d, upstream, b.answer))
       IN delivered(answer, answer)

handleNonStreamResponse(b) == convertedNonStreamResponse("chat", "chat", b)

\* A body that is not compressed is lost to the conversion.
handleResponsesNonStreamResponse(b) ==
  IF b.gzip THEN convertedNonStreamResponse("responses", "chat", b)
  ELSE delivered(b, b)

writeProtocolResponse(d, upstream, b) ==
  IF b = Empty THEN delivered(Empty, NoBody)
  ELSE CASE d = upstream /\ d # "chat" -> passthroughNonStreamResponse(b)
         [] d = "chat" /\ upstream = "chat" -> handleNonStreamResponse(b)
         [] d = "responses" /\ upstream = "chat" ->
              handleResponsesNonStreamResponse(b)
         [] OTHER -> convertedNonStreamResponse(d, upstream, b)
-----------------------------------------------------------------------------
Init ==
  /\ dialect \in Dialects
  /\ pool \in Pools
  /\ settings \in Settings
  /\ requests = 0
  /\ phase = "writing"
  /\ written = firstWritten(dialect, settings)
  /\ tried = {}
  /\ sent = NotSent
  /\ meant = NoAnswer
  /\ body = NoBody
  /\ got = NoBody
  /\ log = NoBody

\* The client goes on after an answer it could read.
canWrite ==
  /\ \/ phase = "writing"
     \/ phase = "received" /\ got.form = "json" /\ got.dialect = dialect
  /\ requests < MaxRequests

history == IF phase = "writing" THEN written.messages
           ELSE written.messages \o adopted

writes(messages) ==
  /\ written' = [written EXCEPT !.messages = messages]
  /\ phase' = "dispatching"
  /\ tried' = {}
  /\ sent' = NotSent
  /\ meant' = NoAnswer
  /\ body' = NoBody
  /\ got' = NoBody
  /\ log' = NoBody
  /\ UNCHANGED <<dialect, pool, settings>>

ask(form) ==
  /\ canWrite /\ openCalls = <<>>
  /\ form = "untyped" => dialect = "responses"
  /\ requests' = requests + 1
  /\ writes(Append(history, question(form)))

answerCalls(form) ==
  /\ canWrite /\ openCalls # <<>>
  /\ form # "apart" => dialect = "anthropic"
  /\ requests' = requests + 1
  /\ writes(history \o reply(form))

candidates == filterConfigsByCapabilities(
                pool, deriveCapabilityRequirements(dialect, written))

untriedOrNot == candidates
untried == candidates \ tried

\* No backend can do what is asked, or every one has failed.
reject ==
  /\ phase = "dispatching"
  /\ untried = {}
  /\ phase' = "over"
  /\ got' = Failed
  /\ UNCHANGED <<dialect, pool, settings, requests, written, tried, sent, meant,
                 body, log>>

send(b) ==
  /\ phase = "dispatching"
  /\ b \in untried
  /\ phase' = "sent"
  /\ sent' = [backend |-> b, upstream |-> pool[b].upstream,
              request |-> sendProtocolRequest(dialect, pool[b].upstream,
                            normalizeEnvelopeForConfig(written, pool[b], dialect))]
  /\ UNCHANGED <<dialect, pool, settings, requests, written, tried, meant, body,
                 got, log>>

\* The attempt fails, or the backend answers another status than 2xx.
attemptFails ==
  /\ phase = "sent"
  /\ phase' = "dispatching"
  /\ tried' = tried \union {sent.backend}
  /\ UNCHANGED <<dialect, pool, settings, requests, written, sent, meant, body,
                 got, log>>

responds(b, m) ==
  LET result == writeProtocolResponse(dialect, sent.upstream, b)
  IN /\ phase = "sent"
     /\ phase' = "received"
     /\ meant' = m
     /\ body' = b
     /\ got' = result.got
     /\ log' = result.log
     /\ UNCHANGED <<dialect, pool, settings, requests, written, tried, sent>>

\* Calls only with tools, and tagged thinking only in the chat dialect.
answer(a, gzip) ==
  /\ phase = "sent"
  /\ a.calls > 0 => sent.request.tools # {}
  /\ a.tagged => sent.upstream = "chat"
  /\ responds(Body("json", gzip, sent.upstream, answered(sent.upstream, a)),
              meaning(a))

answerUnreadable(gzip) ==
  responds(Body("malformed", gzip, sent.upstream, ""), NoAnswer)
answerEmpty == responds(Empty, NoAnswer)

\* The status line is out already; the error's text follows it.
bodyBreaksOff ==
  /\ phase = "sent"
  /\ phase' = "over"
  /\ got' = Failed
  /\ UNCHANGED <<dialect, pool, settings, requests, written, tried, sent, meant,
                 body, log>>

Next ==
  \/ \E form \in AskForms : ask(form)
  \/ \E form \in ReplyForms : answerCalls(form)
  \/ reject
  \/ \E b \in Backends : send(b)
  \/ attemptFails
  \/ \E a \in Answers, gzip \in BOOLEAN : answer(a, gzip)
  \/ \E gzip \in BOOLEAN : answerUnreadable(gzip)
  \/ answerEmpty
  \/ bodyBreaksOff

Spec == Init /\ [][Next]_vars
-----------------------------------------------------------------------------
(* Properties.                                                             *)

told == readRequest(sent.upstream, sent.request)
toldWhole == sent.upstream = dialect /\ dialect # "anthropic"
isSent == sent # NotSent

\* Types, and what each stage of a request has of the conversation.
ConversationTypeOK ==
  /\ dialect \in Dialects /\ pool \in Pools /\ settings \in Settings
  /\ requests \in 0..MaxRequests
  /\ phase \in {"writing", "dispatching", "sent", "received", "over"}
  /\ tried \subseteq Backends
  /\ isSent => sent.backend \in Backends /\ sent.upstream \in Dialects
  /\ phase = "sent" => isSent /\ sent.backend \notin tried
  /\ phase = "received" <=> body # NoBody
  /\ got # NoBody <=> phase \in {"received", "over"}
  /\ log # NoBody => phase = "received"

\* Client texts the codecs do not take over (request_codec.go:383, :387, :541,
\* :566, :593): contents that are strings and items without type, an
\* assistant's texts from the responses to the Anthropic dialect, and what
\* an Anthropic client says in the message of its results.
textLost(m) ==
  CASE dialect = "chat" -> FALSE
    [] dialect = "responses" ->
         \/ m.type = Absent
         \/ m.type = "message" /\ ~m.content.list
         \/ m.type = "message" /\ m.role = "assistant" /\ sent.upstream = "anthropic"
    [] dialect = "anthropic" ->
         \/ ~m.content.list
         \/ \E i \in DOMAIN m.content.parts :
              m.content.parts[i].type = "tool_result"

\* The request as far as the codecs take it over.
takenOver ==
  IF toldWhole THEN written
  ELSE [written EXCEPT
          !.system = IF @.list THEN String(<<>>) ELSE @,
          !.messages = chosen(@, LAMBDA m : ~textLost(m))]

\* The backend is told the system's instructions, every text, image and call
\* of the whole history, each once and in order, whichever dialects the
\* client and the backend speak and whoever was tried before, but for the
\* texts of textLost and an Anthropic client's list of system blocks.
RequestKept ==
  isSent =>
    LET taken == readRequest(dialect, takenOver)
    IN /\ ofKinds(told, {"said"}) = ofKinds(taken, {"said"})
       /\ ofKinds(told, {"shown"}) = ofKinds(taken, {"shown"})
       /\ ofKinds(told, {"call"}) = ofKinds(readRequest(dialect, written), {"call"})

results == ofKinds(readRequest(dialect, written), {"result"})
resultsTold == ofKinds(told, {"result"})
resultsTogether ==
  dialect = "anthropic" /\ \E i \in DOMAIN written.messages :
    Cardinality({j \in DOMAIN written.messages[i].content.parts :
                   written.messages[i].content.parts[j].type = "tool_result"}) > 1

\* The backend is told a result only after its call and once; every call has
\* one, unless the client put several in a message; and it is the client's,
\* word for word, unless it crosses from another dialect into chat.
ResultsPaired ==
  isSent =>
    /\ \A i \in DOMAIN told : told[i].kind = "result" =>
         /\ \E j \in 1..(i - 1) : told[j].kind = "call" /\ told[j].id = told[i].id
         /\ \A j \in DOMAIN told :
              told[j].kind = "result" /\ told[j].id = told[i].id => i = j
    /\ ~resultsTogether =>
         /\ each(resultsTold, LAMBDA r : r.id) = each(results, LAMBDA r : r.id)
         /\ sent.upstream # "chat" \/ dialect = "chat" => resultsTold = results

\* What a backend is sent is within what its config says it can do (a document
\* of an Anthropic client is not looked for), whoever was tried before with
\* a request cut down for it: no parallel calls where they are off, and the
\* client's wish unchanged where they are on; no choice among no tools once
\* tools were dropped; for Anthropic always a limit on the answer.
SentAcceptable ==
  isSent =>
    LET request == sent.request
        has == pool[sent.backend].supports
    IN /\ request.tools # {} => "tools" \in has
       /\ request.reasoning # Absent => "reasoning" \in has
       /\ request.schema = "json_schema" => "json_schema" \in has
       /\ (\E i \in DOMAIN told : told[i].kind = "shown") /\ "vision" \notin has =>
            dialect = "anthropic" /\ ~requestUsesVision(written)
       /\ "parallel_tool_calls" \notin has =>
            /\ request.parallel # "on"
            /\ request.choice.form = "anthropic" => request.choice.parallel = "off"
       /\ "parallel_tool_calls" \in has /\ request.tools # {} =>
            /\ request.choice = written.choice
            /\ sent.upstream # "anthropic" => request.parallel = written.parallel
       /\ request.tools = {} /\ written.tools # {} =>
            request.choice = NoChoice /\ request.parallel = "absent"
       /\ sent.upstream = "anthropic" => request.maxTokens > 0

\* What of a responses backend's answer is handed on to another dialect: its
\* first item.
firstOf(m) ==
  CASE m.thinking # <<>> -> Answer(m.thinking, <<>>, <<>>)
    [] m.thinking = <<>> /\ m.text # <<>> -> Answer(<<>>, m.text, <<>>)
    [] OTHER -> Answer(<<>>, <<>>, IF m.calls = <<>> THEN <<>> ELSE <<m.calls[1]>>)

unconverted == dialect = "responses" /\ sent.upstream = "chat" /\ ~body.gzip

\* The client reads the thinking, text and calls the model meant, in its own
\* dialect, each in its place even when thinking came tagged within the
\* text, and why the answer ended; but for an uncompressed chat answer to a
\* responses client, for a responses answer in another dialect, of which the
\* first item is left, and for the length limit, which the responses codec
\* does not know.  The token counts come with it, between chat and responses
\* under the names of the wrong dialect, and as zeroes from a responses
\* backend to an Anthropic client.
AnswerKept ==
  phase = "received" /\ body.form = "json" /\ ~unconverted =>
    LET crossed == sent.upstream # dialect
        read == readAnswer(dialect, got.answer)
        calls == meant.finish = "tool_calls"
        reason == IF crossed /\ "responses" \in {dialect, sent.upstream} /\ ~calls
                  THEN "stop" ELSE meant.finish
    IN /\ got.dialect = dialect
       /\ read = IF crossed /\ sent.upstream = "responses" THEN firstOf(meant)
                 ELSE Answer(meant.thinking, meant.text, meant.calls)
       /\ finishOf(dialect, got.answer) =
            IF dialect = "anthropic"
            THEN Events!anthropicStopReasonFromChatFinish(reason) ELSE reason
       /\ got.answer.usage =
            IF dialect = "anthropic" /\ sent.upstream = "responses"
            THEN Usage(TokenNames, 0, 0)
            ELSE counted(IF dialect = "anthropic" \/ sent.upstream = "responses"
                         THEN TokenNames ELSE ChatNames)

\* The log entry holds what the client received, decompressed if the gateway
\* looked into it; an answer that broke off or was empty leaves none.
AnswerLogged ==
  IF phase = "received" /\ got # Empty
  THEN Plain(log) = Plain(got) /\ (log.gzip => got.gzip)
  ELSE log = NoBody

\* README.md:25 "encode back to inbound protocol".
AnswerInClientDialect ==
  phase = "received" /\ body.form = "json" => got.dialect = dialect

\* plan/rosetta-adapter-compatibility-matrix.md:14 counts tool results as
\* supported in all three dialects: a backend is told each the client sent.
ResultsKept == isSent => resultsTold = results
=============================================================================
